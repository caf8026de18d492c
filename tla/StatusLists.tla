---------------------------- MODULE StatusLists ----------------------------
(***************************************************************************)
(* The credentials a wallet issues and the status lists in which it        *)
(* publishes their revocation (wallet-api, CredentialsService).            *)
(*                                                                         *)
(* A revocable credential has an index in a status list.  For each list    *)
(* the wallet keeps a row with the revoked indexes and, as a credential of *)
(* its own, the signed list that verifiers fetch.  Every call loads what   *)
(* it works on, awaits signatures and database, and saves its copy: calls  *)
(* that overlap, and a process that stops, come in between.                *)
(***************************************************************************)
EXTENDS Naturals, FiniteSets

CONSTANTS
  Cred,       \* identifiers of credentials
  MaxList,    \* bound: the number of the last status list
  Index,      \* positions in a status list
  Client,     \* who may have a call under way, one each
  Limit,      \* statusListCount: entries after which a list is full
  None,       \* no list, no index
  MaxCalls,   \* bound: calls
  MaxTrouble  \* bound: calls that fail and restarts

ASSUME ListAssumption ==
  /\ MaxList \in Nat
  /\ Index \subseteq Nat /\ None \notin Nat
ASSUME ClientAssumption ==
  /\ IsFiniteSet(Client) /\ Client # {} /\ IsFiniteSet(Cred)
  /\ Limit \in Nat \ {0} /\ MaxCalls \in Nat /\ MaxTrouble \in Nat

List == 0 .. MaxList

VARIABLES
  credential,  \* credential[c]: the row of an issued credential
  statusList,  \* statusList[l]: the row of a status list
  published,   \* published[l]: the bits set in the signed list
  call,        \* call[k]: what the client's call has loaded, and where it is
  asked,       \* history: the entries whose revocation was begun
  denied,      \* history: the entries whose revocation was answered
  raced,       \* history: lists that two calls worked on at once
  calls, trouble

history == <<asked, denied>>
vars == <<credential, statusList, published, call, history, raced, calls,
          trouble>>

CredentialRow == [exists : BOOLEAN, list : List \cup {None},
                  index : Index \cup {None}, revoked : BOOLEAN]
ListRow == [exists : BOOLEAN, revoked : SUBSET Index, full : BOOLEAN]
Entry == Cred \X List \X Index

Missing == [exists |-> FALSE, list |-> None, index |-> None, revoked |-> FALSE]
NoList == [exists |-> FALSE, revoked |-> {}, full |-> FALSE]
NewList == [exists |-> TRUE, revoked |-> {}, full |-> FALSE]

\* assignStatusListIndex up to "picking", selfIssueCredential to "signing";
\* then revokeCredential and deleteCredential.
Pc == {"idle", "finding", "counting", "filling", "naming", "creating",
       "recording", "picking", "signing", "publishing", "saving", "flagging",
       "removing"}
\* After creating a list, a call counts its entries or picks an index.
Call == [pc : Pc, on : Cred \cup {None}, list : List \cup {None},
         copy : ListRow, old : CredentialRow, index : Index \cup {None},
         then : {"counting", "picking"}]
NoCall == [pc |-> "idle", on |-> None, list |-> None, copy |-> NoList,
           old |-> Missing, index |-> None, then |-> "counting"]

TypeOK ==
  /\ credential \in [Cred -> CredentialRow]
  /\ statusList \in [List -> ListRow]
  /\ published \in [List -> SUBSET Index]
  /\ call \in [Client -> Call]
  /\ asked \subseteq Entry /\ denied \subseteq asked
  /\ raced \subseteq List
  /\ calls \in Nat /\ trouble \in Nat
  /\ \A c \in Cred :
       /\ credential[c].list = None <=> credential[c].index = None
       /\ credential[c].list # None => statusList[credential[c].list].exists

\* A wallet that issues credentials begins by looking for a list.
Booted(K) ==
  [k \in Client |->
     IF k \in K THEN [NoCall EXCEPT !.pc = "finding"] ELSE NoCall]
Boots == {{}} \cup {{k} : k \in Client}

Init ==
  /\ credential = [c \in Cred |-> Missing]
  /\ statusList = [l \in List |-> NoList]
  /\ published = [l \in List |-> {}]
  /\ \E K \in Boots : call = Booted(K)
  /\ asked = {} /\ denied = {} /\ raced = {}
  /\ calls = 0 /\ trouble = 0

Using(l) == {c \in Cred : credential[c].list = l}
Lists == {l \in List : statusList[l].exists}
EntryOf(c) == <<c, credential[c].list, credential[c].index>>
Busy(k) == call[k].pc # "idle"

\* Two calls that are under way have loaded, or are making, the list l.
Shared(l) == \E j, k \in Client : j # k /\ call[j].list = l /\ call[k].list = l
Watch == raced' = raced \cup {l \in List : Shared(l)'}

Begin(k, r) ==
  /\ ~Busy(k)
  /\ calls < MaxCalls
  /\ calls' = calls + 1
  /\ call' = [call EXCEPT ![k] = r]
  /\ Watch
  /\ UNCHANGED trouble

\* The call of k goes on as r.
Continue(k, r) ==
  /\ call' = [call EXCEPT ![k] = r]
  /\ Watch
  /\ UNCHANGED <<calls, trouble>>

----------------------------------------------------------------------------
(* Issuing: selfIssueCredential and assignStatusListIndex.                  *)

SelfIssue(k, c, revocable) ==
  /\ Begin(k, [NoCall EXCEPT !.on = c,
                 !.pc = IF revocable THEN "finding" ELSE "signing"])
  /\ UNCHANGED <<credential, statusList, published, history>>

\* The check for an existing credential is made with the identifier as given:
\* it finds a full one, as the issuance protocols make them, ...
IssueByIdentifier(k, c, revocable) ==
  ~credential[c].exists /\ SelfIssue(k, c, revocable)

\* ... but never a short name, which is completed with the DID afterwards.
IssueByName(k, c, revocable) == SelfIssue(k, c, revocable)

\* An update that names another credential in its body is like the latter.
Update(k, c, revocable) == credential[c].exists /\ SelfIssue(k, c, revocable)

\* The first list that is not full; if there is none, one is created.
Find(k) ==
  /\ call[k].pc = "finding"
  /\ \/ \E l \in Lists :
          /\ ~statusList[l].full
          /\ Continue(k, [call[k] EXCEPT !.pc = "counting", !.list = l,
                                         !.copy = statusList[l]])
     \/ /\ \A l \in Lists : statusList[l].full
        /\ Continue(k, [call[k] EXCEPT !.pc = "naming", !.then = "counting"])
  /\ UNCHANGED <<credential, statusList, published, history>>

\* Mutant: a list takes one entry more than it should.
CountOneMore(k) ==
  /\ call[k].pc = "counting"
  /\ Continue(k, [call[k] EXCEPT !.pc =
       IF Cardinality(Using(call[k].list)) > Limit THEN "filling"
                                                   ELSE "picking"])
  /\ UNCHANGED <<credential, statusList, published, history>>

Count(k) ==
  /\ call[k].pc = "counting"
  /\ Continue(k, [call[k] EXCEPT !.pc =
       IF Cardinality(Using(call[k].list)) >= Limit THEN "filling"
                                                    ELSE "picking"])
  /\ UNCHANGED <<credential, statusList, published, history>>

\* The copy of the list is saved as full, and a new one created.
Fill(k) ==
  /\ call[k].pc = "filling"
  /\ statusList' = [statusList EXCEPT ![call[k].list] =
                      [call[k].copy EXCEPT !.full = TRUE]]
  /\ Continue(k, [call[k] EXCEPT !.pc = "naming", !.then = "picking"])
  /\ UNCHANGED <<credential, published, history>>

\* The new list has the number of lists as its name.  (Bound: List.)
Name(k) ==
  /\ call[k].pc = "naming"
  /\ Cardinality(Lists) \in List
  /\ Continue(k, [call[k] EXCEPT !.pc = "creating", !.copy = NewList,
                                 !.list = Cardinality(Lists)])
  /\ UNCHANGED <<credential, statusList, published, history>>

\* Its empty list is signed and published, ...
CreateList(k) ==
  /\ call[k].pc = "creating"
  /\ published' = [published EXCEPT ![call[k].list] = {}]
  /\ Continue(k, [call[k] EXCEPT !.pc = "recording"])
  /\ UNCHANGED <<credential, statusList, history>>

\* ... and its row saved.
RecordList(k) ==
  /\ call[k].pc = "recording"
  /\ statusList' = [statusList EXCEPT ![call[k].list] = NewList]
  /\ Continue(k, [call[k] EXCEPT !.pc = call[k].then])
  /\ UNCHANGED <<credential, published, history>>

\* Mutant: an index is used again.
PickAny(k) ==
  /\ call[k].pc = "picking"
  /\ \E i \in Index :
       Continue(k, IF call[k].on = None THEN NoCall
                   ELSE [call[k] EXCEPT !.pc = "signing", !.index = i])
  /\ UNCHANGED <<credential, statusList, published, history>>

\* A random index that no credential of the list has.  The call made at start
\* wanted the list only.
Pick(k) ==
  /\ call[k].pc = "picking"
  /\ \E i \in Index :
       /\ \A c \in Using(call[k].list) : credential[c].index # i
       /\ Continue(k, IF call[k].on = None THEN NoCall
                      ELSE [call[k] EXCEPT !.pc = "signing", !.index = i])
  /\ UNCHANGED <<credential, statusList, published, history>>

\* Mutant: an entry that is not revocable any more loses its list only.
SaveIssuedHalf(k) ==
  LET r == call[k] IN
  /\ r.pc = "signing"
  /\ credential' = [credential EXCEPT ![r.on] =
       [@ EXCEPT !.exists = TRUE, !.list = r.list,
                 !.index = IF r.list = None THEN @ ELSE r.index]]
  /\ Continue(k, NoCall)
  /\ UNCHANGED <<statusList, published, history>>

\* The signed credential is saved over the row there may be: a save keeps the
\* columns it is not given, revoked always, list and index if not revocable.
SaveIssued(k) ==
  LET r == call[k] IN
  /\ r.pc = "signing"
  /\ credential' = [credential EXCEPT ![r.on] =
       IF r.list = None THEN [@ EXCEPT !.exists = TRUE]
       ELSE [@ EXCEPT !.exists = TRUE, !.list = r.list, !.index = r.index]]
  /\ Continue(k, NoCall)
  /\ UNCHANGED <<statusList, published, history>>

----------------------------------------------------------------------------
(* Revoking: revokeCredential.                                              *)

\* The credential and its list are loaded.  Index 0 counts as no index, so
\* such a credential is refused like one without a list.
Revoke(k, c) ==
  LET r == credential[c] IN
  /\ r.exists /\ r.list # None /\ r.index # 0
  /\ Begin(k, [NoCall EXCEPT !.pc = "publishing", !.on = c, !.old = r,
                 !.list = r.list, !.index = r.index,
                 !.copy = [statusList[r.list] EXCEPT
                             !.revoked = @ \cup {r.index}]])
  /\ asked' = asked \cup {EntryOf(c)}
  /\ UNCHANGED <<credential, statusList, published, denied>>

\* The list is signed with the index and published, ...
Publish(k) ==
  /\ call[k].pc = "publishing"
  /\ published' = [published EXCEPT ![call[k].list] = call[k].copy.revoked]
  /\ Continue(k, [call[k] EXCEPT !.pc = "saving"])
  /\ UNCHANGED <<credential, statusList, history>>

\* Mutant: the index is published and not recorded.
SaveNothing(k) ==
  /\ call[k].pc = "saving"
  /\ Continue(k, [call[k] EXCEPT !.pc = "flagging"])
  /\ UNCHANGED <<credential, statusList, published, history>>

\* ... then the copy of its row is saved ...
SaveList(k) ==
  /\ call[k].pc = "saving"
  /\ statusList' = [statusList EXCEPT ![call[k].list] = call[k].copy]
  /\ Continue(k, [call[k] EXCEPT !.pc = "flagging"])
  /\ UNCHANGED <<credential, published, history>>

\* ... and the copy of the credential, whether or not the row is still there.
Flag(k) ==
  LET r == call[k] IN
  /\ r.pc = "flagging"
  /\ credential' = [credential EXCEPT ![r.on] = [r.old EXCEPT !.revoked = TRUE]]
  /\ denied' = denied \cup {<<r.on, r.list, r.index>>}
  /\ Continue(k, NoCall)
  /\ UNCHANGED <<statusList, published, asked>>

----------------------------------------------------------------------------
(* Deleting: deleteCredential.  The wallet does not look at the lists.      *)

Delete(k, c) ==
  /\ credential[c].exists
  /\ Begin(k, [NoCall EXCEPT !.pc = "removing", !.on = c,
                             !.list = credential[c].list])
  /\ UNCHANGED <<credential, statusList, published, history>>

Remove(k) ==
  /\ call[k].pc = "removing"
  /\ credential' = [credential EXCEPT ![call[k].on] = Missing]
  /\ Continue(k, NoCall)
  /\ UNCHANGED <<statusList, published, history>>

----------------------------------------------------------------------------
(* Faults.                                                                  *)

\* Signing or the database fails: the call throws where it is.
Fail(k) ==
  /\ Busy(k) /\ trouble < MaxTrouble
  /\ trouble' = trouble + 1
  /\ call' = [call EXCEPT ![k] = NoCall]
  /\ UNCHANGED <<credential, statusList, published, history, raced, calls>>

\* The process stops and starts again.
Restart(K) ==
  /\ trouble < MaxTrouble
  /\ trouble' = trouble + 1
  /\ call' = Booted(K)
  /\ UNCHANGED <<credential, statusList, published, history, raced, calls>>

----------------------------------------------------------------------------

Step(k) ==
  \/ \E c \in Cred, revocable \in BOOLEAN :
       \/ IssueByIdentifier(k, c, revocable)
       \/ IssueByName(k, c, revocable)
       \/ Update(k, c, revocable)
  \/ Find(k) \/ Count(k) \/ Fill(k) \/ Name(k) \/ CreateList(k)
  \/ RecordList(k) \/ Pick(k) \/ SaveIssued(k)
  \/ \E c \in Cred : Revoke(k, c) \/ Delete(k, c)
  \/ Publish(k) \/ SaveList(k) \/ Flag(k) \/ Remove(k)
  \/ Fail(k)

Next ==
  \/ \E k \in Client : Step(k)
  \/ \E K \in Boots : Restart(K)

Spec == Init /\ [][Next]_vars

----------------------------------------------------------------------------
(* Properties.                                                              *)

\* A revocation that was answered stays: whatever is issued, deleted, revoked
\* or restarted later, the index remains in the list's row and published, if
\* no two calls have worked on the list at once.
RevocationsStick ==
  \A e \in denied : e[2] \notin raced =>
    e[3] \in statusList[e[2]].revoked \cap published[e[2]]

\* A credential appears as revoked only if its own revocation was begun, or that
\* of another with its index: which, unless two calls have worked on the list at
\* once, had it before and was deleted or issued anew.
OnlyAskedAreRevoked ==
  \A c \in Cred : LET r == credential[c] IN
    r.list # None /\ r.index \in published[r.list]
    => \E d \in Cred : /\ <<d, r.list, r.index>> \in asked
                       /\ r.list \notin raced /\ d # c
                            => EntryOf(d) # <<d, r.list, r.index>>

\* A list has at most statusListCount entries, and calls that overlap exceed
\* it by less than their number.
ListsFit ==
  \A l \in List :
    Cardinality(Using(l)) <=
      IF l \in raced THEN Limit + Cardinality(Client) - 1 ELSE Limit
=============================================================================
