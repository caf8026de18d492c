------------------------ MODULE StatusListInduction ------------------------
(* The inductive invariants behind the safety properties of StatusLists.   *)
EXTENDS StatusLists

Loaded == {"counting", "filling"}
Making == {"creating", "recording"}
Revoking == {"publishing", "saving", "flagging"}

\* What a call has filled in where it is; a list it works on exists, except
\* the one it is making.
Shape(r, rows) ==
  /\ r.pc \in Loaded \cup Making \cup {"picking"} => r.list \in List
  /\ r.pc \in Revoking \cup {"removing", "signing"} => r.on \in Cred
  /\ r.pc \in Revoking => /\ r.list \in List /\ r.index \in Index
                          /\ r.old.list = r.list /\ r.old.index = r.index
  /\ r.pc = "signing" => (r.list = None <=> r.index = None)
  /\ r.pc \in Making => r.copy = NewList
  /\ r.pc \in Loaded \cup {"publishing", "saving"} => r.copy.exists
  /\ r.list # None /\ r.pc \notin Making => rows[r.list].exists

CallShape == \A k \in Client : Shape(call[k], statusList)

RevokingAsked == \A k \in Client : LET r == call[k] IN
  r.pc \in Revoking => <<r.on, r.list, r.index>> \in asked

RacedKnown == \A l \in List : Shared(l) => l \in raced

\* The lists that exist are the first ones, and a call makes one of them or
\* the next.
Numbered ==
  /\ \A l, m \in List :
       statusList[l].exists /\ m < l => statusList[m].exists
  /\ \A k \in Client : call[k].pc \in Making =>
       \A m \in List : m < call[k].list => statusList[m].exists

\* A list that is made by one call only is new.
MadeOnce ==
  \A k \in Client :
    call[k].pc \in Making /\ call[k].list \notin raced
      => ~statusList[call[k].list].exists

Blank == \A l \in List : ~statusList[l].exists => statusList[l].revoked = {}

\* The copy of a list that only one call works on is the row of the list.
Known(r, rows, shown) ==
  /\ r.pc \in Loaded => r.copy.revoked = rows[r.list].revoked
  /\ r.pc \in {"publishing", "saving"} =>
       r.copy.revoked = rows[r.list].revoked \cup {r.index}
  /\ r.pc = "saving" => shown[r.list] = r.copy.revoked
  /\ r.pc = "flagging" =>
       r.index \in rows[r.list].revoked \cap shown[r.list]

CopiesKnown ==
  \A k \in Client : call[k].list \in List \ raced =>
    Known(call[k], statusList, published)

Shown ==
  \A l \in List \ raced : statusList[l].revoked \subseteq published[l]

DeniedKnown == \A e \in denied : statusList[e[2]].exists

ListInv == /\ RacedKnown /\ Numbered /\ MadeOnce /\ Blank
           /\ CopiesKnown /\ Shown /\ DeniedKnown /\ RevocationsStick

\* Indexes that are revoked anywhere were asked to be.
Asked(l, entries) == {i \in Index : \E d \in Cred : <<d, l, i>> \in entries}
OnlyAsked ==
  /\ \A l \in List : /\ statusList[l].revoked \subseteq Asked(l, asked)
                     /\ published[l] \subseteq Asked(l, asked)
  /\ \A k \in Client : call[k].list \in List =>
       call[k].copy.revoked \subseteq Asked(call[k].list, asked)

\* No two credentials of a list have one index, nor will they when the call
\* that works on the list saves its credential.
Distinct ==
  /\ \A c, d \in Cred :
       c # d /\ credential[c].list \in List \ raced
         => EntryOf(d) # <<d, credential[c].list, credential[c].index>>
  /\ \A k \in Client : LET r == call[k] IN
       r.list \in List \ raced /\ r.pc \in Revoking \cup {"signing"}
         => \A c \in Using(r.list) :
              c # r.on => credential[c].index # r.index

IndexInv == RacedKnown /\ OnlyAsked /\ Distinct

\* The credentials a list has or may get from calls that are past counting its
\* entries: the call that creates a list because another is full never counts
\* them, and a revocation saves its credential even if it was deleted meanwhile.
Adds(r, l) ==
  /\ r.list = l /\ r.on \in Cred
  /\ \/ r.pc \in Revoking \cup {"picking", "signing"}
     \/ r.pc \in Making /\ r.then = "picking"
Coming(l) == {c \in Cred : \E k \in Client :
                            Adds(call[k], l) /\ call[k].on = c}
Entries(l) == Using(l) \cup Coming(l)

Room(l) == IF l \in raced THEN Limit + Cardinality(Client) - 1 ELSE Limit

Fitting == \A l \in List : Cardinality(Entries(l)) <= Room(l)
=============================================================================
