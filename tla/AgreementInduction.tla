------------------------- MODULE AgreementInduction -------------------------
(***************************************************************************)
(* The inductive invariants behind the safety properties: what the copies  *)
(* that wait to be saved may still say, however old they are.              *)
(***************************************************************************)
EXTENDS ProjectAgreements

\* A row, or a copy of one, that has a hash has all signatures; a finalized one
\* has a hash.
Covered(r) ==
  /\ r.hash # None => r.sigs = Party
  /\ r.status = "FINALIZED" => r.hash # None

\* A row or copy of the initiator's that is finalized has been stored by all.
Spread(r) == r.status = "FINALIZED" => \A w \in Worker : r.hash \in stored[w]

CopiesCovered ==
  /\ \A c \in SignCall : Covered(sign[c].copy) /\ Covered(back[c].copy)
  /\ \A c \in SignCall, w \in Worker : Covered(send[c][w].copy)
  /\ \A l \in LinkCall : Covered(link[l].copy)

CopiesSpread ==
  /\ \A c \in SignCall : Spread(back[c].copy)
  /\ \A l \in LinkCall : link[l].by = Initiator => Spread(link[l].copy)

\* Only workers sign; a handler that goes on to sign has all of their
\* signatures; from then on its copy has the hash of the call.
CallbackOrder(c) ==
  /\ sign[c].pc = "posted" => sign[c].by # Initiator
  /\ back[c].pc = "countersigning" =>
       Worker \subseteq back[c].copy.sigs /\ back[c].copy.status = "SIGNED"
  /\ back[c].pc = "offering" => back[c].copy.hash = c
  /\ back[c].pc # "none" => sign[c].pc # "idle"

\* Messages are sent when the handler has answered, with the hash it stored; the
\* worker that answers one has stored it.
FinalOrder(c) ==
  /\ final[c] # "none" => back[c].pc = "ok" /\ back[c].copy.hash = c
  /\ \A w \in Worker :
       /\ send[c][w].pc # "none" => final[c] # "none"
       /\ send[c][w].pc = "stored" => c \in stored[w]

SpreadInv ==
  /\ TypeOK /\ HashCoversAll /\ CopiesCovered
  /\ Spread(row[Initiator]) /\ CopiesSpread
  /\ \A c \in SignCall : CallbackOrder(c) /\ FinalOrder(c)
----------------------------------------------------------------------------
(* Behind SingleHash.                                                       *)

\* The callback of c will not complete the signatures any more.
Past(c) == back[c].pc \in {"offering", "ok", "failed"}

\* A worker's signature in a row or copy of the initiator's comes from a call
\* that is past, or from the one whose handler has the copy.
Genuine(sigs, own) ==
  \A w \in Worker \cap sigs : \E c \in SignCall :
    sign[c].pc # "idle" /\ sign[c].by = w /\ (c = own \/ Past(c))

SignaturesGenuine ==
  /\ Genuine(row[Initiator].sigs, None)
  /\ \A c \in SignCall : Genuine(back[c].copy.sigs, c)
  /\ \A l \in LinkCall :
       link[l].by = Initiator => Genuine(link[l].copy.sigs, None)

\* The hashes in the rows and in the copies from which rows get them.
Hashes == {row[p].hash : p \in Party} \cup {sign[c].copy.hash : c \in SignCall}
          \cup {back[c].copy.hash : c \in SignCall}
          \cup {link[l].copy.hash : l \in LinkCall}

\* With the first hash, every worker has signed and no callback is left that
\* could complete the signatures.
Complete ==
  /\ \A w \in Worker : \E c \in SignCall :
       sign[c].pc # "idle" /\ sign[c].by = w
  /\ \A c \in SignCall : sign[c].pc # "idle" => Past(c)

SingleInv ==
  /\ \A c \in SignCall : sign[c].pc # "idle" => sign[c].by \in Worker
  /\ SignaturesGenuine
  /\ SignOnce => /\ Hashes \subseteq {None} \/ Complete
                 /\ \A g, h \in Hashes \ {None} : g = h

----------------------------------------------------------------------------
(* Behind LinkedHasPolicy: what is so as long as calls do not overlap.      *)

\* Only requests and finalizations that go well are under way; what is sent is
\* part of a finalization.
Calmly ==
  /\ \A w \in Worker : ask[w] # "failed"
  /\ \A c \in SignCall : final[c] # "failed"
  /\ \A c \in SignCall, w \in Worker :
       /\ send[c][w].pc # "failed"
       /\ send[c][w].pc \in {"todo", "listening", "missed"} =>
            final[c] = "sending"

\* While one dataset is linked, nothing else is under way.
LinksAlone ==
  \A l \in LinkCall : Linking(l) =>
    /\ link[l].copy.hash # None
    /\ \A m \in LinkCall : Linking(m) => m = l
    /\ \A c \in SignCall : /\ ~Signing(c) /\ ~Handling(c)
                           /\ final[c] = "sending" => Hung(c)
                           /\ \A w \in Worker : send[c][w].pc \notin Underway
    /\ \A w \in Worker : ask[w] \notin Underway

\* Before the agreement is created there is nothing.
Fresh ==
  /\ \A p \in Party : row[p] = Absent /\ policy[p] = FALSE
  /\ \A w \in Worker : ask[w] = "none"
  /\ \A c \in SignCall : /\ ~Signing(c) /\ ~Handling(c) /\ final[c] = "none"
                         /\ \A w \in Worker : send[c][w].pc = "none"
  /\ \A l \in LinkCall : ~Linking(l)

\* Every row lists the dataset as its policy says, but for a link that is about
\* to be saved, and so does every copy that may be saved.
PolicyKept ==
  /\ \A p \in Party : \/ row[p].linked = policy[p]
                       \/ \E l \in LinkCall :
                            link[l].by = p /\ link[l].pc = "saving"
  /\ \A l \in LinkCall :
       /\ link[l].pc = "updating" => link[l].copy.linked = policy[link[l].by]
       /\ link[l].pc = "saving" => link[l].on = policy[link[l].by]
  /\ \A w \in Worker : ask[w] \in Underway => policy[w] = FALSE
  /\ \A c \in SignCall :
       /\ Signing(c) => sign[c].copy.linked = policy[sign[c].by]
       /\ (\/ back[c].pc \in {"validating", "countersigning", "offering"}
           \/ final[c] = "sending" /\ ~Hung(c))
            => back[c].copy.linked = policy[Initiator]
       /\ \A w \in Worker : send[c][w].pc = "handling" =>
            send[c][w].copy.linked = policy[w]

LinkInv ==
  calm => /\ Calmly /\ LinksAlone /\ PolicyKept
          /\ (row[Initiator] = Absent => Fresh)
=============================================================================
