-------------------------- MODULE AlgorithmProofs --------------------------
(***************************************************************************)
(* Proofs about AlgorithmInstances, for any workers and any amount of      *)
(* trouble.                                                                *)
(***************************************************************************)
EXTENDS AlgorithmInduction, TLAPS

USE DEF JobResult, Terminal, Status, Orchestration

----------------------------------------------------------------------------
(* Types.                                                                   *)

LEMMA Parties ==
  /\ Worker \subseteq Participant /\ Initiator \in Participant
  /\ Initiator \notin Worker
  /\ \A p \in Participant : p \in Worker \/ p = Initiator
  BY InitiatorAssumption DEF Participant

LEMMA FreshRow ==
  ASSUME NEW s \in Status, NEW b \in Orchestration
  PROVE  /\ Fresh(s, b) \in Row
         /\ Fresh(s, b).status = s /\ Fresh(s, b).orch = b
         /\ \A p \in Participant : Fresh(s, b).results[p] = "none"
  BY DEF Fresh, Row

\* Parts of a row can be replaced.
LEMMA RowChange ==
  ASSUME NEW r \in Row, NEW s \in Status, NEW b \in Orchestration,
         NEW g \in SUBSET Worker,
         NEW f \in [Participant -> {"none"} \cup Terminal]
  PROVE  /\ [r EXCEPT !.status = s] \in Row
         /\ [r EXCEPT !.links = g] \in Row
         /\ [r EXCEPT !.results = f] \in Row
         /\ [r EXCEPT !.status = s, !.orch = b] \in Row
         /\ [r EXCEPT !.orch = b, !.status = s] \in Row
  BY DEF Row

LEMMA RowParts ==
  ASSUME NEW r \in Row
  PROVE  /\ r.status \in Status /\ r.orch \in Orchestration
         /\ r.results \in [Participant -> {"none"} \cup Terminal]
         /\ r.links \subseteq Worker
  BY DEF Row

\* The steps a row is changed by.
LEMMA EndedRow ==
  ASSUME NEW r \in Row, NEW b \in {"completed", "error"}
  PROVE  /\ Ended(r, b) \in Row
         /\ Ended(r, b).results = r.results
         /\ Ended(r, b).orch = b
         /\ r.status # "none" => Ended(r, b).status # "none"
  BY RowParts DEF Ended, Row

LEMMA FilledRow ==
  ASSUME NEW r \in Row, NEW b \in {"completed", "error"}
  PROVE  FilledResults(r, b) \in [Participant -> {"none"} \cup Terminal]
  BY RowParts DEF FilledResults

LEMMA CallType ==
  ASSUME NEW p \in Participant, NEW q \in Participant,
         NEW do \in {"link", "start", "status", "tell", "report", "signal",
                     "manual"},
         NEW arg \in {"none", "completed", "failed", "error"}
  PROVE  /\ CallAt(p, do, arg, q) \in Call
         /\ CallAt(p, do, arg, q).at = p /\ CallAt(p, do, arg, q).do = do
         /\ CallAt(p, do, arg, q).arg = arg /\ CallAt(p, do, arg, q).of = q
  BY DEF CallAt, Call

LEMMA OpenedType ==
  ASSUME NEW k \in Call, NEW r \in Row, NEW pc \in {"save", "sum up"}
  PROVE  /\ Opened(k, r, pc) \in Handling
         /\ Opened(k, r, pc).call = k /\ Opened(k, r, pc).copy = r
         /\ Opened(k, r, pc).pc = pc
  BY DEF Opened, Handling

\* What the types say of the calls.
LEMMA Typed ==
  ASSUME TypeOK
  PROVE  /\ \A p \in Participant : row[p] \in Row
         /\ \A k \in todo :
              /\ k \in Call /\ k.at \in Participant /\ k.of \in Participant
              /\ k.arg \in {"none", "completed", "failed", "error"}
         /\ \A o \in open :
              /\ o \in Handling /\ o.call \in Call /\ o.copy \in Row
              /\ o.call.at \in Participant /\ o.call.of \in Participant
              /\ o.call.arg \in {"none", "completed", "failed", "error"}
         /\ trouble \in Nat
  BY DEF TypeOK, Handling, Call

LEMMA TroubleType ==
  TypeOK => /\ (Trouble => trouble' \in Nat)
            /\ (Fault => trouble' \in Nat)
  BY DEF TypeOK, Trouble, Fault

LEMMA LoadType ==
  ASSUME TypeOK, NEW k \in Call, k.at \in Participant, Load(k)
  PROVE  open' \subseteq Handling /\ trouble' \in Nat
  <1>1. Opened(k, row[k.at], "save") \in Handling
    BY OpenedType, Typed
  <1>2. open' \subseteq Handling
    BY <1>1 DEF Load, TypeOK
  <1>3. trouble' \in Nat
    BY TroubleType DEF Load, TypeOK
  <1> QED
    BY <1>2, <1>3

LEMMA SaveType ==
  ASSUME TypeOK, NEW p \in Participant, NEW r \in Row, Save(p, r)
  PROVE  /\ row' \in [Participant -> Row]
         /\ row'[p] = r
         /\ \A q \in Participant : q # p => row'[q] = row[q]
  BY DEF TypeOK, Save

LEMMA AnsweredType ==
  ASSUME TypeOK, NEW k \in Call, Answered(k)
  PROVE  /\ dist' \in [Worker -> {"none", "asked", "linking", "linked", "created",
                                  "starting", "running", "failed", "missed"}]
         /\ \A w \in Worker :
              \/ dist'[w] = dist[w]
              \/ k.do = "start" /\ w = k.at /\ dist'[w] = "running"
  BY DEF TypeOK, Answered

LEMMA TypeInit == Init => TypeOK
  <1>1. Absent \in Row
    BY FreshRow DEF Absent
  <1> SUFFICES ASSUME Init PROVE TypeOK
    OBVIOUS
  <1>2. /\ row \in [Participant -> Row]
        /\ todo \subseteq Call /\ open \subseteq Handling
    BY <1>1 DEF Init
  <1>3. follow \in [Participant -> BOOLEAN]
    BY Zenon DEF Init
  <1> QED
    BY <1>2, <1>3 DEF Init, TypeOK

LEMMA TypeDistribution ==
  ASSUME TypeOK, NEW w \in Worker,
         \/ TransferStarts(w) \/ SendCreate(w) \/ DistributionFails(w)
         \/ StartMissed(w)
  PROVE  TypeOK'
  <1> USE Parties
  <1>0. /\ Fresh("pending", "pending") \in Row
        /\ \A v \in Worker : CallAt(v, "start", "none", v) \in Call
    BY FreshRow, CallType
  <1>1. CASE TransferStarts(w)
    <2>1. /\ CallAt(Initiator, "link", "none", w) \in Call
          /\ CallAt(Initiator, "link", "none", w).at = Initiator
      BY CallType
    <2>2. open' \subseteq Handling /\ trouble' \in Nat
      BY <1>1, <2>1, LoadType DEF TransferStarts
    <2> QED
      BY <2>2, <1>1 DEF TransferStarts, TypeOK
  <1>2. CASE SendCreate(w)
    <2>1. row' \in [Participant -> Row]
      BY <1>0, <1>2, SaveType DEF SendCreate
    <2> QED
      BY <2>1, <1>2 DEF SendCreate, TypeOK
  <1>3. CASE DistributionFails(w)
    BY <1>3, TroubleType DEF DistributionFails, TypeOK
  <1>4. CASE StartMissed(w)
    BY <1>4 DEF StartMissed, TypeOK
  <1> QED
    BY <1>1, <1>2, <1>3, <1>4

LEMMA TypePhases ==
  TypeOK /\ (Create \/ SendStarts \/ Listen \/ GiveUp) => TypeOK'
  <1> SUFFICES ASSUME TypeOK, Create \/ SendStarts \/ Listen \/ GiveUp
               PROVE  TypeOK'
    OBVIOUS
  <1> USE Parties
  <1>0. /\ Fresh("pending", "pending") \in Row
        /\ \A v \in Worker : CallAt(v, "start", "none", v) \in Call
    BY FreshRow, CallType
  <1>1. CASE Create
    <2>1. row' \in [Participant -> Row]
      BY <1>0, <1>1, SaveType DEF Create
    <2> QED
      BY <2>1, <1>1 DEF Create, TypeOK
  <1>2. CASE SendStarts
    BY <1>0, <1>2 DEF SendStarts, TypeOK
  <1>3. CASE Listen
    <2>1. /\ CallAt(Initiator, "start", "none", Initiator) \in Call
          /\ CallAt(Initiator, "start", "none", Initiator).at = Initiator
      BY CallType
    <2>2. open' \subseteq Handling /\ trouble' \in Nat
      BY <1>3, <2>1, LoadType DEF Listen
    <2> QED
      BY <2>2, <1>3 DEF Listen, TypeOK
  <1>4. CASE GiveUp
    <2>1. /\ CallAt(Initiator, "status", "failed", Initiator) \in Call
          /\ CallAt(Initiator, "status", "failed", Initiator).at = Initiator
      BY CallType
    <2>2. open' \subseteq Handling /\ trouble' \in Nat
      BY <1>4, <2>1, LoadType DEF GiveUp
    <2> QED
      BY <2>2, <1>4 DEF GiveUp, TypeOK
  <1> QED
    BY <1>1, <1>2, <1>3, <1>4

LEMMA TypeMessages ==
  ASSUME TypeOK, Shapes, NEW k \in todo, Receive(k) \/ Tell(k) \/ CallFails(k)
  PROVE  TypeOK'
  <1>1. CASE Receive(k)
    <2>1. open' \subseteq Handling /\ trouble' \in Nat
      BY <1>1, Typed, LoadType DEF Receive
    <2>2. dist' \in [Worker -> {"none", "asked", "linking", "linked", "created",
                                "starting", "running", "failed", "missed"}]
      BY <1>1, Typed, AnsweredType DEF Receive, TypeOK
    <2> QED
      BY <2>1, <2>2, <1>1 DEF Receive, TypeOK
  <1>2. CASE Tell(k)
    <2>1. k.arg \in JobResult
      BY <1>2 DEF Shapes, CallShape, Tell
    <2>2. /\ CallAt(Initiator, "report", k.arg, k.at) \in Call
          /\ CallAt(Initiator, "report", k.arg, k.at).at = Initiator
      BY <2>1, CallType, Typed, Parties
    <2>3. open' \subseteq Handling /\ trouble' \in Nat
      <3>1. CASE Load(CallAt(Initiator, "report", k.arg, k.at))
        BY <3>1, <2>2, LoadType, Parties
      <3>2. CASE UNCHANGED <<open, trouble>>
        BY <3>2 DEF TypeOK
      <3> QED
        BY <3>1, <3>2, <1>2 DEF Tell
    <2>4. xfer' \in [Worker -> {"none", "started", "completed", "terminated"}]
      BY <1>2 DEF Tell, TypeOK
    <2> QED
      BY <2>3, <2>4, <1>2 DEF Tell, TypeOK
  <1>3. CASE CallFails(k)
    BY <1>3, TroubleType DEF CallFails, TypeOK
  <1> QED
    BY <1>1, <1>2, <1>3

\* The row a handler saves.
LEMMA Saved ==
  ASSUME TypeOK, Shapes, NEW o \in open
  PROVE  /\ [o.copy EXCEPT !.links = @ \cup ({o.call.of} \cap Worker)] \in Row
         /\ [o.copy EXCEPT !.status = "running",
               !.orch = IF @ = "pending" THEN "running" ELSE @] \in Row
         /\ o.call.do = "status" =>
              [o.copy EXCEPT !.status = o.call.arg] \in Row
         /\ o.call.do = "report" =>
              [o.copy EXCEPT !.results =
                 [o.copy.results EXCEPT ![o.call.of] = o.call.arg]] \in Row
         /\ o.call.do = "signal" => Ended(o.copy, o.call.arg) \in Row
  <1>1. o.copy \in Row /\ o.call.of \in Participant
    BY Typed
  <1>2. /\ o.call.do \in {"status", "report"} => o.call.arg \in JobResult
        /\ o.call.do = "signal" => o.call.arg \in {"completed", "error"}
    BY DEF Shapes, CallShape
  <1>3. [o.copy EXCEPT !.links = @ \cup ({o.call.of} \cap Worker)] \in Row
    BY <1>1 DEF Row
  <1>4. [o.copy EXCEPT !.status = "running",
               !.orch = IF @ = "pending" THEN "running" ELSE @] \in Row
    BY <1>1 DEF Row
  <1>5. ASSUME o.call.do = "status"
        PROVE  [o.copy EXCEPT !.status = o.call.arg] \in Row
    BY <1>1, <1>2, <1>5 DEF Row
  <1>6. ASSUME o.call.do = "report"
        PROVE  [o.copy EXCEPT !.results =
                 [o.copy.results EXCEPT ![o.call.of] = o.call.arg]] \in Row
    <2>1. [o.copy.results EXCEPT ![o.call.of] = o.call.arg]
            \in [Participant -> {"none"} \cup Terminal]
      BY <1>1, <1>2, <1>6, RowParts
    <2> QED
      BY <2>1, <1>1 DEF Row
  <1>7. ASSUME o.call.do = "signal" PROVE Ended(o.copy, o.call.arg) \in Row
    BY <1>1, <1>2, <1>7, EndedRow
  <1> QED
    BY <1>3, <1>4, <1>5, <1>6, <1>7

Outcomes(o) == IF o.call.do = "manual" THEN o.call.arg
               ELSE IF SomeFailed(o.copy) THEN "error" ELSE "completed"

LEMMA OutcomeType ==
  ASSUME TypeOK, Shapes, NEW o \in open
  PROVE  Outcomes(o) \in {"completed", "error"}
  BY DEF Shapes, CallShape, Outcomes

LEMMA StopJobType ==
  ASSUME TypeOK, NEW p \in Participant, NEW b \in {"completed", "error"},
         StopJob(p, b)
  PROVE  /\ job' \in [Participant -> {"none", "spawning", "running",
                        "succeeded", "failed", "stopped", "lost"}]
         /\ follow' \in [Participant -> BOOLEAN]
         /\ \A q \in Participant : job'[q] # job[q] =>
              job[q] = "running" /\ job'[q] = "stopped"
  BY DEF TypeOK, StopJob

LEMMA TypeHandlers ==
  ASSUME TypeOK, Shapes, NEW o \in open,
         \/ SaveLink(o) \/ SaveStart(o) \/ SaveStatus(o)
         \/ SaveReport(o) \/ SaveOutcome(o) \/ SaveSignal(o)
  PROVE  TypeOK'
  <1> USE Parties, Typed
  <1>1. CASE SaveLink(o)
    <2>1. row' \in [Participant -> Row]
      BY <1>1, Saved, SaveType DEF SaveLink, Handler
    <2>2. dist' \in [Worker -> {"none", "asked", "linking", "linked", "created",
                                "starting", "running", "failed", "missed"}]
      BY <1>1 DEF SaveLink, TypeOK
    <2> QED
      BY <2>1, <2>2, <1>1 DEF SaveLink, Done, apart, TypeOK
  <1>2. CASE SaveStart(o)
    <2>1. row' \in [Participant -> Row]
      BY <1>2, Saved, SaveType DEF SaveStart, Handler
    <2>2. dist' \in [Worker -> {"none", "asked", "linking", "linked", "created",
                                "starting", "running", "failed", "missed"}]
      BY <1>2, AnsweredType DEF SaveStart
    <2>3. job' \in [Participant -> {"none", "spawning", "running",
                        "succeeded", "failed", "stopped", "lost"}]
      BY <1>2 DEF SaveStart, TypeOK
    <2> QED
      BY <2>1, <2>2, <2>3, <1>2 DEF SaveStart, Done, apart, TypeOK
  <1>3. CASE SaveStatus(o)
    <2>1. row' \in [Participant -> Row]
      BY <1>3, Saved, SaveType DEF SaveStatus, Handler
    <2>2. CallAt(o.call.at, "tell", o.call.arg, o.call.at) \in Call
      <3>1. /\ o.call.at \in Participant
            /\ o.call.arg \in {"none", "completed", "failed", "error"}
        OBVIOUS
      <3> QED
        BY <3>1 DEF CallAt, Call
    <2> QED
      BY <2>1, <2>2, <1>3 DEF SaveStatus, Done, apart, TypeOK
  <1>4. CASE SaveReport(o)
    <2> DEFINE r == [o.copy EXCEPT !.results =
                       [o.copy.results EXCEPT ![o.call.of] = o.call.arg]]
    <2>1. r \in Row /\ row' \in [Participant -> Row]
      BY <1>4, Saved, SaveType DEF SaveReport, Handler
    <2>2. Opened(o.call, r, "sum up") \in Handling
      BY <2>1, OpenedType
    <2>3. open' \subseteq open \cup {Opened(o.call, r, "sum up")}
      BY <1>4 DEF SaveReport
    <2>4. open' \subseteq Handling
      BY <2>2, <2>3
    <2> QED
      BY <2>1, <2>4, <1>4 DEF SaveReport, apart, TypeOK
  <1>5. CASE SaveOutcome(o)
    <2> DEFINE b == Outcomes(o)
    <2>1. b \in {"completed", "error"}
      BY OutcomeType
    <2>2. [Ended(o.copy, b) EXCEPT !.results = FilledResults(o.copy, b)] \in Row
      BY <2>1, EndedRow, FilledRow, RowChange, RowParts
    <2>3. row' \in [Participant -> Row]
      BY <2>2, <1>5, SaveType DEF SaveOutcome, Outcomes
    <2>4. /\ job' \in [Participant -> {"none", "spawning", "running",
                        "succeeded", "failed", "stopped", "lost"}]
          /\ follow' \in [Participant -> BOOLEAN]
      BY <2>1, <1>5, StopJobType DEF SaveOutcome, Outcomes
    <2>5. todo' = todo \cup {CallAt(w, "signal", b, w) : w \in o.copy.links}
      BY <1>5 DEF SaveOutcome, Outcomes
    <2>6. \A w \in o.copy.links : CallAt(w, "signal", b, w) \in Call
      BY <2>1, CallType, RowParts
    <2> QED
      <3>1. todo' \subseteq Call
        BY <2>5, <2>6 DEF TypeOK
      <3>2. open' \subseteq Handling
        BY <1>5 DEF SaveOutcome, Done, TypeOK
      <3>3. UNCHANGED <<phase, dist, xfer, poll, manual, trouble>>
        BY <1>5 DEF SaveOutcome, apart
      <3> QED
        BY <2>3, <2>4, <3>1, <3>2, <3>3 DEF TypeOK
  <1>6. CASE SaveSignal(o)
    <2>1. row' \in [Participant -> Row]
      BY <1>6, Saved, SaveType DEF SaveSignal, Handler
    <2>2. o.call.arg \in {"completed", "error"}
      BY <1>6 DEF SaveSignal, Handler, Shapes, CallShape
    <2>3. /\ job' \in [Participant -> {"none", "spawning", "running",
                        "succeeded", "failed", "stopped", "lost"}]
          /\ follow' \in [Participant -> BOOLEAN]
      BY <2>2, <1>6, StopJobType DEF SaveSignal
    <2> QED
      BY <2>1, <2>3, <1>6 DEF SaveSignal, Done, apart, TypeOK
  <1> QED
    BY <1>1, <1>2, <1>3, <1>4, <1>5, <1>6

Ending(to) == IF to = "completed" THEN "completed" ELSE "failed"

LEMMA TypeTrouble ==
  ASSUME TypeOK, NEW w \in Worker, NEW to \in {"completed", "terminated"},
         TransferEnds(w, to)
  PROVE  TypeOK'
  <1> USE Parties, Typed, TroubleType
  <1> DEFINE h == Opened(CallAt(Initiator, "report", Ending(to), w),
                         row[Initiator], "save")
  <1>1. h \in Handling
    <2>1. CallAt(Initiator, "report", Ending(to), w) \in Call
      BY DEF CallAt, Call, Ending
    <2> QED
      BY <2>1, OpenedType
  <1>2. open' = IF phase # "listening" THEN open ELSE open \cup {h}
    BY DEF TransferEnds, Ending
  <1>3. manual' \in BOOLEAN
    BY Zenon DEF TransferEnds
  <1>4. xfer' \in [Worker -> {"none", "started", "completed", "terminated"}]
    BY DEF TransferEnds, TypeOK
  <1> HIDE DEF h
  <1> QED
    BY <1>1, <1>2, <1>3, <1>4 DEF TransferEnds, TypeOK

LEMMA TypeEvent ==
  ASSUME TypeOK, NEW p \in Participant, NEW q \in Participant,
         EventLinks(p, q)
  PROVE  TypeOK'
  <1>1. Opened(CallAt(p, "link", "none", q), row[p], "save") \in Handling
    <2>1. CallAt(p, "link", "none", q) \in Call
      BY DEF CallAt, Call
    <2> QED
      BY <2>1, OpenedType, Typed
  <1> QED
    BY <1>1, TroubleType DEF EventLinks, TypeOK

LEMMA TypeManual ==
  ASSUME TypeOK, NEW b \in {"completed", "error"}, Manual(b)
  PROVE  TypeOK'
  <1> USE Parties, Typed, TroubleType
  <1>1. CASE Manual(b)
    <2>1. Opened(CallAt(Initiator, "manual", b, Initiator), row[Initiator],
                 "save") \in Handling
      <3>1. CallAt(Initiator, "manual", b, Initiator) \in Call
        BY DEF CallAt, Call
      <3> QED
        BY <3>1, OpenedType
    <2> QED
      BY <2>1, <1>1 DEF Manual, TypeOK
  <1> QED
    BY <1>1

LEMMA TypeJobs ==
  ASSUME TypeOK, NEW p \in Participant, NEW r \in {"succeeded", "failed"},
         \/ Spawn(p) \/ JobEnds(p, r) \/ PollBegins(p) \/ PollEnds(p)
         \/ Restart(p)
  PROVE  TypeOK'
  <1> USE Parties, Typed, TroubleType
  <1>1. CASE Spawn(p)
    <2>1. follow' \in [Participant -> BOOLEAN]
      BY <1>1 DEF Spawn, TypeOK
    <2>2. trouble' \in Nat
      BY <1>1 DEF Spawn
    <2> QED
      BY <2>1, <2>2, <1>1 DEF Spawn, TypeOK
  <1>2. CASE JobEnds(p, r)
    <2>1. trouble' \in Nat
      BY <1>2 DEF JobEnds
    <2> QED
      BY <2>1, <1>2 DEF JobEnds, TypeOK
  <1>3. CASE PollBegins(p)
    <2>1. open' \subseteq Handling /\ trouble' \in Nat
      <3>1. \A b \in JobResult : /\ CallAt(p, "status", b, p) \in Call
                                 /\ CallAt(p, "status", b, p).at = p
        BY CallType
      <3>2. ASSUME NEW b \in JobResult, Load(CallAt(p, "status", b, p))
            PROVE  open' \subseteq Handling /\ trouble' \in Nat
        BY <3>1, <3>2, LoadType
      <3>3. CASE Fault /\ UNCHANGED open
        BY <3>3 DEF TypeOK
      <3> QED
        BY <3>2, <3>3, <1>3 DEF PollBegins
    <2> QED
      BY <2>1, <1>3 DEF PollBegins, TypeOK
  <1>4. CASE PollEnds(p)
    <2>1. follow' \in [Participant -> BOOLEAN]
      BY <1>4, Zenon DEF PollEnds, TypeOK
    <2> QED
      BY <2>1, <1>4 DEF PollEnds, TypeOK
  <1>5. CASE Restart(p)
    <2>1. follow' \in [Participant -> BOOLEAN]
      BY <1>5, Zenon DEF Restart, TypeOK
    <2>2. trouble' \in Nat
      BY <1>5 DEF Restart
    <2> QED
      BY <2>1, <2>2, <1>5 DEF Restart, TypeOK
  <1> QED
    BY <1>1, <1>2, <1>3, <1>4, <1>5

----------------------------------------------------------------------------
(* Results.  The predicates of the invariant, in the next state.            *)

EvidenceNext(p, arg) ==
  IF arg = "completed"
    THEN /\ job'[p] = "succeeded" \/ (p \in Worker /\ manual')
         /\ p \in Worker => xfer'[p] = "completed"
    ELSE IF p \in Worker THEN xfer'[p] = "terminated"
    ELSE \/ job'[p] \in {"failed", "stopped"}
         \/ job'[p] = "none" /\ phase' \in {"failed", "stopped"}

CredibleNext(r) ==
  /\ \A p \in Participant :
       r.results[p] \in JobResult => EvidenceNext(p, r.results[p])
  /\ ~manual' => /\ (\E p \in Participant : r.results[p] = "terminated")
                      => SomeFailed(r)
                 /\ r.orch = "completed" =>
                      \A p \in Participant : job'[p] = "succeeded"

BackedNext(k) ==
  /\ k.do \in {"status", "tell"} =>
       /\ k.arg = "completed" => job'[k.at] = "succeeded"
       /\ k.arg = "failed" /\ k.at = Initiator =>
            EvidenceNext(Initiator, "failed")
  /\ k.do = "report" => EvidenceNext(k.of, k.arg)

ShapeNext(k) ==
  /\ k.do \in {"report", "manual"} => k.at = Initiator
  /\ k.do \in {"status", "tell", "report"} => k.arg \in JobResult
  /\ k.do \in {"signal", "manual"} => k.arg \in {"completed", "error"}
  /\ k.do = "signal" => k.at \in Worker
  /\ k.do = "manual" => manual'

TodoNext(k) == /\ ShapeNext(k) /\ k.do \in {"start", "signal", "tell"}
               /\ k.do = "start" => k.at \in Worker
               /\ BackedNext(k)

OpenNext(o) == /\ ShapeNext(o.call) /\ o.copy.status # "none"
               /\ o.pc = "sum up" => o.call.do = "report" /\ Decided(o.copy)
               /\ BackedNext(o.call)
               /\ o.call.at = Initiator => CredibleNext(o.copy)

\* What no step undoes.
Onward ==
  /\ \A p \in Participant : job[p] = "succeeded" => job'[p] = "succeeded"
  /\ job[Initiator] \in {"failed", "stopped"} =>
       job'[Initiator] = job[Initiator]
  /\ \A w \in Worker : xfer[w] \in {"completed", "terminated"} =>
       xfer'[w] = xfer[w]
  /\ job[Initiator] = "none" /\ phase \in {"failed", "stopped"} =>
       job'[Initiator] = "none" /\ phase' \in {"failed", "stopped"}
  /\ manual => manual'

LEMMA EvidenceLasts ==
  ASSUME Onward, NEW p \in Participant, NEW arg, Evidence(p, arg)
  PROVE  EvidenceNext(p, arg)
  BY Parties DEF Onward, Evidence, EvidenceNext

LEMMA CredibleLasts ==
  ASSUME Onward, NEW r, Credible(r)
  PROVE  CredibleNext(r)
  <1>1. \A p \in Participant :
          r.results[p] \in JobResult => EvidenceNext(p, r.results[p])
    BY EvidenceLasts DEF Credible
  <1>2. ~manual' => ~manual
    BY DEF Onward
  <1> QED
    BY <1>1, <1>2 DEF Credible, CredibleNext, Onward

LEMMA BackedLasts ==
  ASSUME Onward, NEW k, k.of \in Participant, k.at \in Participant, Backed(k),
         CallShape(k)
  PROVE  BackedNext(k) /\ ShapeNext(k)
  <1>1. Evidence(Initiator, "failed") => EvidenceNext(Initiator, "failed")
    BY EvidenceLasts, Parties
  <1>2. Evidence(k.of, k.arg) => EvidenceNext(k.of, k.arg)
    BY EvidenceLasts
  <1> QED
    BY <1>1, <1>2 DEF Backed, BackedNext, CallShape, ShapeNext, Onward

\* A step that undoes nothing and whose new row, calls and copies stand for what
\* they say keeps the invariant.
LEMMA ResultsKept ==
  ASSUME TypeOK, ResultsInv, Onward,
         row'[Initiator] = row[Initiator] \/ CredibleNext(row'[Initiator]),
         \A k \in todo' : k \in todo \/ TodoNext(k),
         \A o \in open' : o \in open \/ OpenNext(o),
         Stopped', Unasked'
  PROVE  ResultsInv'
  <1>1. CredibleNext(row'[Initiator])
    BY CredibleLasts DEF ResultsInv
  <1>2. ASSUME NEW k \in todo' PROVE TodoNext(k)
    <2>1. CASE k \in todo
      <3>1. k.of \in Participant /\ k.at \in Participant
        BY <2>1, Typed
      <3>2. /\ Backed(k) /\ CallShape(k) /\ k.do \in {"start", "signal", "tell"}
            /\ k.do = "start" => k.at \in Worker
        BY <2>1 DEF ResultsInv, Shapes
      <3> QED
        BY <3>1, <3>2, BackedLasts DEF TodoNext
    <2> QED
      BY <2>1, <1>2
  <1>3. ASSUME NEW o \in open' PROVE OpenNext(o)
    <2>1. CASE o \in open
      <3>1. o.call.of \in Participant /\ o.call.at \in Participant
        BY <2>1, Typed
      <3>2. /\ Backed(o.call) /\ CallShape(o.call) /\ o.copy.status # "none"
            /\ o.pc = "sum up" => o.call.do = "report" /\ Decided(o.copy)
            /\ o.call.at = Initiator => Credible(o.copy)
        BY <2>1 DEF ResultsInv, Shapes
      <3>3. BackedNext(o.call) /\ ShapeNext(o.call)
        BY <3>1, <3>2, BackedLasts
      <3>4. o.call.at = Initiator => CredibleNext(o.copy)
        BY <3>2, CredibleLasts
      <3> QED
        BY <3>2, <3>3, <3>4 DEF OpenNext
    <2> QED
      BY <2>1, <1>3
  <1>4. Credible(row[Initiator])'
    BY <1>1 DEF Credible, CredibleNext, Evidence, EvidenceNext
  <1>5. \A k \in todo' : Backed(k)'
    BY <1>2 DEF TodoNext, Backed, BackedNext, Evidence, EvidenceNext
  <1>6. \A o \in open' : Backed(o.call)'
    BY <1>3 DEF OpenNext, Backed, BackedNext, Evidence, EvidenceNext
  <1>7. \A o \in open' : o.call.at = Initiator => Credible(o.copy)'
    BY <1>3 DEF OpenNext, Credible, CredibleNext, Evidence, EvidenceNext
  <1>8. Shapes'
    BY <1>2, <1>3 DEF TodoNext, OpenNext, ShapeNext, Shapes, CallShape
  <1> QED
    BY <1>4, <1>5, <1>6, <1>7, <1>8 DEF ResultsInv

\* A handler that begins has a copy of the row.
LEMMA LoadOpens ==
  ASSUME TypeOK, ResultsInv, Onward, NEW k \in Call, Load(k),
         ShapeNext(k), BackedNext(k)
  PROVE  \A o \in open' :
           \/ o \in open
           \/ /\ OpenNext(o) /\ o = Opened(k, row[k.at], "save")
              /\ ~Ignored(k)
  <1> SUFFICES ASSUME NEW o \in open', o \notin open
               PROVE  /\ OpenNext(o) /\ o = Opened(k, row[k.at], "save")
                      /\ ~Ignored(k)
    OBVIOUS
  <1>1. ~Ignored(k) /\ o = Opened(k, row[k.at], "save")
    BY DEF Load
  <1>2. k.at \in Participant
    BY DEF Call
  <1>3. o.call = k /\ o.copy = row[k.at] /\ o.pc = "save"
    BY <1>1 DEF Opened
  <1>4. row[k.at].status # "none"
    BY <1>1 DEF Ignored, Exists
  <1>5. k.at = Initiator => CredibleNext(row[k.at])
    BY CredibleLasts DEF ResultsInv
  <1> QED
    BY <1>1, <1>3, <1>4, <1>5 DEF OpenNext

LEMMA ResultsInit == Init => ResultsInv
  <1> SUFFICES ASSUME Init PROVE ResultsInv
    OBVIOUS
  <1>1. todo = {} /\ open = {} /\ row[Initiator] = Absent
    BY Parties DEF Init
  <1>2. Absent.orch = "none" /\ \A p \in Participant : Absent.results[p] = "none"
    BY FreshRow DEF Absent
  <1>3. Credible(row[Initiator])
    BY <1>1, <1>2 DEF Credible
  <1>4. Unasked
    BY DEF Init, Unasked
  <1>5. Stopped
    BY <1>1, Parties DEF Init, Stopped
  <1> QED
    BY <1>1, <1>3, <1>4, <1>5 DEF ResultsInv, Shapes

LEMMA ResultsCreate == TypeOK /\ ResultsInv /\ Create => ResultsInv'
  <1> SUFFICES ASSUME TypeOK, ResultsInv, Create PROVE ResultsInv'
    OBVIOUS
  <1>1. Onward
    BY DEF Create, Onward
  <1>2. row'[Initiator] = Fresh("pending", "pending")
    BY FreshRow, SaveType, Parties DEF Create
  <1>3. CredibleNext(row'[Initiator])
    BY <1>2, FreshRow DEF CredibleNext
  <1>4. todo' = todo /\ open' = open
    BY DEF Create
  <1>5. Stopped'
    BY <1>4 DEF ResultsInv, Stopped, Create
  <1>6. Unasked'
    BY DEF ResultsInv, Unasked, Create, TypeOK
  <1> QED
    BY <1>1, <1>3, <1>4, <1>5, <1>6, ResultsKept

\* A step that begins a handler at most and leaves rows alone.
LEMMA ResultsLoaded ==
  ASSUME TypeOK, ResultsInv, Onward, NEW k \in Call, Load(k),
         ShapeNext(k), BackedNext(k), row'[Initiator] = row[Initiator],
         \A j \in todo' : j \in todo \/ TodoNext(j),
         k.do = "start" /\ k.at = Initiator => phase' = "listening",
         phase = "listening" => phase' = "listening", Unasked',
         phase' \in {"none", "sending", "starting"} =>
           phase \in {"none", "sending", "starting"} /\ job' = job
  PROVE  ResultsInv'
  <1>1. \A o \in open' : \/ o \in open
                         \/ OpenNext(o) /\ o = Opened(k, row[k.at], "save")
    BY LoadOpens
  <1>2. Stopped'
    <2>1. \A o : o = Opened(k, row[k.at], "save") => o.call = k
      BY DEF Opened
    <2> QED
      BY <1>1, <2>1 DEF ResultsInv, Stopped
  <1> QED
    BY <1>1, <1>2, ResultsKept

LEMMA ResultsDistribution ==
  ASSUME TypeOK, ResultsInv, NEW w \in Worker,
         \/ TransferStarts(w) \/ SendCreate(w) \/ DistributionFails(w)
         \/ StartMissed(w)
  PROVE  ResultsInv'
  <1> USE Parties
  <1>1. CASE TransferStarts(w)
    <2> DEFINE k == CallAt(Initiator, "link", "none", w)
    <2>1. k \in Call /\ k.do = "link" /\ k.at = Initiator /\ k.of = w
      BY DEF CallAt, Call
    <2>2. xfer[w] = "none"
      BY <1>1 DEF TransferStarts, ResultsInv, Unasked
    <2>3. Onward
      BY <1>1, <2>2 DEF TransferStarts, Onward, TypeOK
    <2>4. Unasked'
      BY <1>1 DEF TransferStarts, ResultsInv, Unasked, TypeOK
    <2>5. ShapeNext(k) /\ BackedNext(k)
      BY <2>1 DEF ShapeNext, BackedNext
    <2>6. /\ Load(k) /\ row' = row /\ todo' = todo /\ phase' = phase
          /\ job' = job
      BY <1>1 DEF TransferStarts
    <2> HIDE DEF k
    <2> QED
      BY <2>1, <2>3, <2>4, <2>5, <2>6, ResultsLoaded
  <1>2. CASE SendCreate(w)
    <2>1. Onward
      BY <1>2 DEF SendCreate, Onward
    <2>2. row'[Initiator] = row[Initiator]
      BY <1>2, FreshRow, SaveType DEF SendCreate
    <2>3. Stopped' /\ Unasked'
      BY <1>2 DEF SendCreate, ResultsInv, Stopped, Unasked, TypeOK
    <2>4. todo' = todo /\ open' = open
      BY <1>2 DEF SendCreate
    <2> QED
      BY <2>1, <2>2, <2>3, <2>4, ResultsKept
  <1>3. CASE DistributionFails(w)
    <2>1. Onward
      BY <1>3 DEF DistributionFails, Onward
    <2>2. Stopped' /\ Unasked'
      BY <1>3 DEF DistributionFails, ResultsInv, Stopped, Unasked, TypeOK
    <2>3. todo' \subseteq todo /\ open' = open /\ row' = row
      BY <1>3 DEF DistributionFails
    <2> QED
      BY <2>1, <2>2, <2>3, ResultsKept
  <1>4. CASE StartMissed(w)
    <2>1. xfer[w] = "none"
      BY <1>4 DEF StartMissed, ResultsInv, Unasked
    <2>2. Onward
      BY <1>4, <2>1 DEF StartMissed, Onward, TypeOK
    <2>3. Stopped' /\ Unasked'
      BY <1>4 DEF StartMissed, ResultsInv, Stopped, Unasked, TypeOK
    <2>4. UNCHANGED <<row, todo, open>>
      BY <1>4 DEF StartMissed
    <2> QED
      BY <2>2, <2>3, <2>4, ResultsKept
  <1> QED
    BY <1>1, <1>2, <1>3, <1>4

LEMMA ResultsPhases ==
  TypeOK /\ ResultsInv /\ (SendStarts \/ Listen \/ GiveUp) => ResultsInv'
  <1> SUFFICES ASSUME TypeOK, ResultsInv, SendStarts \/ Listen \/ GiveUp
               PROVE  ResultsInv'
    OBVIOUS
  <1> USE Parties
  <1>1. CASE SendStarts
    <2>1. Onward
      BY <1>1 DEF SendStarts, Onward
    <2>2. ASSUME NEW v \in Worker PROVE TodoNext(CallAt(v, "start", "none", v))
      BY DEF CallAt, TodoNext, ShapeNext, BackedNext
    <2>3. todo' = todo \cup {CallAt(v, "start", "none", v) : v \in Worker}
      BY <1>1 DEF SendStarts
    <2>4. \A k \in todo' : k \in todo \/ TodoNext(k)
      BY <2>2, <2>3
    <2>5. Stopped' /\ Unasked'
      BY <1>1 DEF SendStarts, ResultsInv, Stopped, Unasked, TypeOK
    <2>6. row' = row /\ open' = open
      BY <1>1 DEF SendStarts
    <2> QED
      BY <2>1, <2>4, <2>5, <2>6, ResultsKept
  <1>2. CASE Listen
    <2> DEFINE k == CallAt(Initiator, "start", "none", Initiator)
    <2>1. k \in Call /\ k.do = "start" /\ k.at = Initiator
      BY DEF CallAt, Call
    <2>2. Onward
      BY <1>2 DEF Listen, Onward
    <2>3. Unasked'
      BY <1>2 DEF Listen, ResultsInv, Unasked
    <2>4. ShapeNext(k) /\ BackedNext(k)
      BY <2>1 DEF ShapeNext, BackedNext
    <2>5. Load(k) /\ row' = row /\ todo' = todo /\ phase' = "listening"
      BY <1>2 DEF Listen
    <2> HIDE DEF k
    <2> QED
      BY <2>1, <2>2, <2>3, <2>4, <2>5, ResultsLoaded
  <1>3. CASE GiveUp
    <2> DEFINE k == CallAt(Initiator, "status", "failed", Initiator)
    <2>1. /\ k \in Call /\ k.do = "status" /\ k.arg = "failed"
          /\ k.at = Initiator
      BY DEF CallAt, Call
    <2>2. Onward
      BY <1>3 DEF GiveUp, Onward
    <2>3. Unasked'
      BY <1>3 DEF GiveUp, ResultsInv, Unasked
    <2>4. job'[Initiator] = "none" /\ phase' = "failed"
      BY <1>3 DEF GiveUp, ResultsInv, Stopped
    <2>5. ShapeNext(k) /\ BackedNext(k)
      BY <2>1, <2>4 DEF ShapeNext, BackedNext, EvidenceNext
    <2>6. /\ Load(k) /\ row' = row /\ todo' = todo
          /\ phase # "listening"
      BY <1>3 DEF GiveUp
    <2> HIDE DEF k
    <2> QED
      BY <2>1, <2>2, <2>3, <2>4, <2>5, <2>6, ResultsLoaded
  <1> QED
    BY <1>1, <1>2, <1>3

LEMMA ResultsMessages ==
  ASSUME TypeOK, ResultsInv, NEW k \in todo,
         Receive(k) \/ Tell(k) \/ CallFails(k)
  PROVE  ResultsInv'
  <1> USE Parties
  <1>0. /\ k \in Call /\ k.at \in Participant /\ k.of \in Participant
        /\ CallShape(k) /\ Backed(k) /\ k.do \in {"start", "signal", "tell"}
        /\ k.do = "start" => k.at \in Worker
    BY Typed DEF ResultsInv, Shapes
  <1>1. CASE Receive(k)
    <2>1. Onward
      BY <1>1 DEF Receive, Onward
    <2>2. Unasked'
      <3>1. \A w \in Worker : dist'[w] = dist[w] \/ dist'[w] = "running"
        BY <1>0, <1>1, AnsweredType DEF Receive
      <3>2. xfer' = xfer /\ phase' = phase
        BY <1>1 DEF Receive
      <3>3. phase = "none" => \A w \in Worker : dist'[w] = "none"
        <4>1. Answered(k) => \A w \in Worker :
                dist'[w] = dist[w] \/ dist[w] = "starting"
          BY DEF Answered, TypeOK
        <4> QED
          BY <4>1, <1>1 DEF Receive, ResultsInv, Unasked
      <3> QED
        BY <3>1, <3>2, <3>3 DEF ResultsInv, Unasked
    <2>3. ShapeNext(k) /\ BackedNext(k)
      BY <1>0, <2>1, BackedLasts
    <2>4. /\ Load(k) /\ row' = row /\ todo' \subseteq todo /\ phase' = phase
          /\ job' = job
      BY <1>1 DEF Receive
    <2>5. k.do = "start" /\ k.at = Initiator => phase' = "listening"
      BY <1>0
    <2> QED
      BY <1>0, <2>1, <2>2, <2>3, <2>4, <2>5, ResultsLoaded
  <1>2. CASE Tell(k)
    <2> DEFINE j == CallAt(Initiator, "report", k.arg, k.at)
    <2>1. k.arg \in JobResult /\ k.do = "tell"
      BY <1>0, <1>2 DEF CallShape, Tell
    <2>2. /\ j \in Call /\ j.do = "report" /\ j.at = Initiator
          /\ j.arg = k.arg /\ j.of = k.at
      BY <1>0, <2>1 DEF CallAt, Call
    <2>3. /\ todo' \subseteq todo /\ row' = row /\ phase' = phase
          /\ job' = job /\ manual' = manual
      BY <1>2 DEF Tell
    <2>4. \A w \in Worker : xfer[w] # "started" => xfer'[w] = xfer[w]
      BY <1>2 DEF Tell, TypeOK
    <2>5. Onward
      BY <2>3, <2>4 DEF Onward
    <2>6. Unasked'
      BY <1>2, <2>4 DEF Tell, ResultsInv, Unasked
    <2>7. CASE k.at = Initiator \/ (xfer[k.at] = "started"
                                     /\ phase = "listening")
      <3>1. Load(j)
        BY <1>2, <2>7 DEF Tell
      <3>2. EvidenceNext(k.at, k.arg)
        <4>1. CASE k.at = Initiator
          <5>1. k.arg = "completed" => job'[k.at] = "succeeded"
            BY <1>0, <2>1, <2>3 DEF Backed
          <5>2. k.arg = "failed" => Evidence(Initiator, "failed")
            BY <1>0, <2>1, <4>1 DEF Backed
          <5> QED
            BY <2>1, <2>5, <4>1, <5>1, <5>2, EvidenceLasts DEF EvidenceNext
        <4>2. CASE k.at \in Worker
          <5>1. xfer[k.at] = "started"
            BY <2>7, <4>2
          <5>2. xfer'[k.at] = IF k.arg = "completed" THEN "completed"
                                                      ELSE "terminated"
            BY <1>2, <4>2, <5>1 DEF Tell
          <5>3. k.arg = "completed" => job'[k.at] = "succeeded"
            BY <1>0, <2>1, <2>3 DEF Backed
          <5> QED
            BY <2>1, <4>2, <5>2, <5>3 DEF EvidenceNext
        <4> QED
          BY <1>0, <4>1, <4>2
      <3>3. ShapeNext(j) /\ BackedNext(j)
        BY <2>1, <2>2, <3>2 DEF ShapeNext, BackedNext
      <3> HIDE DEF j
      <3> QED
        BY <2>2, <2>3, <2>5, <2>6, <3>1, <3>3, ResultsLoaded
    <2>8. CASE ~(k.at = Initiator \/ (xfer[k.at] = "started"
                                       /\ phase = "listening"))
      <3>1. open' = open
        BY <1>2, <2>8 DEF Tell
      <3>2. Stopped'
        BY <2>3, <3>1 DEF ResultsInv, Stopped
      <3> QED
        BY <2>3, <2>5, <2>6, <3>1, <3>2, ResultsKept
    <2> QED
      BY <2>7, <2>8
  <1>3. CASE CallFails(k)
    <2>1. Onward
      BY <1>3 DEF CallFails, Onward
    <2>2. Stopped' /\ Unasked'
      BY <1>3 DEF CallFails, ResultsInv, Stopped, Unasked
    <2>3. todo' \subseteq todo /\ open' = open /\ row' = row
      BY <1>3 DEF CallFails
    <2> QED
      BY <2>1, <2>2, <2>3, ResultsKept
  <1> QED
    BY <1>1, <1>2, <1>3

\* A handler that saves its copy and is done.
LEMMA ResultsSaved ==
  ASSUME TypeOK, ResultsInv, Onward, NEW o \in open, Done(o),
         o.call.at = Initiator => CredibleNext(row'[Initiator]),
         o.call.at \in Worker => row'[Initiator] = row[Initiator],
         \A k \in todo' : k \in todo \/ TodoNext(k),
         UNCHANGED <<phase, xfer>>,
         \A w \in Worker :
           \/ dist'[w] = dist[w]
           \/ dist[w] \in {"linking", "starting"}
              /\ dist'[w] \notin {"none", "asked"},
         job'[Initiator] # job[Initiator] =>
           phase \notin {"none", "sending", "starting"}
  PROVE  ResultsInv'
  <1>1. open' \subseteq open
    BY DEF Done
  <1>2. Stopped'
    BY <1>1 DEF ResultsInv, Stopped
  <1>3. Unasked'
    BY DEF ResultsInv, Unasked
  <1>4. o.call.at \in Worker \/ o.call.at = Initiator
    BY Typed, Parties
  <1> QED
    BY <1>1, <1>2, <1>3, <1>4, ResultsKept

\* What the invariant says of a handler that is open.
LEMMA OpenFacts ==
  ASSUME TypeOK, ResultsInv, NEW o \in open
  PROVE  /\ o.call.at \in Participant /\ o.call.of \in Participant
         /\ o.copy \in Row /\ o.copy.status # "none"
         /\ CallShape(o.call) /\ Backed(o.call)
         /\ o.pc = "sum up" => o.call.do = "report" /\ Decided(o.copy)
         /\ o.call.at = Initiator => Credible(o.copy)
         /\ o.call.do = "start" /\ o.call.at = Initiator =>
              phase = "listening"
  BY Typed DEF ResultsInv, Shapes, Stopped

\* Only the results and the outcome of a row matter.
LEMMA CredibleParts ==
  ASSUME NEW r, NEW s, CredibleNext(r), s.results = r.results,
         s.orch = "completed" => r.orch = "completed"
  PROVE  CredibleNext(s)
  BY DEF CredibleNext, SomeFailed

LEMMA ResultsRows ==
  ASSUME TypeOK, ResultsInv, NEW o \in open,
         SaveLink(o) \/ SaveStart(o) \/ SaveStatus(o)
  PROVE  ResultsInv'
  <1> USE Parties, OpenFacts
  <1>1. CASE SaveLink(o)
    <2> DEFINE p == o.call.at
               r == [o.copy EXCEPT !.links = @ \cup ({o.call.of} \cap Worker)]
    <2>2. Onward
      BY <1>1 DEF SaveLink, apart, Onward
    <2>3. r \in Row /\ r.results = o.copy.results /\ r.orch = o.copy.orch
      BY DEF Row
    <2>4. row'[p] = r /\ (p # Initiator => row'[Initiator] = row[Initiator])
      BY <1>1, <2>3, SaveType DEF SaveLink
    <2>6. p = Initiator => CredibleNext(row'[Initiator])
      <3>1. p = Initiator => CredibleNext(o.copy)
        BY <2>2, CredibleLasts
      <3> HIDE DEF r
      <3> QED
        BY <2>3, <2>4, <3>1, CredibleParts
    <2>7. \A w \in Worker : \/ dist'[w] = dist[w]
                            \/ dist[w] = "linking" /\ dist'[w] = "linked"
      BY <1>1 DEF SaveLink, TypeOK
    <2>8. /\ Done(o) /\ todo' = todo /\ job' = job
          /\ UNCHANGED <<phase, xfer>>
      BY <1>1 DEF SaveLink, apart
    <2> QED
      BY <2>2, <2>4, <2>6, <2>7, <2>8, ResultsSaved
  <1>2. CASE SaveStart(o)
    <2> DEFINE p == o.call.at
               r == [o.copy EXCEPT !.status = "running",
                       !.orch = IF @ = "pending" THEN "running" ELSE @]
    <2>1. r \in Row /\ r.results = o.copy.results
          /\ (r.orch = "completed" => o.copy.orch = "completed")
      BY DEF Row
    <2>2. \A q \in Participant :
            job'[q] = job[q] \/ (q = p /\ job[q] = "none")
      BY <1>2 DEF SaveStart, TypeOK
    <2>3. p = Initiator => phase = "listening"
      BY <1>2 DEF SaveStart, Handler
    <2>4. UNCHANGED <<phase, xfer, manual>> /\ Done(o) /\ todo' = todo
      BY <1>2 DEF SaveStart, apart
    <2>5. Onward
      BY <2>2, <2>3, <2>4 DEF Onward
    <2>6. row'[p] = r /\ (p # Initiator => row'[Initiator] = row[Initiator])
      BY <1>2, <2>1, SaveType DEF SaveStart
    <2>7. p = Initiator => CredibleNext(row'[Initiator])
      <3>1. p = Initiator => CredibleNext(o.copy)
        BY <2>5, CredibleLasts
      <3> HIDE DEF r
      <3> QED
        BY <2>1, <2>6, <3>1, CredibleParts
    <2>8. \A w \in Worker : \/ dist'[w] = dist[w]
                            \/ dist[w] = "starting" /\ dist'[w] = "running"
      BY <1>2 DEF SaveStart, Answered, TypeOK
    <2> QED
      BY <2>2, <2>3, <2>4, <2>5, <2>6, <2>7, <2>8, ResultsSaved
  <1>3. CASE SaveStatus(o)
    <2> DEFINE p == o.call.at
               k == CallAt(p, "tell", o.call.arg, p)
               r == [o.copy EXCEPT !.status = o.call.arg]
    <2>0. o.call.do = "status" /\ o.call.arg \in JobResult
      BY <1>3 DEF SaveStatus, Handler, CallShape
    <2>1. r \in Row /\ r.results = o.copy.results /\ r.orch = o.copy.orch
      BY <2>0 DEF Row
    <2>2. Onward
      BY <1>3 DEF SaveStatus, apart, Onward
    <2>3. row'[p] = r /\ (p # Initiator => row'[Initiator] = row[Initiator])
      BY <1>3, <2>1, SaveType DEF SaveStatus
    <2>4. p = Initiator => CredibleNext(row'[Initiator])
      <3>1. p = Initiator => CredibleNext(o.copy)
        BY <2>2, CredibleLasts
      <3> HIDE DEF r
      <3> QED
        BY <2>1, <2>3, <3>1, CredibleParts
    <2>5. TodoNext(k)
      <3>1. k.at = p /\ k.do = "tell" /\ k.arg = o.call.arg
        BY DEF CallAt
      <3>2. BackedNext(o.call)
        BY <2>2, BackedLasts
      <3> QED
        BY <2>0, <3>1, <3>2 DEF TodoNext, ShapeNext, BackedNext
    <2>6. /\ Done(o) /\ todo' = todo \cup {k} /\ job' = job /\ dist' = dist
          /\ UNCHANGED <<phase, xfer>>
      BY <1>3 DEF SaveStatus, apart
    <2> QED
      BY <2>2, <2>3, <2>4, <2>5, <2>6, ResultsSaved
  <1> QED
    BY <1>1, <1>2, <1>3

\* A result replaces none, or one that says the same: the copy stays credible.
LEMMA ResultsReport ==
  ASSUME TypeOK, ResultsInv, NEW o \in open, SaveReport(o)
  PROVE  ResultsInv'
  <1> DEFINE p == o.call.of
             results == [o.copy.results EXCEPT ![p] = o.call.arg]
             r == [o.copy EXCEPT !.results = results]
  <1> USE Parties
  <1>0. o.call.do = "report" /\ o.call.at = Initiator /\ o.call.arg \in JobResult
        /\ p \in Participant
    BY OpenFacts DEF SaveReport, Handler, CallShape
  <1>1. r \in Row
    BY <1>0, Saved DEF ResultsInv
  <1>2. /\ r.results = results /\ r.orch = o.copy.orch
        /\ r.status = o.copy.status
    BY OpenFacts DEF Row
  <1>3. /\ results[p] = o.call.arg
        /\ \A q \in Participant : q # p => results[q] = o.copy.results[q]
    BY <1>0, OpenFacts, RowParts
  <1>4. Onward
    BY DEF SaveReport, apart, Onward
  <1>5. EvidenceNext(p, o.call.arg)
    BY <1>0, <1>4, OpenFacts, EvidenceLasts DEF Backed
  <1>6. CredibleNext(o.copy)
    BY <1>0, <1>4, OpenFacts, CredibleLasts
  <1>7. o.copy.results[p] \in JobResult => o.copy.results[p] = o.call.arg
    <2>1. ~(EvidenceNext(p, "completed") /\ EvidenceNext(p, "failed"))
      BY <1>0 DEF EvidenceNext
    <2> QED
      BY <1>0, <1>5, <1>6, <2>1 DEF CredibleNext
  <1>8. CredibleNext(r)
    <2>1. \A q \in Participant :
            results[q] \in JobResult => EvidenceNext(q, results[q])
      BY <1>3, <1>5, <1>6 DEF CredibleNext
    <2>2. ASSUME ~manual', NEW q \in Participant, results[q] = "terminated"
          PROVE  SomeFailed(r)
      <3>1. q # p /\ o.copy.results[q] = "terminated"
        BY <1>0, <1>3, <2>2
      <3>2. PICK f \in Participant : o.copy.results[f] = "failed"
        BY <1>6, <2>2, <3>1 DEF CredibleNext, SomeFailed
      <3>3. results[f] = "failed"
        BY <1>3, <1>7, <3>2
      <3> QED
        BY <1>2, <3>3 DEF SomeFailed
    <2> HIDE DEF r, results
    <2> QED
      BY <1>2, <1>6, <2>1, <2>2 DEF CredibleNext
  <1>9. row'[Initiator] = r
    BY <1>0, <1>1, SaveType DEF SaveReport
  <1>10. ShapeNext(o.call) /\ BackedNext(o.call)
    BY <1>0, <1>4, OpenFacts, BackedLasts
  <1>11. \A h \in open' : h \in open \/ (OpenNext(h) /\ h.call = o.call)
    <2>1. ASSUME Decided(r) PROVE OpenNext(Opened(o.call, r, "sum up"))
      <3>1. r.status # "none"
        BY <1>2, OpenFacts
      <3> HIDE DEF r
      <3> QED
        BY <1>0, <1>8, <1>10, <2>1, <3>1 DEF OpenNext, Opened
    <2>2. open' = (open \ {o}) \cup
            (IF Decided(r) THEN {Opened(o.call, r, "sum up")} ELSE {})
      BY DEF SaveReport
    <2>3. Opened(o.call, r, "sum up").call = o.call
      BY DEF Opened
    <2> HIDE DEF r
    <2> QED
      BY <2>1, <2>2, <2>3
  <1>12. UNCHANGED <<phase, xfer, todo, job, dist>>
    BY DEF SaveReport, apart
  <1>13. Stopped'
    BY <1>0, <1>11, <1>12 DEF ResultsInv, Stopped
  <1>14. Unasked'
    BY <1>12 DEF ResultsInv, Unasked
  <1> HIDE DEF r
  <1> QED
    BY <1>4, <1>8, <1>9, <1>11, <1>12, <1>13, <1>14, ResultsKept

\* A stop of p's job undoes nothing.
LEMMA StopOnward ==
  ASSUME TypeOK, ResultsInv, NEW p \in Participant,
         NEW b \in {"completed", "error"}, StopJob(p, b),
         UNCHANGED <<phase, xfer, manual>>
  PROVE  /\ Onward
         /\ job'[Initiator] # job[Initiator] =>
              phase \notin {"none", "sending", "starting"}
  <1>1. \A q \in Participant : job'[q] # job[q] =>
          job[q] = "running" /\ job'[q] = "stopped"
    BY StopJobType
  <1> QED
    BY <1>1, Parties DEF Onward, ResultsInv, Stopped

LEMMA ResultsOutcome ==
  ASSUME TypeOK, ResultsInv, NEW o \in open, SaveOutcome(o)
  PROVE  ResultsInv'
  <1> DEFINE b == Outcomes(o)
             e == Ended(o.copy, b)
             r == [e EXCEPT !.results = FilledResults(o.copy, b)]
  <1> USE Parties
  <1>0. /\ o.call.at = Initiator /\ b \in {"completed", "error"}
        /\ o.call.do = "manual" \/ o.pc = "sum up"
        /\ o.call.do = "manual" => manual
    BY OpenFacts, OutcomeType DEF SaveOutcome, Handler, CallShape, ResultsInv
  <1>1. /\ Onward
        /\ job'[Initiator] # job[Initiator] =>
             phase \notin {"none", "sending", "starting"}
    <2>1. StopJob(Initiator, b) /\ UNCHANGED <<phase, xfer, manual>>
      BY DEF SaveOutcome, Outcomes, apart
    <2> HIDE DEF b
    <2> QED
      BY <1>0, <2>1, StopOnward
  <1>2. CredibleNext(o.copy)
    BY <1>0, <1>1, OpenFacts, CredibleLasts
  <1>3. e \in Row /\ e.orch = b /\ r \in Row
    <2>1. e \in Row /\ e.orch = b
      BY <1>0, OpenFacts, EndedRow
    <2>2. FilledResults(o.copy, b) \in [Participant -> {"none"} \cup Terminal]
      BY <1>0, OpenFacts, FilledRow
    <2> HIDE DEF e, b
    <2> QED
      BY <2>1, <2>2 DEF Row
  <1>4. r.results = FilledResults(o.copy, b) /\ r.orch = b
    <2> HIDE DEF e, b
    <2> QED
      BY <1>3 DEF Row
  <1>5. \A q \in Participant :
          \/ r.results[q] = o.copy.results[q]
          \/ b = "error" /\ r.results[q] = "terminated"
             /\ o.copy.results[q] = "none"
    BY <1>4 DEF FilledResults
  <1>6. row'[Initiator] = r
    <2>1. Save(Initiator, r)
      BY DEF SaveOutcome, Outcomes
    <2> HIDE DEF r
    <2> QED
      BY <1>3, <2>1, SaveType
  <1>7. CredibleNext(r)
    <2>1. \A q \in Participant :
            r.results[q] \in JobResult => EvidenceNext(q, r.results[q])
      BY <1>2, <1>5 DEF CredibleNext
    <2>2. ASSUME ~manual'
          PROVE  o.pc = "sum up" /\ Decided(o.copy) /\ o.call.do = "report"
      BY <1>0, <1>1, <2>2, OpenFacts DEF Onward
    <2>3. ASSUME ~manual', SomeFailed(o.copy) PROVE b = "error" /\ SomeFailed(r)
      <3>1. b = "error"
        BY <2>2, <2>3 DEF Outcomes
      <3>2. PICK f \in Participant : o.copy.results[f] = "failed"
        BY <2>3 DEF SomeFailed
      <3>3. r.results[f] = "failed"
        BY <1>5, <3>2
      <3> QED
        BY <3>1, <3>3 DEF SomeFailed
    <2>4. ASSUME ~manual', ~SomeFailed(o.copy)
          PROVE  /\ b = "completed"
                 /\ \A q \in Participant : /\ job'[q] = "succeeded"
                                          /\ r.results[q] = "completed"
      <3>1. b = "completed"
        BY <2>2, <2>4 DEF Outcomes
      <3>2. ASSUME NEW q \in Participant PROVE o.copy.results[q] = "completed"
        <4>1. o.copy.results[q] # "none"
          BY <2>2, <2>4 DEF Decided, Reported
        <4>2. o.copy.results[q] # "failed"
          BY <2>4 DEF SomeFailed
        <4>3. o.copy.results[q] # "terminated"
          BY <1>2, <2>4 DEF CredibleNext
        <4> QED
          BY <4>1, <4>2, <4>3, OpenFacts, RowParts
      <3>3. \A q \in Participant : r.results[q] = "completed"
        BY <1>5, <3>1, <3>2
      <3>4. \A q \in Participant : job'[q] = "succeeded"
        BY <1>2, <2>4, <3>2 DEF CredibleNext, EvidenceNext
      <3> QED
        BY <3>1, <3>3, <3>4
    <2> HIDE DEF r, b
    <2> QED
      BY <1>4, <2>1, <2>3, <2>4 DEF CredibleNext
  <1>8. \A k \in todo' : k \in todo \/ TodoNext(k)
    <2>1. todo' = todo \cup {CallAt(w, "signal", b, w) : w \in o.copy.links}
      BY DEF SaveOutcome, Outcomes
    <2>2. \A w \in o.copy.links : w \in Worker
      BY OpenFacts, RowParts
    <2>3. ASSUME NEW w \in Worker PROVE TodoNext(CallAt(w, "signal", b, w))
      BY <1>0 DEF CallAt, TodoNext, ShapeNext, BackedNext
    <2> HIDE DEF b
    <2> QED
      BY <2>1, <2>2, <2>3
  <1>9. Done(o) /\ UNCHANGED <<phase, xfer, dist>>
    BY DEF SaveOutcome, apart
  <1> HIDE DEF r
  <1> QED
    BY <1>0, <1>1, <1>6, <1>7, <1>8, <1>9, ResultsSaved

LEMMA ResultsSignal ==
  ASSUME TypeOK, ResultsInv, NEW o \in open, SaveSignal(o)
  PROVE  ResultsInv'
  <1>1. o.call.at \in Worker /\ o.call.arg \in {"completed", "error"}
    BY OpenFacts DEF SaveSignal, Handler, CallShape
  <1>2. row'[Initiator] = row[Initiator]
    BY <1>1, Parties, OpenFacts, EndedRow, SaveType DEF SaveSignal
  <1>3. /\ Onward
        /\ job'[Initiator] # job[Initiator] =>
             phase \notin {"none", "sending", "starting"}
    BY <1>1, Parties, StopOnward DEF SaveSignal, apart
  <1>4. Done(o) /\ UNCHANGED <<phase, xfer, dist, todo>>
    BY DEF SaveSignal, apart
  <1> QED
    BY <1>1, <1>2, <1>3, <1>4, Parties, ResultsSaved

LEMMA ResultsTrouble ==
  ASSUME TypeOK, ResultsInv, Known, NEW w \in Worker,
         NEW to \in {"completed", "terminated"}, TransferEnds(w, to)
  PROVE  ResultsInv'
  <1> USE Parties
  <1> DEFINE k == CallAt(Initiator, "report", Ending(to), w)
             h == Opened(k, row[Initiator], "save")
  <1>1. Onward
    BY DEF TransferEnds, Onward, TypeOK
  <1>2. /\ k.at = Initiator /\ k.do = "report" /\ k.arg = Ending(to)
        /\ k.of = w /\ h.call = k /\ h.copy = row[Initiator] /\ h.pc = "save"
    BY DEF CallAt, Opened
  <1>3. phase = "listening" => Exists(Initiator)
    BY DEF Known
  <1>4. phase = "listening" => OpenNext(h)
    <2>1. CredibleNext(h.copy)
      BY <1>1, <1>2, CredibleLasts DEF ResultsInv
    <2>2. xfer'[w] = to /\ (to = "completed" => manual')
      BY DEF TransferEnds, TypeOK
    <2>3. ShapeNext(k) /\ BackedNext(k)
      BY <1>2, <2>2 DEF ShapeNext, BackedNext, EvidenceNext, Ending
    <2> HIDE DEF k
    <2> QED
      BY <1>2, <1>3, <2>1, <2>3 DEF OpenNext, Exists
  <1>5. /\ open' = IF phase # "listening" THEN open ELSE open \cup {h}
        /\ UNCHANGED <<row, todo, phase, dist, job>>
    BY DEF TransferEnds, Ending
  <1>6. \A v \in Worker : xfer'[v] # xfer[v] => xfer[v] = "started"
    BY DEF TransferEnds, TypeOK
  <1>7. Stopped' /\ Unasked'
    BY <1>2, <1>5, <1>6 DEF ResultsInv, Stopped, Unasked
  <1> HIDE DEF h
  <1> QED
    BY <1>1, <1>4, <1>5, <1>7, ResultsKept

LEMMA ResultsEvent ==
  ASSUME TypeOK, ResultsInv, NEW p \in Participant, NEW q \in Participant,
         EventLinks(p, q)
  PROVE  ResultsInv'
  <1> DEFINE k == CallAt(p, "link", "none", q)
             h == Opened(k, row[p], "save")
  <1>1. Onward
    BY DEF EventLinks, Onward
  <1>2. /\ k.at = p /\ k.do = "link"
        /\ h.call = k /\ h.copy = row[p] /\ h.pc = "save"
    BY DEF CallAt, Opened
  <1>3. OpenNext(h)
    <2>1. p = Initiator => CredibleNext(h.copy)
      BY <1>1, <1>2, CredibleLasts DEF ResultsInv
    <2>2. ShapeNext(k) /\ BackedNext(k)
      BY <1>2 DEF ShapeNext, BackedNext
    <2>3. h.copy.status # "none"
      BY <1>2 DEF EventLinks, Exists
    <2> HIDE DEF k, h
    <2> QED
      BY <1>2, <2>1, <2>2, <2>3 DEF OpenNext
  <1>4. open' = open \cup {h} /\ UNCHANGED <<row, todo, phase, dist, xfer, job>>
    BY DEF EventLinks
  <1>5. Stopped' /\ Unasked'
    BY <1>2, <1>4 DEF ResultsInv, Stopped, Unasked
  <1> HIDE DEF h
  <1> QED
    BY <1>1, <1>3, <1>4, <1>5, ResultsKept

LEMMA ResultsManual ==
  ASSUME TypeOK, ResultsInv, Known, NEW b \in {"completed", "error"},
         Manual(b)
  PROVE  ResultsInv'
  <1> USE Parties
  <1>1. CASE Manual(b)
    <2> DEFINE k == CallAt(Initiator, "manual", b, Initiator)
               h == Opened(k, row[Initiator], "save")
    <2>1. Onward
      BY <1>1 DEF Manual, Onward
    <2>2. /\ k.at = Initiator /\ k.do = "manual" /\ k.arg = b
          /\ h.call = k /\ h.copy = row[Initiator] /\ h.pc = "save"
      BY DEF CallAt, Opened
    <2>3. Exists(Initiator)
      BY <1>1 DEF Manual, Known
    <2>4. OpenNext(h)
      <3>1. CredibleNext(h.copy)
        BY <2>1, <2>2, CredibleLasts DEF ResultsInv
      <3>2. ShapeNext(k) /\ BackedNext(k)
        BY <1>1, <2>2 DEF ShapeNext, BackedNext, Manual
      <3> QED
        BY <2>2, <2>3, <3>1, <3>2 DEF OpenNext, Exists
    <2>5. open' = open \cup {h} /\ UNCHANGED <<row, todo, phase, dist, xfer, job>>
      BY <1>1 DEF Manual
    <2>6. Stopped' /\ Unasked'
      BY <2>2, <2>5 DEF ResultsInv, Stopped, Unasked
    <2> QED
      BY <2>1, <2>4, <2>5, <2>6, ResultsKept
  <1> QED
    BY <1>1

LEMMA ResultsJobs ==
  ASSUME TypeOK, ResultsInv, NEW p \in Participant,
         NEW r \in {"succeeded", "failed"},
         \/ Spawn(p) \/ JobEnds(p, r) \/ PollBegins(p) \/ PollEnds(p)
         \/ Restart(p)
  PROVE  ResultsInv'
  <1> USE Parties
  <1>1. CASE Spawn(p) \/ JobEnds(p, r)
    <2>1. /\ \A q \in Participant : job'[q] # job[q] =>
               job[q] \in {"spawning", "running"}
          /\ UNCHANGED <<row, todo, open, phase, dist, xfer, manual>>
      BY <1>1 DEF Spawn, JobEnds, TypeOK
    <2>2. Onward
      BY <2>1 DEF Onward
    <2>3. Stopped' /\ Unasked'
      BY <2>1 DEF ResultsInv, Stopped, Unasked
    <2> QED
      BY <2>1, <2>2, <2>3, ResultsKept
  <1>2. CASE PollBegins(p)
    <2>1. /\ UNCHANGED <<row, todo, phase, dist, xfer, job, manual>>
          /\ \/ open' = open
             \/ \E b \in JobResult :
                  /\ b = "completed" => job[p] = "succeeded"
                  /\ b = "failed" => job[p] \in {"failed", "stopped"}
                  /\ Load(CallAt(p, "status", b, p))
      BY <1>2 DEF PollBegins
    <2>2. Onward
      BY <2>1 DEF Onward
    <2>3. Unasked'
      BY <2>1 DEF ResultsInv, Unasked
    <2>4. CASE open' = open
      <3>1. Stopped'
        BY <2>1, <2>4 DEF ResultsInv, Stopped
      <3> QED
        BY <2>1, <2>2, <2>3, <2>4, <3>1, ResultsKept
    <2>5. ASSUME NEW b \in JobResult, b = "completed" => job[p] = "succeeded",
                 b = "failed" => job[p] \in {"failed", "stopped"},
                 Load(CallAt(p, "status", b, p))
          PROVE  ResultsInv'
      <3> DEFINE k == CallAt(p, "status", b, p)
      <3>1. k \in Call /\ k.do = "status" /\ k.at = p /\ k.arg = b
        BY DEF CallAt, Call
      <3>2. ShapeNext(k) /\ BackedNext(k)
        BY <2>1, <2>5, <3>1 DEF ShapeNext, BackedNext, EvidenceNext
      <3> HIDE DEF k
      <3>3. Load(k)
        BY <2>5 DEF k
      <3> QED
        BY <2>1, <2>2, <2>3, <3>1, <3>2, <3>3, ResultsLoaded
    <2> QED
      BY <2>1, <2>4, <2>5
  <1>3. CASE PollEnds(p)
    <2>1. UNCHANGED <<row, todo, open, phase, dist, xfer, job, manual>>
      BY <1>3 DEF PollEnds
    <2>2. Onward
      BY <2>1 DEF Onward
    <2>3. Stopped' /\ Unasked'
      BY <2>1 DEF ResultsInv, Stopped, Unasked
    <2> QED
      BY <2>1, <2>2, <2>3, ResultsKept
  <1>4. CASE Restart(p)
    <2>1. /\ \A q \in Participant : job'[q] # job[q] => job[q] = "spawning"
          /\ UNCHANGED <<row, xfer, manual>>
          /\ todo' \subseteq todo
          /\ open' = {o \in open : o.call.at # p}
          /\ phase' = IF p = Initiator /\ phase # "none" THEN "stopped"
                                                         ELSE phase
          /\ \A w \in Worker : dist'[w] = dist[w] \/ dist'[w] = "failed"
          /\ \A w \in Worker : dist'[w] # dist[w] => dist[w] = "starting"
      BY <1>4 DEF Restart, TypeOK
    <2>2. Onward
      BY <2>1 DEF Onward
    <2>3. Stopped'
      BY <2>1 DEF ResultsInv, Stopped
    <2>4. Unasked'
      BY <2>1 DEF ResultsInv, Unasked
    <2> QED
      BY <2>1, <2>2, <2>3, <2>4, ResultsKept
  <1> QED
    BY <1>1, <1>2, <1>3, <1>4

\* A row that is saved is there, and the phase is never "none" again.
LEMMA KnownSaved ==
  ASSUME TypeOK, ResultsInv, NEW o \in open,
         \/ SaveLink(o) \/ SaveStart(o) \/ SaveStatus(o)
         \/ SaveReport(o) \/ SaveOutcome(o) \/ SaveSignal(o)
  PROVE  /\ \A p \in Participant :
              row[p].status # "none" => row'[p].status # "none"
         /\ phase' = phase
  <1> USE OpenFacts
  <1> SUFFICES ASSUME NEW r \in Row, r.status # "none", Save(o.call.at, r)
                      \/ (Save(Initiator, r) /\ o.call.at = Initiator)
               PROVE  \A p \in Participant :
                        row[p].status # "none" => row'[p].status # "none"
    <2>1. phase' = phase
      BY DEF SaveLink, SaveStart, SaveStatus, SaveReport, SaveOutcome,
             SaveSignal, apart
    <2>2. Shapes
      BY DEF ResultsInv
    <2>3. CASE SaveLink(o)
      <3> DEFINE r == [o.copy EXCEPT
                         !.links = @ \cup ({o.call.of} \cap Worker)]
      <3>1. Save(o.call.at, r)
        BY <2>3 DEF SaveLink
      <3>2. r.status # "none"
        BY DEF Row
      <3> QED
        BY <2>1, <2>2, <3>1, <3>2, Saved
    <2>4. CASE SaveStart(o)
      <3> DEFINE r == [o.copy EXCEPT !.status = "running",
                         !.orch = IF @ = "pending" THEN "running" ELSE @]
      <3>1. Save(o.call.at, r)
        BY <2>4 DEF SaveStart
      <3>2. r.status # "none"
        BY DEF Row
      <3> QED
        BY <2>1, <2>2, <3>1, <3>2, Saved
    <2>5. CASE SaveStatus(o)
      <3>1. /\ Save(o.call.at, [o.copy EXCEPT !.status = o.call.arg])
            /\ o.call.do = "status"
        BY <2>5 DEF SaveStatus, Handler
      <3>2. [o.copy EXCEPT !.status = o.call.arg].status # "none"
        BY <3>1 DEF Row, CallShape
      <3> QED
        BY <2>1, <2>2, <3>1, <3>2, Saved
    <2>6. CASE SaveReport(o)
      <3> DEFINE r == [o.copy EXCEPT !.results =
                         [o.copy.results EXCEPT ![o.call.of] = o.call.arg]]
      <3>1. Save(Initiator, r) /\ o.call.at = Initiator /\ o.call.do = "report"
        BY <2>6 DEF SaveReport, Handler, CallShape
      <3>2. r.status # "none"
        BY DEF Row
      <3> QED
        BY <2>1, <2>2, <3>1, <3>2, Saved
    <2>7. CASE SaveOutcome(o)
      <3> DEFINE e == Ended(o.copy, Outcomes(o))
                 r == [e EXCEPT !.results = FilledResults(o.copy, Outcomes(o))]
      <3>1. Save(Initiator, r) /\ o.call.at = Initiator
        BY <2>7 DEF SaveOutcome, Handler, CallShape, Outcomes
      <3>2. e \in Row /\ e.status # "none"
        BY <2>2, OutcomeType, EndedRow
      <3>3. r \in Row
        BY <2>2, <3>2, OutcomeType, FilledRow, RowChange
      <3>4. r.status # "none"
        <4> HIDE DEF e
        <4> QED
          BY <3>2 DEF Row
      <3> HIDE DEF r
      <3> QED
        BY <2>1, <3>1, <3>3, <3>4
    <2>8. CASE SaveSignal(o)
      <3>1. /\ Save(o.call.at, Ended(o.copy, o.call.arg))
            /\ o.call.arg \in {"completed", "error"}
        BY <2>8 DEF SaveSignal, Handler, CallShape
      <3> QED
        BY <2>1, <3>1, EndedRow
    <2> QED
      BY <2>3, <2>4, <2>5, <2>6, <2>7, <2>8
  <1> QED
    BY SaveType, Parties

LEMMA KnownNext == TypeOK /\ ResultsInv /\ Known /\ Next => Known'
  <1> SUFFICES ASSUME TypeOK, ResultsInv, Known, Next PROVE Known'
    OBVIOUS
  <1> USE Parties DEF Known, Exists
  <1>1. CASE Create
    <2>1. row'[Initiator] = Fresh("pending", "pending")
      BY <1>1, FreshRow, SaveType DEF Create
    <2> QED
      BY <2>1, FreshRow
  <1>2. ASSUME NEW w \in Worker,
               \/ TransferStarts(w) \/ SendCreate(w)
               \/ DistributionFails(w) \/ StartMissed(w)
        PROVE  Known'
    <2>1. row'[Initiator] = row[Initiator]
      BY <1>2, FreshRow, SaveType
         DEF TransferStarts, SendCreate, DistributionFails, StartMissed
    <2>2. phase' # "none" => phase # "none"
      BY <1>2
         DEF TransferStarts, SendCreate, DistributionFails, StartMissed
    <2> QED
      BY <2>1, <2>2
  <1>3. ASSUME NEW k \in todo, Receive(k) \/ Tell(k) \/ CallFails(k)
        PROVE  Known'
    BY <1>3 DEF Receive, Tell, CallFails
  <1>4. ASSUME NEW o \in open,
               \/ SaveLink(o) \/ SaveStart(o) \/ SaveStatus(o)
               \/ SaveReport(o) \/ SaveOutcome(o) \/ SaveSignal(o)
        PROVE  Known'
    BY <1>4, KnownSaved
  <1>5. ASSUME NEW p \in Participant, NEW r \in {"succeeded", "failed"},
               \/ PollBegins(p) \/ PollEnds(p) \/ Spawn(p) \/ JobEnds(p, r)
               \/ Restart(p)
        PROVE  Known'
    BY <1>5 DEF PollBegins, PollEnds, Spawn, JobEnds, Restart
  <1>6. ASSUME NEW b \in {"completed", "error"}, Manual(b) PROVE Known'
    BY <1>6 DEF Manual
  <1>7. CASE SendStarts \/ Listen \/ GiveUp
    BY <1>7 DEF SendStarts, Listen, GiveUp
  <1>8. ASSUME NEW w \in Worker, NEW to \in {"completed", "terminated"},
               TransferEnds(w, to)
        PROVE  Known'
    BY <1>8 DEF TransferEnds
  <1>9. ASSUME NEW p \in Participant, NEW q \in Participant, EventLinks(p, q)
        PROVE  Known'
    BY <1>9 DEF EventLinks
  <1> QED
    BY <1>1, <1>2, <1>3, <1>4, <1>5, <1>6, <1>7, <1>8, <1>9 DEF Next, Progress

\* Every step keeps the types and the results.
LEMMA ResultsNext ==
  TypeOK /\ ResultsInv /\ Known /\ [Next]_vars => TypeOK' /\ ResultsInv' /\ Known'
  <1> SUFFICES ASSUME TypeOK, ResultsInv, Known, [Next]_vars
               PROVE  TypeOK' /\ ResultsInv' /\ Known'
    OBVIOUS
  <1>0. Shapes
    BY DEF ResultsInv
  <1>1. CASE UNCHANGED vars
    <2>1. TypeOK'
      BY <1>1 DEF vars, TypeOK
    <2>2. Stopped' /\ Unasked' /\ Known'
      BY <1>1 DEF vars, ResultsInv, Stopped, Unasked, Known, Exists
    <2>3. Onward
      BY <1>1 DEF vars, Onward
    <2>4. row' = row /\ todo' = todo /\ open' = open
      BY <1>1 DEF vars
    <2> QED
      BY <2>1, <2>2, <2>3, <2>4, ResultsKept
  <1>2. CASE Next
    <2>1. ASSUME Create PROVE TypeOK' /\ ResultsInv'
      BY <2>1, TypePhases, ResultsCreate
    <2>2. ASSUME SendStarts \/ Listen \/ GiveUp PROVE TypeOK' /\ ResultsInv'
      BY <2>2, TypePhases, ResultsPhases
    <2>3. ASSUME NEW w \in Worker,
                 \/ TransferStarts(w) \/ SendCreate(w)
                 \/ DistributionFails(w) \/ StartMissed(w)
          PROVE  TypeOK' /\ ResultsInv'
      BY <2>3, TypeDistribution, ResultsDistribution
    <2>4. ASSUME NEW k \in todo, Receive(k) \/ Tell(k) \/ CallFails(k)
          PROVE  TypeOK' /\ ResultsInv'
      BY <1>0, <2>4, TypeMessages, ResultsMessages
    <2>5. ASSUME NEW o \in open,
                 \/ SaveLink(o) \/ SaveStart(o) \/ SaveStatus(o)
                 \/ SaveReport(o) \/ SaveOutcome(o) \/ SaveSignal(o)
          PROVE  TypeOK' /\ ResultsInv'
      BY <1>0, <2>5, TypeHandlers, ResultsRows, ResultsReport, ResultsOutcome,
         ResultsSignal
    <2>6. ASSUME NEW p \in Participant, NEW r \in {"succeeded", "failed"},
                 \/ Spawn(p) \/ JobEnds(p, r) \/ PollBegins(p) \/ PollEnds(p)
                 \/ Restart(p)
          PROVE  TypeOK' /\ ResultsInv'
      BY <2>6, TypeJobs, ResultsJobs
    <2>7. ASSUME NEW b \in {"completed", "error"}, Manual(b)
          PROVE  TypeOK' /\ ResultsInv'
      BY <2>7, TypeManual, ResultsManual
    <2>8. ASSUME NEW w \in Worker, NEW to \in {"completed", "terminated"},
                 TransferEnds(w, to)
          PROVE  TypeOK' /\ ResultsInv'
      BY <2>8, TypeTrouble, ResultsTrouble
    <2>9. ASSUME NEW p \in Participant, NEW q \in Participant,
                 EventLinks(p, q)
          PROVE  TypeOK' /\ ResultsInv'
      BY <2>9, TypeEvent, ResultsEvent
    <2>10. TypeOK' /\ ResultsInv'
      BY <1>2, <2>1, <2>2, <2>3, <2>4, <2>5, <2>6, <2>7, <2>8, <2>9
         DEF Next, Progress
    <2> QED
      BY <1>2, <2>10, KnownNext
  <1> QED
    BY <1>1, <1>2

LEMMA AlgorithmInvariant == Spec => [](TypeOK /\ ResultsInv /\ Known)
  <1>1. Init => Known
    BY DEF Init, Known
  <1> QED
    BY <1>1, TypeInit, ResultsInit, ResultsNext, PTL DEF Spec

\* The instance, its calls and its jobs have their types: TypeOK needs what the
\* calls under way look like, since handlers save what they carry.
THEOREM AlgorithmTypes == Spec => []TypeOK
  BY AlgorithmInvariant, PTL

\* What ResultsInv says: a result recorded by the initiator, in its row or in a
\* copy a handler will save, is that of the participant's job or transfer.
THEOREM ResultsCredible == Spec => []ResultsInv
  BY AlgorithmInvariant, PTL

\* CompletedByAll: the initiator completes an instance only if the job of every
\* participant succeeded, however its handlers overlap and whatever fails, unless
\* a user has set the outcome or completed a transfer.
THEOREM CompletedAfterAll == Spec => []CompletedByAll
  <1>1. ResultsInv => CompletedByAll
    BY DEF ResultsInv, Credible, CompletedByAll
  <1> QED
    BY <1>1, AlgorithmInvariant, PTL

----------------------------------------------------------------------------
(* The start of an instance.                                                *)

SettledNext == /\ phase' \in {"listening", "failed", "stopped"}
               /\ \A w \in Worker : dist'[w] # "starting"

ReadyNext(k) ==
  /\ k.do = "start" => /\ \A w \in Worker : row'[w].status # "none"
                       /\ phase' \notin {"none", "sending"}
  /\ k.do = "start" /\ k.at = Initiator /\ ~manual' =>
       \A w \in Worker : job'[w] # "none"
  /\ k.do \in {"status", "tell"} /\ k.at \in Worker => job'[k.at] # "none"
  /\ k.do = "link" /\ k.at \in Worker => phase' \notin {"none", "sending"}

\* A call that is added.
Follows(k) == ReadyNext(k) /\ (~manual' /\ Outcome(k) => SettledNext)

WaitsNext(w) == /\ \/ dist'[w] = "starting"
                   \/ phase' = "sending" /\ dist'[w] = "created"
                /\ job'[w] = "none"
                /\ ~manual'

\* What no step undoes: rows and jobs that are there, and the phases.
Forward ==
  /\ \A p \in Participant : Exists(p) => row'[p].status # "none"
  /\ \A p \in Participant : job[p] # "none" => job'[p] # "none"
  /\ manual => manual'
  /\ phase \notin {"none", "sending"} => phase' \notin {"none", "sending"}
  /\ Settled => SettledNext

\* A step that begins nothing too early.
Timely ==
  /\ phase' \in {"starting", "listening"} =>
       phase \in {"starting", "listening"} \/ \A w \in Worker : Exists(w)
  /\ phase' = "sending" =>
       \A w \in Worker : dist'[w] = "created" =>
         \/ phase = "sending" /\ dist[w] = "created"
         \/ row'[w].status # "none"
  /\ (\E p \in Participant : job'[p] # "none" /\ job[p] = "none") =>
       phase' \notin {"none", "sending"} /\ \A w \in Worker : Exists(w)
  /\ ~manual' =>
       /\ \A w \in Worker : dist'[w] = "running" =>
            dist[w] = "running" \/ job'[w] # "none"
       /\ \/ phase' = "listening" /\ phase # "listening"
          \/ job'[Initiator] # "none" /\ job[Initiator] = "none"
          => SettledNext /\ \A w \in Worker : job'[w] # "none"

\* A step that leaves the row of a worker that waits to be started.
Leaves(w) ==
  WaitsNext(w) =>
    \/ Waits(w) /\ row'[w].status = row[w].status
    \/ /\ row'[w].status \in {"none", "pending"}
       /\ Waits(w) \/ \A o \in open' : o.call.at # w

LEMMA ReadyLasts ==
  ASSUME Forward, NEW k, k.at \in Participant, Ready(k)
  PROVE  ReadyNext(k)
  BY Parties DEF Forward, Ready, ReadyNext, Exists

LEMMA StartKept ==
  ASSUME TypeOK, StartInv, Forward, Timely,
         \A k \in todo' : k \in todo \/ Follows(k),
         \A o \in open' : \/ o \in open
                          \/ /\ Follows(o.call)
                             /\ o.call.at \in Worker =>
                                  o.copy.status = row[o.call.at].status,
         \A w \in Worker : Leaves(w)
  PROVE  StartInv'
  <1> USE Parties
  <1>1. There'
    BY DEF There, StartInv, Forward, Timely, Exists
  <1>2. ASSUME NEW k, k \in todo \/ \E o \in open : k = o.call
        PROVE  Follows(k)
    <2>1. ReadyNext(k)
      BY <1>2, Typed, ReadyLasts DEF StartInv, CallsReady
    <2>2. ~manual' /\ Outcome(k) => SettledNext
      BY <1>2 DEF StartInv, InOrder, Forward
    <2> QED
      BY <2>1, <2>2 DEF Follows
  <1>3. /\ \A k \in todo' : Follows(k)
        /\ \A o \in open' : Follows(o.call)
    BY <1>2
  <1>4. CallsReady'
    BY <1>3 DEF CallsReady, Follows, Ready, ReadyNext, Exists
  <1>5. ASSUME ~manual' PROVE InOrder'
    <2>0. InOrder /\ ~manual
      BY <1>5 DEF StartInv, Forward
    <2>1. /\ \A k \in todo' : Outcome(k) => Settled'
          /\ \A o \in open' : Outcome(o.call) => Settled'
      BY <1>3, <1>5 DEF Follows, SettledNext, Settled
    <2>2. \A w \in Worker : dist'[w] = "running" => job'[w] # "none"
      BY <2>0, <1>5 DEF InOrder, Timely, Forward
    <2>3. ASSUME NEW w \in Worker PROVE Waiting(w, row[w])'
      <3>1. WaitsNext(w) => job[w] = "none"
        BY DEF WaitsNext, Forward
      <3>2. Waits(w) /\ job[w] = "none" => row[w].status \in {"none", "pending"}
        BY <2>0 DEF InOrder, Waiting
      <3>3. WaitsNext(w) => row'[w].status \in {"none", "pending"}
        BY <3>1, <3>2 DEF Leaves
      <3> QED
        BY <1>5, <3>3 DEF Waiting, Waits, WaitsNext
    <2>4. ASSUME NEW o \in open', o.call.at \in Worker
          PROVE  Waiting(o.call.at, o.copy)'
      <3> DEFINE w == o.call.at
      <3>1. WaitsNext(w) => job[w] = "none" /\ Waits(w)
        BY <2>4 DEF WaitsNext, Forward, Leaves
      <3>2. Waits(w) /\ job[w] = "none" => o.copy.status \in {"none", "pending"}
        BY <2>0, <2>4 DEF InOrder, Waiting
      <3>3. WaitsNext(w) => o.copy.status \in {"none", "pending"}
        BY <3>1, <3>2
      <3> QED
        BY <1>5, <3>3 DEF Waiting, Waits, WaitsNext
    <2>5. phase' = "listening" \/ job'[Initiator] # "none" =>
            SettledNext /\ \A w \in Worker : job'[w] # "none"
      BY <2>0, <1>5 DEF InOrder, Timely, Forward
    <2>6. phase' = "listening" \/ job'[Initiator] # "none" =>
            Settled' /\ \A w \in Worker : job'[w] # "none"
      BY <2>5 DEF SettledNext, Settled
    <2> QED
      BY <2>1, <2>2, <2>3, <2>4, <2>6 DEF InOrder
  <1> QED
    BY <1>1, <1>4, <1>5 DEF StartInv

LEMMA StartInit == Init => StartInv
  BY Parties, FreshRow
     DEF Init, StartInv, There, CallsReady, InOrder, Waiting, Waits, Absent

\* A handler that begins has the row as it is.
LEMMA LoadFollows ==
  ASSUME NEW k \in Call, Load(k), Follows(k)
  PROVE  \A o \in open' : \/ o \in open
                          \/ /\ Follows(o.call)
                             /\ o.call.at \in Worker =>
                                  o.copy.status = row[o.call.at].status
  BY DEF Load, Opened

\* A step that leaves rows and jobs alone, and the phase but for an end.
LEMMA StartQuiet ==
  ASSUME TypeOK, StartInv, row' = row, manual => manual',
         \A p \in Participant : job[p] # "none" <=> job'[p] # "none",
         \/ phase' = phase
         \/ phase # "none" /\ phase' \in {"failed", "stopped"},
         \A w \in Worker :
           \/ dist'[w] = dist[w]
           \/ dist'[w] \in {"linking", "linked", "missed", "failed"}
           \/ dist'[w] = "running" /\ (~manual' => job'[w] # "none")
  PROVE  Forward /\ Timely /\ \A w \in Worker : Leaves(w)
  <1> USE Parties
  <1>1. Forward
    BY DEF Forward, Settled, SettledNext, Exists
  <1>2. Timely
    BY DEF Timely
  <1>3. \A w \in Worker : WaitsNext(w) => Waits(w)
    BY DEF WaitsNext, Waits
  <1> QED
    BY <1>1, <1>2, <1>3 DEF Leaves

LEMMA StartCreate == TypeOK /\ StartInv /\ Create => StartInv'
  <1> SUFFICES ASSUME TypeOK, StartInv, Create PROVE StartInv'
    OBVIOUS
  <1> USE Parties
  <1>1. /\ row'[Initiator].status = "pending"
        /\ \A w \in Worker : row'[w] = row[w]
    BY FreshRow, SaveType DEF Create
  <1>2. Forward
    BY <1>1 DEF Create, Forward, Settled, Exists
  <1>3. Timely
    BY DEF Create, Timely
  <1>4. \A w \in Worker : Leaves(w)
    BY DEF Create, Leaves, WaitsNext
  <1>5. todo' = todo /\ open' = open
    BY DEF Create
  <1> QED
    BY <1>2, <1>3, <1>4, <1>5, StartKept

LEMMA StartDistribution ==
  ASSUME TypeOK, ResultsInv, StartInv, NEW w \in Worker,
         \/ TransferStarts(w) \/ SendCreate(w) \/ DistributionFails(w)
         \/ StartMissed(w)
  PROVE  StartInv'
  <1> USE Parties
  <1>1. CASE TransferStarts(w)
    <2> DEFINE k == CallAt(Initiator, "link", "none", w)
    <2>1. k \in Call /\ k.do = "link" /\ k.at = Initiator
      BY CallType
    <2>2. Forward /\ Timely /\ \A v \in Worker : Leaves(v)
      BY <1>1, StartQuiet DEF TransferStarts, TypeOK
    <2>3. Follows(k)
      BY <2>1 DEF Follows, ReadyNext, Outcome
    <2>4. Load(k) /\ todo' = todo
      BY <1>1 DEF TransferStarts
    <2> HIDE DEF k
    <2> QED
      BY <2>1, <2>2, <2>3, <2>4, LoadFollows, StartKept
  <1>2. CASE SendCreate(w)
    <2>1. /\ row'[w].status = "pending"
          /\ \A p \in Participant : p # w => row'[p] = row[p]
      BY <1>2, FreshRow, SaveType DEF SendCreate
    <2>2. /\ phase = "sending" /\ phase' = "sending" /\ job' = job
          /\ manual' = manual /\ open' = open /\ todo' = todo
          /\ dist'[w] = "created" /\ \A v \in Worker : v # w => dist'[v] = dist[v]
      BY <1>2 DEF SendCreate, TypeOK
    <2>3. Forward
      BY <2>1, <2>2 DEF Forward, Settled, Exists
    <2>4. Timely
      BY <2>1, <2>2 DEF Timely
    <2>5. \A v \in Worker : v # w => Leaves(v)
      BY <2>1, <2>2 DEF Leaves, WaitsNext, Waits
    <2>6. Leaves(w)
      <3> SUFFICES ASSUME WaitsNext(w), NEW o \in open, o.call.at = w
                   PROVE  FALSE
        BY <2>1, <2>2 DEF Leaves
      <3>1. CallShape(o.call) /\ Ready(o.call) /\ InOrder
        BY <2>2 DEF ResultsInv, Shapes, StartInv, CallsReady, WaitsNext
      <3>2. o.call.do \in {"link", "start", "status", "tell", "signal"}
        BY <3>1, Typed DEF CallShape, Call
      <3>3. o.call.do # "start"
        BY <2>2, <3>1 DEF Ready
      <3>4. o.call.do \notin {"status", "tell"}
        BY <2>2, <3>1 DEF Ready, WaitsNext
      <3>5. o.call.do # "signal"
        BY <2>2, <3>1 DEF InOrder, Outcome, Settled
      <3>6. o.call.do # "link"
        BY <2>2, <3>1 DEF Ready
      <3> QED
        BY <3>2, <3>3, <3>4, <3>5, <3>6
    <2> QED
      BY <2>2, <2>3, <2>4, <2>5, <2>6, StartKept
  <1>3. CASE DistributionFails(w)
    <2>1. Forward /\ Timely /\ \A v \in Worker : Leaves(v)
      BY <1>3, StartQuiet DEF DistributionFails, TypeOK
    <2>2. todo' \subseteq todo /\ open' = open
      BY <1>3 DEF DistributionFails
    <2> QED
      BY <2>1, <2>2, StartKept
  <1>4. CASE StartMissed(w)
    <2>1. Forward /\ Timely /\ \A v \in Worker : Leaves(v)
      BY <1>4, StartQuiet DEF StartMissed, TypeOK
    <2>2. todo' = todo /\ open' = open
      BY <1>4 DEF StartMissed
    <2> QED
      BY <2>1, <2>2, StartKept
  <1> QED
    BY <1>1, <1>2, <1>3, <1>4

LEMMA StartPhases ==
  ASSUME TypeOK, ResultsInv, StartInv, SendStarts \/ Listen \/ GiveUp
  PROVE  StartInv'
  <1> USE Parties
  <1>1. CASE SendStarts
    <2>1. \A w \in Worker : dist[w] = "created" /\ dist'[w] = "starting"
      BY <1>1 DEF SendStarts
    <2>2. /\ phase = "sending" /\ phase' = "starting"
          /\ UNCHANGED <<row, open, job, manual>>
      BY <1>1 DEF SendStarts
    <2>3. \A w \in Worker : Exists(w)
      BY <2>1, <2>2 DEF StartInv, There
    <2>4. Forward
      BY <2>2 DEF Forward, Settled, Exists
    <2>5. Timely
      BY <2>1, <2>2, <2>3 DEF Timely
    <2>6. \A w \in Worker : Leaves(w)
      BY <2>1, <2>2 DEF Leaves, WaitsNext, Waits
    <2>7. \A k \in todo' : k \in todo \/ Follows(k)
      <3>1. \A k \in todo' : k \in todo \/ \E w \in Worker :
                               k = CallAt(w, "start", "none", w)
        BY <1>1 DEF SendStarts
      <3>2. \A w \in Worker : Follows(CallAt(w, "start", "none", w))
        BY <2>2, <2>3, CallType DEF Follows, ReadyNext, Outcome, Exists
      <3> QED
        BY <3>1, <3>2
    <2> QED
      BY <2>2, <2>4, <2>5, <2>6, <2>7, StartKept
  <1>2. CASE Listen
    <2> DEFINE k == CallAt(Initiator, "start", "none", Initiator)
    <2>1. k \in Call /\ k.do = "start" /\ k.at = Initiator
      BY CallType
    <2>2. /\ phase = "starting" /\ phase' = "listening" /\ Load(k)
          /\ UNCHANGED <<row, todo, dist, job, manual>>
          /\ \A w \in Worker : dist[w] = "running"
      BY <1>2 DEF Listen
    <2> HIDE DEF k
    <2>3. \A w \in Worker : Exists(w)
      BY <2>2 DEF StartInv, There
    <2>4. ~manual' => \A w \in Worker : job'[w] # "none"
      BY <2>2 DEF StartInv, InOrder
    <2>5. Forward
      BY <2>2 DEF Forward, Settled, Exists
    <2>6. Timely
      BY <2>2, <2>4 DEF Timely, SettledNext
    <2>7. \A w \in Worker : Leaves(w)
      BY <2>2 DEF Leaves, WaitsNext, Waits
    <2>8. Follows(k)
      BY <2>1, <2>2, <2>3, <2>4 DEF Follows, ReadyNext, Outcome, Exists
    <2> QED
      BY <2>1, <2>2, <2>5, <2>6, <2>7, <2>8, LoadFollows, StartKept
  <1>3. CASE GiveUp
    <2> DEFINE k == CallAt(Initiator, "status", "failed", Initiator)
    <2>1. k \in Call /\ k.do = "status" /\ k.at = Initiator
      BY CallType
    <2>2. /\ phase # "none" /\ phase' = "failed" /\ Load(k)
          /\ UNCHANGED <<row, todo, dist, job, manual>>
          /\ \A w \in Worker : dist[w] # "starting"
      BY <1>3 DEF GiveUp
    <2> HIDE DEF k
    <2>3. Forward /\ Timely /\ \A v \in Worker : Leaves(v)
      BY <2>2, StartQuiet
    <2>4. Follows(k)
      BY <2>1, <2>2 DEF Follows, ReadyNext, SettledNext
    <2> QED
      BY <2>1, <2>2, <2>3, <2>4, LoadFollows, StartKept
  <1> QED
    BY <1>1, <1>2, <1>3

LEMMA StartMessages ==
  ASSUME TypeOK, ResultsInv, StartInv, NEW k \in todo,
         Receive(k) \/ Tell(k) \/ CallFails(k)
  PROVE  StartInv'
  <1> USE Parties
  <1>0. /\ k \in Call /\ k.at \in Participant /\ CallShape(k) /\ Ready(k)
        /\ k.do \in {"start", "signal", "tell"}
        /\ k.do = "start" => k.at \in Worker
    BY Typed DEF ResultsInv, Shapes, StartInv, CallsReady
  <1>1. CASE Receive(k)
    <2>1. /\ Load(k) /\ todo' \subseteq todo
          /\ UNCHANGED <<row, phase, job, manual>>
      BY <1>1 DEF Receive
    <2>2. ASSUME NEW w \in Worker, dist'[w] # dist[w]
          PROVE  dist'[w] = "running" /\ (~manual' => job'[w] # "none")
      <3>1. /\ k.do = "start" /\ k.at = w /\ dist[w] = "starting"
            /\ Ignored(k) /\ dist'[w] = "running"
        BY <1>1, <2>2 DEF Receive, Answered, TypeOK
      <3>2. Exists(w)
        BY <1>0, <3>1 DEF Ready
      <3>3. row[w].status \notin {"none", "pending"}
        BY <3>1, <3>2 DEF Ignored, Exists
      <3>4. ~manual => job[w] # "none"
        BY <3>1, <3>3 DEF StartInv, InOrder, Waiting, Waits
      <3> QED
        BY <2>1, <3>1, <3>4
    <2>3. Forward /\ Timely /\ \A v \in Worker : Leaves(v)
      BY <2>1, <2>2, StartQuiet
    <2>4. Follows(k)
      <3>1. ReadyNext(k)
        BY <1>0, <2>3, ReadyLasts
      <3>2. ~manual' /\ Outcome(k) => SettledNext
        BY <2>1, <2>3 DEF StartInv, InOrder, Forward
      <3> QED
        BY <3>1, <3>2 DEF Follows
    <2> QED
      BY <1>0, <2>1, <2>3, <2>4, LoadFollows, StartKept
  <1>2. CASE Tell(k)
    <2> DEFINE j == CallAt(Initiator, "report", k.arg, k.at)
    <2>1. /\ todo' \subseteq todo /\ k.do = "tell"
          /\ UNCHANGED <<row, phase, dist, job, manual>>
      BY <1>2 DEF Tell
    <2>2. Forward /\ Timely /\ \A v \in Worker : Leaves(v)
      BY <2>1, StartQuiet
    <2>3. CASE k.at = Initiator \/ (xfer[k.at] = "started"
                                     /\ phase = "listening")
      <3>1. Load(j)
        BY <1>2, <2>3 DEF Tell
      <3>2. j \in Call /\ j.do = "report" /\ j.at = Initiator
        BY <1>0, <2>1, CallType DEF CallShape
      <3>3. ~manual => Settled
        BY <2>1, <2>3 DEF StartInv, InOrder, Outcome
      <3>4. Follows(j)
        <4> HIDE DEF j
        <4> QED
          BY <2>1, <2>2, <3>2, <3>3 DEF Follows, ReadyNext, Forward
      <3> HIDE DEF j
      <3> QED
        BY <2>1, <2>2, <3>1, <3>2, <3>4, LoadFollows, StartKept
    <2>4. CASE ~(k.at = Initiator \/ (xfer[k.at] = "started"
                                       /\ phase = "listening"))
      <3>1. open' = open
        BY <1>2, <2>4 DEF Tell
      <3> QED
        BY <2>1, <2>2, <3>1, StartKept
    <2> QED
      BY <2>3, <2>4
  <1>3. CASE CallFails(k)
    <2>1. /\ todo' \subseteq todo
          /\ UNCHANGED <<row, open, phase, dist, job, manual>>
      BY <1>3 DEF CallFails
    <2>2. Forward /\ Timely /\ \A v \in Worker : Leaves(v)
      BY <2>1, StartQuiet
    <2> QED
      BY <2>1, <2>2, StartKept
  <1> QED
    BY <1>1, <1>2, <1>3

\* A handler that saves: rows stay, and the phase.
LEMMA StartSaved ==
  ASSUME TypeOK, ResultsInv, StartInv, NEW o \in open,
         \/ SaveLink(o) \/ SaveStart(o) \/ SaveStatus(o)
         \/ SaveReport(o) \/ SaveOutcome(o) \/ SaveSignal(o),
         \A p \in Participant : job[p] # "none" => job'[p] # "none",
         \A w \in Worker : dist'[w] # dist[w] => dist'[w] # "starting"
  PROVE  Forward /\ manual' = manual /\ Follows(o.call)
  <1>1. phase' = phase /\ manual' = manual
    BY DEF SaveLink, SaveStart, SaveStatus, SaveReport, SaveOutcome,
           SaveSignal, apart
  <1>2. Forward
    BY <1>1, KnownSaved DEF Forward, Exists, Settled, SettledNext
  <1>3. ReadyNext(o.call)
    BY <1>2, ReadyLasts, OpenFacts DEF StartInv, CallsReady
  <1>4. ~manual' /\ Outcome(o.call) => SettledNext
    BY <1>1, <1>2 DEF StartInv, InOrder, Forward
  <1> QED
    BY <1>1, <1>2, <1>3, <1>4 DEF Follows

\* A link saves the status that was loaded, which a worker that waits may save.
LEMMA StartLink ==
  ASSUME TypeOK, ResultsInv, StartInv, NEW o \in open, SaveLink(o)
  PROVE  StartInv'
  <1> USE Parties, OpenFacts
  <1> DEFINE p == o.call.at
             r == [o.copy EXCEPT !.links = @ \cup ({o.call.of} \cap Worker)]
  <1>1. /\ UNCHANGED <<phase, job, todo, manual>> /\ open' \subseteq open
        /\ \A q \in Participant : q # p => row'[q] = row[q]
    BY DEF SaveLink, Save, Done, apart, TypeOK
  <1>2. row'[p].status = o.copy.status
    <2>1. r \in Row /\ r.status = o.copy.status
      BY DEF Row
    <2> QED
      BY <2>1, SaveType DEF SaveLink
  <1>3. \A w \in Worker : dist'[w] = dist[w] \/ dist'[w] = "linked"
    BY DEF SaveLink
  <1>4. Forward
    BY <1>1, <1>3, StartSaved
  <1>5. Timely
    BY <1>1, <1>3 DEF Timely
  <1>6. ASSUME NEW w \in Worker PROVE Leaves(w)
    <2>1. WaitsNext(w) => Waits(w) /\ job[w] = "none" /\ ~manual
      BY <1>1, <1>3 DEF WaitsNext, Waits
    <2>2. w = p /\ WaitsNext(w) => o.copy.status \in {"none", "pending"}
      BY <2>1 DEF StartInv, InOrder, Waiting
    <2> QED
      BY <1>1, <1>2, <2>1, <2>2 DEF Leaves
  <1> HIDE DEF p
  <1> QED
    BY <1>1, <1>4, <1>5, <1>6, StartKept

\* Handlers of the initiator.
LEMMA StartInitiator ==
  ASSUME TypeOK, ResultsInv, StartInv, NEW o \in open,
         SaveReport(o) \/ SaveOutcome(o)
  PROVE  StartInv'
  <1> USE Parties, OpenFacts
  <1>1. o.call.at = Initiator
    BY DEF SaveReport, SaveOutcome, Handler, CallShape
  <1>2. /\ phase' = phase
        /\ \A w \in Worker : row'[w] = row[w]
        /\ dist' = dist
    BY DEF SaveReport, SaveOutcome, Save, apart, TypeOK
  <1>3. \A p \in Participant : job[p] # "none" <=> job'[p] # "none"
    <2>1. CASE SaveOutcome(o)
      <3>1. StopJob(Initiator, Outcomes(o))
        BY <2>1 DEF SaveOutcome, Outcomes
      <3>2. Outcomes(o) \in {"completed", "error"}
        BY OutcomeType DEF ResultsInv
      <3> QED
        BY <3>1, <3>2, StopJobType
    <2> QED
      BY <2>1 DEF SaveReport
  <1>4. Forward /\ manual' = manual /\ Follows(o.call)
    BY <1>2, <1>3, StartSaved
  <1>5. Timely
    BY <1>2, <1>3 DEF Timely
  <1>6. \A w \in Worker : Leaves(w)
    BY <1>2, <1>3 DEF Leaves, WaitsNext, Waits
  <1>7. \A k \in todo' : k \in todo \/ Follows(k)
    <2>1. CASE SaveOutcome(o)
      <3>1. \A k \in todo' : k \in todo \/ \E w \in Worker :
                               k = CallAt(w, "signal", Outcomes(o), w)
        BY <2>1, RowParts DEF SaveOutcome, Outcomes
      <3>2. Outcomes(o) \in {"completed", "error"}
        BY OutcomeType DEF ResultsInv
      <3>3. ~manual' => SettledNext
        <4>1. ~manual => o.call.do = "report"
          BY <2>1 DEF SaveOutcome, Handler, CallShape
        <4> QED
          BY <1>4, <4>1 DEF Follows, Outcome
      <3>4. ASSUME NEW w \in Worker, NEW b \in {"completed", "error"}
            PROVE  Follows(CallAt(w, "signal", b, w))
        <4>1. CallAt(w, "signal", b, w).do = "signal"
          BY DEF CallAt
        <4> QED
          BY <3>3, <4>1 DEF Follows, ReadyNext
      <3> QED
        BY <3>1, <3>2, <3>4
    <2> QED
      BY <2>1 DEF SaveReport, apart
  <1>8. \A q \in open' : q \in open \/ q.call = o.call
    <2>1. CASE SaveReport(o)
      <3>1. PICK r : open' \subseteq open \cup {Opened(o.call, r, "sum up")}
        BY <2>1 DEF SaveReport
      <3>2. Opened(o.call, r, "sum up").call = o.call
        BY DEF Opened
      <3> QED
        BY <3>1, <3>2
    <2> QED
      BY <2>1 DEF SaveOutcome, Done
  <1> QED
    BY <1>1, <1>4, <1>5, <1>6, <1>7, <1>8, StartKept

\* Handlers of a participant's own status.
LEMMA StartOwn ==
  ASSUME TypeOK, ResultsInv, StartInv, NEW o \in open,
         SaveStart(o) \/ SaveStatus(o) \/ SaveSignal(o)
  PROVE  StartInv'
  <1> USE Parties, OpenFacts
  <1> DEFINE p == o.call.at
  <1>1. /\ phase' = phase /\ p \in Participant
        /\ \A q \in Participant : q # p => row'[q] = row[q]
        /\ open' \subseteq open /\ Ready(o.call)
    BY DEF SaveStart, SaveStatus, SaveSignal, Save, Done, apart, TypeOK,
           StartInv, CallsReady
  <1>2. CASE SaveStart(o)
    <2>1. /\ o.call.do = "start" /\ job'[p] # "none" /\ todo' = todo
          /\ \A q \in Participant : q # p => job'[q] = job[q]
      BY <1>1, <1>2 DEF SaveStart, Handler, TypeOK
    <2>2. \A w \in Worker :
            dist'[w] = dist[w] \/ (dist'[w] = "running" /\ w = p)
      BY <1>2 DEF SaveStart, Answered, TypeOK
    <2>3. Forward /\ manual' = manual /\ Follows(o.call)
      BY <1>2, <2>1, <2>2, StartSaved
    <2>4. phase \notin {"none", "sending"} /\ \A w \in Worker : Exists(w)
      BY <1>1, <2>1 DEF Ready
    <2>5. p = Initiator /\ ~manual' =>
            SettledNext /\ \A w \in Worker : job'[w] # "none"
      <3>1. p = Initiator => phase = "listening"
        BY <2>1
      <3> QED
        BY <2>3, <3>1 DEF StartInv, InOrder, Forward
    <2>6. Timely
      BY <1>1, <2>1, <2>2, <2>4, <2>5 DEF Timely
    <2>7. \A w \in Worker : Leaves(w)
      BY <1>1, <2>1, <2>2 DEF Leaves, WaitsNext, Waits
    <2> HIDE DEF p
    <2> QED
      BY <1>1, <2>1, <2>3, <2>6, <2>7, StartKept
  <1>3. CASE SaveStatus(o)
    <2> DEFINE k == CallAt(p, "tell", o.call.arg, p)
    <2>1. /\ o.call.do = "status" /\ job' = job /\ dist' = dist
          /\ todo' = todo \cup {k}
      BY <1>3 DEF SaveStatus, Handler
    <2>2. k \in Call /\ k.do = "tell" /\ k.at = p
      <3>1. o.call.arg \in JobResult
        BY <2>1 DEF CallShape
      <3> QED
        BY <1>1, <3>1 DEF CallAt, Call
    <2> HIDE DEF k
    <2>3. Forward /\ manual' = manual /\ Follows(o.call)
      BY <1>3, <2>1, StartSaved
    <2>4. Timely
      BY <1>1, <2>1 DEF Timely
    <2>5. p \in Worker => job[p] # "none"
      BY <1>1, <2>1 DEF Ready
    <2>6. \A w \in Worker : Leaves(w)
      BY <1>1, <2>1, <2>3, <2>5 DEF Leaves, WaitsNext, Waits
    <2>7. Follows(k)
      BY <2>1, <2>2, <2>3, <2>5 DEF Follows, ReadyNext, Outcome
    <2> HIDE DEF p
    <2> QED
      BY <1>1, <2>1, <2>3, <2>4, <2>6, <2>7, StartKept
  <1>4. CASE SaveSignal(o)
    <2>1. /\ o.call.do = "signal" /\ dist' = dist /\ todo' = todo
          /\ StopJob(p, o.call.arg)
      BY <1>4 DEF SaveSignal, Handler, apart
    <2>2. o.call.arg \in {"completed", "error"}
      BY <2>1 DEF CallShape
    <2>3. \A q \in Participant : job[q] # "none" <=> job'[q] # "none"
      BY <1>1, <2>1, <2>2, StopJobType
    <2>4. Forward /\ manual' = manual /\ Follows(o.call)
      BY <1>4, <2>1, <2>3, StartSaved
    <2>5. Timely
      BY <1>1, <2>1, <2>3 DEF Timely
    <2>6. \A w \in Worker : ~WaitsNext(w)
      BY <2>1, <2>4 DEF WaitsNext, Follows, Outcome, SettledNext
    <2> HIDE DEF p
    <2> QED
      BY <1>1, <2>1, <2>4, <2>5, <2>6, StartKept DEF Leaves
  <1> QED
    BY <1>2, <1>3, <1>4

LEMMA StartTrouble ==
  ASSUME TypeOK, ResultsInv, StartInv,
         \/ \E w \in Worker, to \in {"completed", "terminated"} :
              TransferEnds(w, to)
         \/ \E b \in {"completed", "error"} : Manual(b)
  PROVE  StartInv'
  <1> USE Parties
  <1>1. ASSUME NEW w \in Worker, NEW to \in {"completed", "terminated"},
               TransferEnds(w, to)
        PROVE  StartInv'
    <2> DEFINE k == CallAt(Initiator, "report", Ending(to), w)
    <2>1. UNCHANGED <<row, todo, phase, dist, job>> /\ (manual => manual')
      BY <1>1 DEF TransferEnds
    <2>2. k.do = "report" /\ k.at = Initiator
      BY DEF CallAt
    <2>3. \A o \in open' : \/ o \in open
                           \/ phase = "listening" /\ o.call = k
      BY <1>1 DEF TransferEnds, Opened, Ending
    <2> HIDE DEF k
    <2>4. Forward /\ Timely /\ \A v \in Worker : Leaves(v)
      BY <2>1, StartQuiet
    <2>5. phase = "listening" => Follows(k)
      BY <2>1, <2>2, <2>4
         DEF Follows, ReadyNext, StartInv, InOrder, Forward
    <2> QED
      BY <2>1, <2>2, <2>3, <2>4, <2>5, StartKept
  <1>2. ASSUME NEW b \in {"completed", "error"}, Manual(b) PROVE StartInv'
    <2> DEFINE k == CallAt(Initiator, "manual", b, Initiator)
    <2>1. UNCHANGED <<row, todo, phase, dist, job>> /\ manual'
      BY <1>2 DEF Manual
    <2>2. k.do = "manual" /\ k.at = Initiator
      BY CallType
    <2>3. \A o \in open' : o \in open \/ o.call = k
      BY <1>2 DEF Manual, Opened
    <2> HIDE DEF k
    <2>4. Forward /\ Timely /\ \A v \in Worker : Leaves(v)
      BY <2>1, StartQuiet
    <2>5. Follows(k)
      BY <2>1, <2>2 DEF Follows, ReadyNext
    <2> QED
      BY <2>1, <2>2, <2>3, <2>4, <2>5, StartKept
  <1> QED
    BY <1>1, <1>2

\* A job runs, so all have been sent the instance.
LEMMA StartEvent ==
  ASSUME TypeOK, StartInv, NEW p \in Participant, NEW q \in Participant,
         EventLinks(p, q)
  PROVE  StartInv'
  <1> USE Parties
  <1> DEFINE k == CallAt(p, "link", "none", q)
  <1>1. UNCHANGED <<row, todo, phase, dist, job, manual>>
    BY DEF EventLinks
  <1>2. k.do = "link" /\ k.at = p
    BY DEF CallAt
  <1>3. open' = open \cup {Opened(k, row[p], "save")}
    BY DEF EventLinks
  <1> HIDE DEF k
  <1>4. Forward /\ Timely /\ \A v \in Worker : Leaves(v)
    BY <1>1, StartQuiet
  <1>5. phase \notin {"none", "sending"}
    BY DEF EventLinks, StartInv, There
  <1>6. Follows(k)
    BY <1>1, <1>2, <1>5 DEF Follows, ReadyNext, Outcome
  <1>7. \A o \in open' : \/ o \in open
                         \/ o.call = k /\ o.copy = row[p]
    BY <1>3 DEF Opened
  <1> QED
    BY <1>1, <1>2, <1>4, <1>6, <1>7, StartKept

LEMMA StartJobs ==
  ASSUME TypeOK, ResultsInv, StartInv, NEW p \in Participant,
         NEW r \in {"succeeded", "failed"},
         \/ Spawn(p) \/ JobEnds(p, r) \/ PollBegins(p) \/ PollEnds(p)
         \/ Restart(p)
  PROVE  StartInv'
  <1> USE Parties
  <1>1. CASE Spawn(p) \/ JobEnds(p, r) \/ PollEnds(p)
    <2>1. /\ \A q \in Participant : job[q] # "none" <=> job'[q] # "none"
          /\ UNCHANGED <<row, todo, open, phase, dist, manual>>
      BY <1>1 DEF Spawn, JobEnds, PollEnds, TypeOK
    <2>2. Forward /\ Timely /\ \A w \in Worker : Leaves(w)
      BY <2>1, StartQuiet
    <2> QED
      BY <2>1, <2>2, StartKept
  <1>2. CASE PollBegins(p)
    <2>1. /\ UNCHANGED <<row, todo, phase, dist, job, manual>>
          /\ \/ open' = open
             \/ \E b \in JobResult :
                  job[p] # "none" /\ Load(CallAt(p, "status", b, p))
      BY <1>2 DEF PollBegins
    <2>2. Forward /\ Timely /\ \A w \in Worker : Leaves(w)
      BY <2>1, StartQuiet
    <2>3. CASE open' = open
      BY <2>1, <2>2, <2>3, StartKept
    <2>4. ASSUME NEW b \in JobResult, job[p] # "none",
                 Load(CallAt(p, "status", b, p))
          PROVE  StartInv'
      <3> DEFINE k == CallAt(p, "status", b, p)
      <3>1. k \in Call /\ k.do = "status" /\ k.at = p
        BY CallType
      <3> HIDE DEF k
      <3>2. Load(k)
        BY <2>4 DEF k
      <3>3. p = Initiator /\ ~manual => Settled
        BY <2>4 DEF StartInv, InOrder
      <3>4. Follows(k)
        BY <2>1, <2>2, <2>4, <3>1, <3>3
           DEF Follows, ReadyNext, Outcome, Forward
      <3> QED
        BY <2>1, <2>2, <3>1, <3>2, <3>4, LoadFollows, StartKept
    <2> QED
      BY <2>1, <2>3, <2>4
  <1>3. CASE Restart(p)
    <2>1. \A q \in Participant : job[q] # "none" <=> job'[q] # "none"
      BY <1>3 DEF Restart, TypeOK
    <2>2. /\ UNCHANGED <<row, manual>>
          /\ todo' \subseteq todo /\ open' \subseteq open
          /\ \/ phase' = phase
             \/ phase # "none" /\ phase' = "stopped"
          /\ \A w \in Worker : dist'[w] = dist[w] \/ dist'[w] = "failed"
      BY <1>3 DEF Restart, TypeOK
    <2>3. Forward /\ Timely /\ \A w \in Worker : Leaves(w)
      BY <2>1, <2>2, StartQuiet
    <2> QED
      BY <2>2, <2>3, StartKept
  <1> QED
    BY <1>1, <1>2, <1>3

LEMMA StartNext ==
  TypeOK /\ ResultsInv /\ StartInv /\ [Next]_vars => StartInv'
  <1> SUFFICES ASSUME TypeOK, ResultsInv, StartInv, [Next]_vars
               PROVE  StartInv'
    OBVIOUS
  <1>1. CASE UNCHANGED vars
    <2>1. Forward /\ Timely /\ \A w \in Worker : Leaves(w)
      BY <1>1, StartQuiet DEF vars
    <2> QED
      BY <1>1, <2>1, StartKept DEF vars
  <1>2. CASE Next
    <2>1. ASSUME Create \/ SendStarts \/ Listen \/ GiveUp PROVE StartInv'
      BY <2>1, StartCreate, StartPhases
    <2>2. ASSUME NEW w \in Worker,
                 \/ TransferStarts(w) \/ SendCreate(w)
                 \/ DistributionFails(w) \/ StartMissed(w)
          PROVE  StartInv'
      BY <2>2, StartDistribution
    <2>3. ASSUME NEW k \in todo, Receive(k) \/ Tell(k) \/ CallFails(k)
          PROVE  StartInv'
      BY <2>3, StartMessages
    <2>4. ASSUME NEW o \in open,
                 \/ SaveLink(o) \/ SaveStart(o) \/ SaveStatus(o)
                 \/ SaveReport(o) \/ SaveOutcome(o) \/ SaveSignal(o)
          PROVE  StartInv'
      BY <2>4, StartLink, StartInitiator, StartOwn
    <2>5. ASSUME NEW p \in Participant, NEW r \in {"succeeded", "failed"},
                 \/ Spawn(p) \/ JobEnds(p, r) \/ PollBegins(p) \/ PollEnds(p)
                 \/ Restart(p)
          PROVE  StartInv'
      BY <2>5, StartJobs
    <2>6. ASSUME NEW b \in {"completed", "error"}, Manual(b) PROVE StartInv'
      BY <2>6, StartTrouble
    <2>7. ASSUME NEW w \in Worker, NEW to \in {"completed", "terminated"},
                 TransferEnds(w, to)
          PROVE  StartInv'
      BY <2>7, StartTrouble
    <2>8. ASSUME NEW p \in Participant, NEW q \in Participant,
                 EventLinks(p, q)
          PROVE  StartInv'
      BY <2>8, StartEvent
    <2> QED
      BY <1>2, <2>1, <2>2, <2>3, <2>4, <2>5, <2>6, <2>7, <2>8
         DEF Next, Progress
  <1> QED
    BY <1>1, <1>2

\* StartsTogether: no job starts before every worker has the instance, the
\* initiator's own not before every worker's, for any number of workers, and
\* whatever overlaps, fails or restarts, unless a user sets the outcome or
\* completes a transfer.
THEOREM StartedTogether == Spec => []StartsTogether
  <1>1. StartInv => StartsTogether
    BY DEF StartInv, There, InOrder, StartsTogether
  <1>2. Spec => []StartInv
    BY AlgorithmInvariant, StartInit, StartNext, PTL DEF Spec
  <1> QED
    BY <1>1, <1>2, PTL
=============================================================================
