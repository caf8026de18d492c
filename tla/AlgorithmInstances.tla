------------------------- MODULE AlgorithmInstances -------------------------
(***************************************************************************)
(* Running an algorithm at several participants (analytics-data-plane-api, *)
(* AlgorithmInstancesService and the Docker orchestration service).        *)
(*                                                                         *)
(* The initiator creates the instance, sends it to every worker over a     *)
(* transfer, makes all of them start and starts itself.  Each participant  *)
(* runs a job, polls it and records how it ended; a worker tells the       *)
(* initiator by completing or terminating the transfer.  The initiator     *)
(* sums the results up and broadcasts the outcome.  Every handler loads    *)
(* the row, awaits and saves what it loaded; between the two, others run.  *)
(***************************************************************************)
EXTENDS Naturals, FiniteSets

CONSTANTS
  Initiator,   \* the participant that creates the instance
  Worker,      \* the other participants
  Faults,      \* FALSE: handlers may overlap, but nothing else goes wrong
  MaxTrouble   \* bound: faults, overlapping handlers and ill-timed steps

Participant == Worker \cup {Initiator}

ASSUME InitiatorAssumption == Initiator \notin Worker
ASSUME TroubleAssumption == Faults \in BOOLEAN /\ MaxTrouble \in Nat

----------------------------------------------------------------------------

JobResult == {"completed", "failed"}
Terminal == {"completed", "failed", "terminated"}
Status == {"none", "pending", "running"} \cup Terminal
Orchestration == {"none", "pending", "running", "completed", "error"}

\* AlgorithmInstanceDao: the participant's own status, the status of the whole,
\* participantStatuses and the workers whose transfers are linked.
Row == [status : Status, orch : Orchestration,
        results : [Participant -> {"none"} \cup Terminal],
        links : SUBSET Worker]

Fresh(status, orch) ==
  [status |-> status, orch |-> orch,
   results |-> [p \in Participant |-> "none"], links |-> {}]

Absent == Fresh("none", "none")

\* A call that is to be handled at a participant.  "link" and "report" are about
\* another one, whose transfer or whose job result it is.
Call == [at : Participant,
         do : {"link", "start", "status", "tell", "report", "signal", "manual"},
         arg : {"none", "completed", "failed", "error"},
         of : Participant]

\* A call that is being handled, with the row that was loaded for it.
Handling == [call : Call, copy : Row, pc : {"save", "sum up"}]

VARIABLES
  row,     \* row[p]: the instance in the database of p
  todo,    \* the messages, and results to pass on, nobody has begun to handle
  open,    \* those being handled, with the row the handler loaded
  phase,   \* how far the initiator has come with the distribution
  dist,    \* dist[w]: how far it has come with w
  xfer,    \* xfer[w]: the state of the transfer with w
  job,     \* job[p]: p's container
  follow,  \* follow[p]: p polls its job (followingJobStatus)
  poll,    \* poll[p]: the round of p's poll, by what it began with
  manual,  \* history: a user has set the outcome
  trouble  \* the faults, overlapping handlers and ill-timed steps so far

vars == <<row, todo, open, phase, dist, xfer, job, follow, poll, manual, trouble>>

\* What the handlers of the instance's row leave alone.
apart == <<phase, xfer, poll, manual, trouble>>

TypeOK ==
  /\ row \in [Participant -> Row]
  /\ todo \subseteq Call
  /\ open \subseteq Handling
  /\ phase \in {"none", "sending", "starting", "listening", "failed", "stopped"}
  /\ dist \in [Worker -> {"none", "asked", "linking", "linked", "created",
                          "starting", "running", "failed", "missed"}]
  /\ xfer \in [Worker -> {"none", "started", "completed", "terminated"}]
  /\ job \in [Participant -> {"none", "spawning", "running", "succeeded",
                              "failed", "stopped", "lost"}]
  /\ follow \in [Participant -> BOOLEAN]
  /\ poll \in [Participant -> {"idle", "reporting", "with", "without"}]
  /\ manual \in BOOLEAN /\ trouble \in Nat

Init ==
  /\ row = [p \in Participant |-> Absent]
  /\ todo = {} /\ open = {}
  /\ phase = "none"
  /\ dist = [w \in Worker |-> "none"]
  /\ xfer = [w \in Worker |-> "none"]
  /\ job = [p \in Participant |-> "none"]
  /\ follow = [p \in Participant |-> FALSE]
  /\ poll = [p \in Participant |-> "idle"]
  /\ manual = FALSE /\ trouble = 0

CallAt(p, do, arg, of) == [at |-> p, do |-> do, arg |-> arg, of |-> of]

Busy(p) == \/ \E k \in todo : k.at = p
           \/ \E o \in open : o.call.at = p

Save(p, r) == row' = [row EXCEPT ![p] = r]

\* Something out of the ordinary happens.
Trouble == trouble < MaxTrouble /\ trouble' = trouble + 1
Fault == Faults /\ Trouble

Exists(p) == row[p].status # "none"

Opened(k, r, pc) == [call |-> k, copy |-> r, pc |-> pc]

\* The early returns, by the row that was loaded: no row, a status that is final
\* or an instance that has been started.
Ignored(k) ==
  \/ ~Exists(k.at)
  \/ k.do = "status" /\ row[k.at].status \in Terminal
  \/ k.do = "start" /\ row[k.at].status # "pending"

\* A handler begins: it loads the row.  Others of the participant may be open.
Load(k) ==
  /\ open' = IF Ignored(k) THEN open
             ELSE open \cup {Opened(k, row[k.at], "save")}
  /\ IF \E o \in open : o.call.at = k.at THEN Trouble ELSE UNCHANGED trouble

----------------------------------------------------------------------------
(* Distribution: createAlgorithmInstance, distributeAlgorithmInstance.      *)

Create ==
  /\ phase = "none" /\ phase' = "sending"
  /\ Save(Initiator, Fresh("pending", "pending"))
  /\ dist' = [w \in Worker |-> "asked"]
  /\ UNCHANGED <<todo, open, xfer, job, follow, poll, manual, trouble>>

\* The transfer with w is negotiated, requested and started.
TransferStarts(w) ==
  /\ phase = "sending" /\ dist[w] = "asked"
  /\ dist' = [dist EXCEPT ![w] = "linking"]
  /\ xfer' = [xfer EXCEPT ![w] = "started"]
  /\ Load(CallAt(Initiator, "link", "none", w))
  /\ UNCHANGED <<row, todo, phase, job, follow, poll, manual>>

\* The transfer is started before the initiator, which requests it and then reads
\* its own database, listens for that: the distribution waits for ever.
StartMissed(w) ==
  /\ phase = "sending" /\ dist[w] = "asked"
  /\ dist' = [dist EXCEPT ![w] = "missed"]
  /\ xfer' = [xfer EXCEPT ![w] = "started"]
  /\ UNCHANGED <<row, todo, open, phase, job, follow, poll, manual, trouble>>

\* sendCreateSignal; the worker stores the instance and accepts.
SendCreate(w) ==
  /\ phase = "sending" /\ dist[w] = "linked"
  /\ Save(w, Fresh("pending", "pending"))
  /\ dist' = [dist EXCEPT ![w] = "created"]
  /\ UNCHANGED <<todo, open, phase, xfer, job, follow, poll, manual, trouble>>

\* Every worker has the instance: all are told to start.
SendStarts ==
  /\ phase = "sending" /\ phase' = "starting"
  /\ \A w \in Worker : dist[w] = "created"
  /\ dist' = [w \in Worker |-> "starting"]
  /\ todo' = todo \cup {CallAt(w, "start", "none", w) : w \in Worker}
  /\ UNCHANGED <<row, open, xfer, job, follow, poll, manual, trouble>>

\* Mutant: the answers are not awaited.
ListenEarly ==
  /\ phase = "starting" /\ phase' = "listening"
  /\ Load(CallAt(Initiator, "start", "none", Initiator))
  /\ UNCHANGED <<row, todo, dist, xfer, job, follow, poll, manual>>

\* All have answered: the initiator listens to the transfers and starts itself.
Listen ==
  /\ phase = "starting" /\ phase' = "listening"
  /\ \A w \in Worker : dist[w] = "running"
  /\ Load(CallAt(Initiator, "start", "none", Initiator))
  /\ UNCHANGED <<row, todo, dist, xfer, job, follow, poll, manual>>

\* The transfer, a signal or its response fails; a signal that failed may have
\* been handled, or be handled yet.
DistributionFails(w) ==
  /\ Fault
  /\ phase \in {"sending", "starting"}
  /\ dist[w] \in {"asked", "linked", "created", "starting"}
  /\ dist' = [dist EXCEPT ![w] = "failed"]
  /\ \/ UNCHANGED todo
     \/ todo' = todo \ {CallAt(w, "start", "none", w)}
  /\ UNCHANGED <<row, open, phase, xfer, job, follow, poll, manual>>

\* All signals are settled and one has failed: the instance is marked failed.
GiveUp ==
  /\ \/ /\ phase = "sending"
        /\ \A w \in Worker : dist[w] \in {"failed", "created"}
     \/ /\ phase = "starting"
        /\ \A w \in Worker : dist[w] \in {"failed", "running"}
  /\ \E w \in Worker : dist[w] = "failed"
  /\ phase' = "failed"
  /\ Load(CallAt(Initiator, "status", "failed", Initiator))
  /\ UNCHANGED <<row, todo, dist, xfer, job, follow, poll, manual>>

----------------------------------------------------------------------------
(* The handlers of an instance's row.                                       *)

\* A start is answered: the initiator counts the worker as running.
Answered(k) ==
  IF k.do = "start" /\ k.at \in Worker /\ dist[k.at] = "starting"
    THEN dist' = [dist EXCEPT ![k.at] = "running"] ELSE UNCHANGED dist

\* A message arrives.
Receive(k) ==
  /\ k \in todo /\ k.do # "tell"
  /\ todo' = todo \ {k}
  /\ Load(k)
  /\ IF Ignored(k) THEN Answered(k) ELSE UNCHANGED dist
  /\ UNCHANGED <<row, phase, xfer, job, follow, poll, manual>>

\* The handler o, of the given kind, saves its copy and is done.
Handler(o, do) == o \in open /\ o.call.do = do /\ o.pc = "save"
Done(o) == open' = open \ {o}

\* linkTransfer, for the distribution or for an event.
SaveLink(o) ==
  LET p == o.call.at IN
  /\ Handler(o, "link") /\ Done(o)
  /\ Save(p, [o.copy EXCEPT !.links = @ \cup ({o.call.of} \cap Worker)])
  /\ dist' = [w \in Worker |->
       IF p = Initiator /\ w = o.call.of /\ dist[w] = "linking"
         THEN "linked" ELSE dist[w]]
  /\ UNCHANGED <<todo, job, follow, apart>>

\* startAlgorithmInstance: the row is saved as running and the job is spawned.
SaveStart(o) ==
  LET p == o.call.at IN
  /\ Handler(o, "start") /\ Done(o)
  /\ Save(p, [o.copy EXCEPT !.status = "running",
                !.orch = IF @ = "pending" THEN "running" ELSE @])
  /\ job' = [job EXCEPT ![p] = IF @ = "none" THEN "spawning" ELSE @]
  /\ Answered(o.call)
  /\ UNCHANGED <<todo, follow, apart>>

\* Mutant: a worker's result is not passed on.
SaveStatusUntold(o) ==
  LET p == o.call.at IN
  /\ Handler(o, "status") /\ Done(o)
  /\ Save(p, [o.copy EXCEPT !.status = o.call.arg])
  /\ todo' = todo \cup {CallAt(q, "tell", o.call.arg, q) : q \in {p} \ Worker}
  /\ UNCHANGED <<dist, job, follow, apart>>

\* updateStatus with a job's result, which propagateJobResult will pass on.
SaveStatus(o) ==
  LET p == o.call.at IN
  /\ Handler(o, "status") /\ Done(o)
  /\ Save(p, [o.copy EXCEPT !.status = o.call.arg])
  /\ todo' = todo \cup {CallAt(p, "tell", o.call.arg, p)}
  /\ UNCHANGED <<dist, job, follow, apart>>

\* propagateJobResult.  The initiator records its own result.  A worker completes
\* or terminates the transfer, if it is still running; the initiator records
\* that if it listens.
Tell(k) ==
  LET p == k.at
      to == IF k.arg = "completed" THEN "completed" ELSE "terminated" IN
  /\ k \in todo /\ k.do = "tell"
  /\ todo' = todo \ {k}
  /\ IF p = Initiator \/ (xfer[p] = "started" /\ phase = "listening")
       THEN Load(CallAt(Initiator, "report", k.arg, p))
       ELSE UNCHANGED <<open, trouble>>
  /\ xfer' = [w \in Worker |->
       IF w = p /\ xfer[w] = "started" THEN to ELSE xfer[w]]
  /\ UNCHANGED <<row, phase, dist, job, follow, poll, manual>>

Reported(r) == {p \in Participant : r.results[p] # "none"}
SomeFailed(r) == \E p \in Participant : r.results[p] = "failed"

\* Mutant: it is decided when all workers have reported.
DecidedByWorkers(r) == SomeFailed(r) \/ Worker \subseteq Reported(r)

\* evaluateOrchestrationStatus has something to sum up.
Decided(r) == SomeFailed(r) \/ Reported(r) = Participant

\* handleTransferStateChange, recordOwnJobResult: the result is saved; the same
\* copy is then summed up.
SaveReport(o) ==
  LET results == [o.copy.results EXCEPT ![o.call.of] = o.call.arg]
      r == [o.copy EXCEPT !.results = results] IN
  /\ Handler(o, "report")
  /\ Save(Initiator, r)
  /\ open' = (open \ {o}) \cup
       (IF Decided(r) THEN {Opened(o.call, r, "sum up")} ELSE {})
  /\ UNCHANGED <<todo, dist, job, follow, apart>>

\* What an outcome does to a row that is not final, and to p's job: job.stop
\* stops a running container and the polling.
Ended(r, outcome) ==
  [r EXCEPT !.orch = outcome,
            !.status = IF outcome = "error" /\ @ \notin Terminal
                         THEN "terminated" ELSE @]

StopJob(p, outcome) ==
  IF outcome = "error"
    THEN /\ job' = [job EXCEPT ![p] = IF @ = "running" THEN "stopped" ELSE @]
         /\ follow' = [follow EXCEPT ![p] = FALSE]
    ELSE UNCHANGED <<job, follow>>

\* Mutant: they become what the whole has become.
ErrorResults(r, outcome) ==
  [p \in Participant |-> IF outcome = "error" /\ r.results[p] = "none"
                           THEN outcome ELSE r.results[p]]

\* An error makes the results that are missing "terminated".
FilledResults(r, outcome) ==
  [p \in Participant |-> IF outcome = "error" /\ r.results[p] = "none"
                           THEN "terminated" ELSE r.results[p]]

\* setOrchestrationStatus, with the outcome of the results or a user's: it is
\* saved and broadcast to the workers whose transfers are linked.
SaveOutcome(o) ==
  LET outcome == IF o.call.do = "manual" THEN o.call.arg
                 ELSE IF SomeFailed(o.copy) THEN "error" ELSE "completed" IN
  /\ \/ Handler(o, "manual")
     \/ o \in open /\ o.pc = "sum up"
  /\ Done(o)
  /\ Save(Initiator, [Ended(o.copy, outcome) EXCEPT
                        !.results = FilledResults(o.copy, outcome)])
  /\ StopJob(Initiator, outcome)
  /\ todo' = todo \cup {CallAt(w, "signal", outcome, w) : w \in o.copy.links}
  /\ UNCHANGED <<dist, apart>>

\* Mutant: the job goes on.
SaveSignalRunning(o) ==
  /\ Handler(o, "signal") /\ Done(o)
  /\ Save(o.call.at, Ended(o.copy, o.call.arg))
  /\ UNCHANGED <<todo, dist, job, follow, apart>>

\* receiveOrchestrationStatusFromPeer.
SaveSignal(o) ==
  /\ Handler(o, "signal") /\ Done(o)
  /\ Save(o.call.at, Ended(o.copy, o.call.arg))
  /\ StopJob(o.call.at, o.call.arg)
  /\ UNCHANGED <<todo, dist, apart>>

\* setOrchestrationStatusManually: an operator sets the outcome.
Manual(outcome) ==
  /\ Fault /\ phase # "none"
  /\ manual' = TRUE
  /\ open' = open \cup {Opened(CallAt(Initiator, "manual", outcome, Initiator),
                                row[Initiator], "save")}
  /\ UNCHANGED <<row, todo, phase, dist, xfer, job, follow, poll>>

\* A message to a participant, or a worker's request to end the transfer, fails;
\* the failure is only logged.
CallFails(k) ==
  /\ Fault
  /\ k \in todo /\ k.do \in {"signal", "tell"}
  /\ todo' = todo \ {k}
  /\ UNCHANGED <<row, open, phase, dist, xfer, job, follow, poll, manual>>

\* A control plane terminates the transfer, or a user of one ends it, which can
\* stand for a success that there has not been.
TransferEnds(w, to) ==
  LET result == IF to = "completed" THEN "completed" ELSE "failed" IN
  /\ Fault
  /\ xfer[w] = "started"
  /\ xfer' = [xfer EXCEPT ![w] = to]
  /\ open' = IF phase # "listening" THEN open
             ELSE open \cup {Opened(CallAt(Initiator, "report", result, w),
                                    row[Initiator], "save")}
  /\ manual' = (manual \/ to = "completed")
  /\ UNCHANGED <<row, todo, phase, dist, job, follow, poll>>

\* A job's event is for, or from, a participant with which p has no transfer yet
\* (createOwnAlgorithmEvent, createRemoteAlgorithmEvent): p links another one.
EventLinks(p, q) ==
  /\ Trouble
  /\ Exists(p) /\ p # q
  /\ \/ job[p] = "running" /\ q \notin row[p].links
     \/ job[q] = "running"
  /\ open' = open \cup {Opened(CallAt(p, "link", "none", q), row[p], "save")}
  /\ UNCHANGED <<row, todo, phase, dist, xfer, job, follow, poll, manual>>

----------------------------------------------------------------------------
(* Jobs: handleJobSpawnEvent, handleCron, onModuleInit.                     *)

\* The container has been started and its instance is put on the list; if that
\* fails, nothing more happens.
Spawn(p) ==
  /\ job[p] = "spawning"
  /\ \/ /\ job' = [job EXCEPT ![p] = "running"]
        /\ follow' = [follow EXCEPT ![p] = TRUE]
        /\ UNCHANGED trouble
     \/ /\ Fault
        /\ job' = [job EXCEPT ![p] = "lost"] /\ UNCHANGED follow
  /\ UNCHANGED <<row, todo, open, phase, dist, xfer, poll, manual>>

\* The container exits; normally when the initiator listens and every job runs.
JobEnds(p, result) ==
  /\ job[p] = "running"
  /\ IF /\ phase = "listening"
        /\ \A q \in Participant : job[q] \notin {"none", "spawning"}
       THEN UNCHANGED trouble ELSE Fault
  /\ job' = [job EXCEPT ![p] = result]
  /\ UNCHANGED <<row, todo, open, phase, dist, xfer, follow, poll, manual>>

\* A round of polling begins.  If the container has exited its result is
\* recorded, which the round awaits; other rounds matter when they overlap.
PollBegins(p) ==
  /\ poll[p] = "idle"
  /\ IF follow[p] /\ job[p] \in {"succeeded", "failed", "stopped"}
       THEN LET result == IF job[p] = "succeeded" THEN "completed" ELSE "failed"
            IN /\ poll' = [poll EXCEPT ![p] = "reporting"]
               /\ Load(CallAt(p, "status", result, p))
       ELSE /\ Fault
            /\ poll' = [poll EXCEPT ![p] = IF follow[p] THEN "with"
                                                        ELSE "without"]
            /\ UNCHANGED open
  /\ UNCHANGED <<row, todo, phase, dist, xfer, job, follow, manual>>

\* The round ends: the list becomes what it was at the beginning, without the
\* instances that have ended.
PollEnds(p) ==
  /\ poll[p] # "idle"
  /\ poll[p] = "reporting" =>
       \A o \in open : o.call.at = p => o.call.do # "status"
  /\ poll' = [poll EXCEPT ![p] = "idle"]
  /\ follow' = [follow EXCEPT ![p] = poll[p] = "with"]
  /\ UNCHANGED <<row, todo, open, phase, dist, xfer, job, manual, trouble>>

\* The process of p stops and starts again.  What it was handling, its listeners
\* and its distribution are forgotten; the instances with status running are
\* polled again.
Restart(p) ==
  /\ IF p \in Worker /\ ~Busy(p) /\ poll[p] = "idle" /\ job[p] # "spawning"
       THEN UNCHANGED trouble ELSE Fault
  /\ todo' = {k \in todo : k.at # p}
  /\ open' = {o \in open : o.call.at # p}
  /\ phase' = IF p = Initiator /\ phase # "none" THEN "stopped" ELSE phase
  /\ dist' = [w \in Worker |-> IF w = p /\ dist[w] = "starting" THEN "failed"
                                                               ELSE dist[w]]
  /\ job' = [job EXCEPT ![p] = IF @ = "spawning" THEN "lost" ELSE @]
  /\ follow' = [follow EXCEPT ![p] = row[p].status = "running"]
  /\ poll' = [poll EXCEPT ![p] = "idle"]
  /\ UNCHANGED <<row, xfer, manual>>

----------------------------------------------------------------------------

\* What the processes do by themselves.
Progress ==
  \/ \E w \in Worker : TransferStarts(w) \/ SendCreate(w)
  \/ SendStarts \/ Listen \/ GiveUp
  \/ \E k \in todo : Receive(k) \/ Tell(k)
  \/ \E o \in open : \/ SaveLink(o) \/ SaveStart(o) \/ SaveStatus(o)
                     \/ SaveReport(o) \/ SaveOutcome(o) \/ SaveSignal(o)
  \/ \E p \in Participant : PollBegins(p) \/ PollEnds(p) \/ Spawn(p)

Next ==
  \/ Create
  \/ Progress
  \/ \E p \in Participant, r \in {"succeeded", "failed"} : JobEnds(p, r)
  \/ \E outcome \in {"completed", "error"} : Manual(outcome)
  \/ \E w \in Worker : StartMissed(w) \/ DistributionFails(w)
  \/ \E w \in Worker, to \in {"completed", "terminated"} : TransferEnds(w, to)
  \/ \E p, q \in Participant : EventLinks(p, q)
  \/ \E k \in todo : CallFails(k)
  \/ \E p \in Participant : Restart(p)

Spec == Init /\ [][Next]_vars

\* The event loop runs every continuation and the timer of the poll.  It need not
\* do anything out of the ordinary.
FairSpec == Spec /\ WF_vars(Progress /\ trouble' = trouble)

----------------------------------------------------------------------------
(* Properties.                                                              *)

\* An instance is completed only if the job of every participant succeeded, also
\* when results are recorded over each other, reports are lost and processes
\* restart; unless a user has said otherwise, of the whole or of a transfer.
CompletedByAll ==
  row[Initiator].orch = "completed" /\ ~manual =>
    \A p \in Participant : job[p] = "succeeded"

\* Jobs exchange events, so none starts before every worker has the instance, and
\* the initiator's own not before every worker's, unless a user intervenes.
StartsTogether ==
  ~manual =>
    /\ \A p \in Participant : job[p] # "none" =>
         \A w \in Worker : Exists(w)
    /\ job[Initiator] # "none" => \A w \in Worker : job[w] # "none"

\* When all jobs succeed, the instance becomes completed at every participant, if
\* handlers do not overlap, no event has to link a transfer and nothing fails;
\* workers may restart in between.
SuccessIsKnown ==
  (\A p \in Participant : job[p] = "succeeded")
  ~> \/ \A p \in Participant : row[p].orch = "completed"
     \/ trouble > 0

\* When a job fails, the instance becomes erroneous at every participant and no
\* job goes on, under the same conditions.
FailureStopsAll ==
  (\E p \in Participant : job[p] = "failed")
  ~> \/ \A p \in Participant : row[p].orch = "error" /\ job[p] # "running"
     \/ trouble > 0

\* The promise of the tests, in general: when all jobs succeed, the instance
\* becomes completed.
SuccessCompletes ==
  (\A p \in Participant : job[p] = "succeeded")
  ~> row[Initiator].orch = "completed"
=============================================================================
