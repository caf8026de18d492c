------------------------- MODULE AlgorithmInduction -------------------------
(***************************************************************************)
(* The inductive invariants behind CompletedByAll and StartsTogether: what *)
(* the calls under way and the copies they may save stand for.             *)
(***************************************************************************)
EXTENDS AlgorithmInstances

\* The calls there can be.
CallShape(k) ==
  /\ k.do \in {"report", "manual"} => k.at = Initiator
  /\ k.do \in {"status", "tell", "report"} => k.arg \in JobResult
  /\ k.do \in {"signal", "manual"} => k.arg \in {"completed", "error"}
  /\ k.do = "signal" => k.at \in Worker
  /\ k.do = "manual" => manual

Shapes ==
  /\ \A k \in todo : /\ CallShape(k) /\ k.do \in {"start", "signal", "tell"}
                     /\ k.do = "start" => k.at \in Worker
  /\ \A o \in open :
       /\ CallShape(o.call)
       /\ o.copy.status # "none"
       /\ o.pc = "sum up" => o.call.do = "report" /\ Decided(o.copy)

\* What stands behind a result of p: its job or a user, and how its transfer ended.
\* Success and failure exclude each other, and last.
Evidence(p, arg) ==
  IF arg = "completed"
    THEN /\ job[p] = "succeeded" \/ (p \in Worker /\ manual)
         /\ p \in Worker => xfer[p] = "completed"
    ELSE IF p \in Worker THEN xfer[p] = "terminated"
    ELSE \/ job[p] \in {"failed", "stopped"}
         \/ job[p] = "none" /\ phase \in {"failed", "stopped"}

\* The results in a row of the initiator's, or in a copy, and its outcome.
Credible(r) ==
  /\ \A p \in Participant :
       r.results[p] \in JobResult => Evidence(p, r.results[p])
  /\ ~manual => /\ (\E p \in Participant : r.results[p] = "terminated")
                     => SomeFailed(r)
                /\ r.orch = "completed" =>
                     \A p \in Participant : job[p] = "succeeded"

\* What stands behind a call that carries a result.
Backed(k) ==
  /\ k.do \in {"status", "tell"} =>
       /\ k.arg = "completed" => job[k.at] = "succeeded"
       /\ k.arg = "failed" /\ k.at = Initiator => Evidence(Initiator, "failed")
  /\ k.do = "report" => Evidence(k.of, k.arg)

\* The initiator starts once it listens, so not once it has given up.
Stopped ==
  /\ \A o \in open : o.call.do = "start" /\ o.call.at = Initiator
                         => phase = "listening"
  /\ phase \in {"none", "sending", "starting"} => job[Initiator] = "none"

\* A transfer is started once.
Unasked ==
  /\ phase = "none" => \A w \in Worker : dist[w] = "none"
  /\ \A w \in Worker : dist[w] \in {"none", "asked"} => xfer[w] = "none"

\* The initiator has the instance once it has begun to distribute it.
Known == phase # "none" => Exists(Initiator)

ResultsInv ==
  /\ Shapes /\ Stopped /\ Unasked
  /\ Credible(row[Initiator])
  /\ \A k \in todo : Backed(k)
  /\ \A o \in open : Backed(o.call) /\ (o.call.at = Initiator
                                          => Credible(o.copy))

----------------------------------------------------------------------------

\* Everybody has the instance when the first is started, and every worker has
\* been started when the initiator is.  Events come after the first start.
Ready(k) ==
  /\ k.do = "start" => /\ \A w \in Worker : Exists(w)
                       /\ phase \notin {"none", "sending"}
  /\ k.do = "start" /\ k.at = Initiator /\ ~manual =>
       \A w \in Worker : job[w] # "none"
  /\ k.do \in {"status", "tell"} /\ k.at \in Worker => job[k.at] # "none"
  /\ k.do = "link" /\ k.at \in Worker => phase \notin {"none", "sending"}

\* An outcome is known, or about to be.
Outcome(k) == \/ k.do \in {"report", "signal"}
              \/ k.do \in {"status", "tell"} /\ k.at = Initiator

Settled == /\ phase \in {"listening", "failed", "stopped"}
           /\ \A w \in Worker : dist[w] # "starting"

\* A worker that has the instance and waits to be started has a row that says so.
Waits(w) == \/ dist[w] = "starting"
            \/ phase = "sending" /\ dist[w] = "created"
Waiting(w, r) ==
  Waits(w) /\ job[w] = "none" => r.status \in {"none", "pending"}

\* Who must have the instance.
There ==
  /\ phase \in {"starting", "listening"} => \A w \in Worker : Exists(w)
  /\ phase = "sending" =>
       \A w \in Worker : dist[w] = "created" => Exists(w)
  /\ \A p \in Participant : job[p] # "none" =>
       phase \notin {"none", "sending"} /\ \A w \in Worker : Exists(w)

CallsReady == /\ \A k \in todo : Ready(k)
              /\ \A o \in open : Ready(o.call)

\* If no user intervenes, outcomes come last, a worker counted as running has its
\* job, and the initiator is the last to start.
InOrder ==
  /\ \A k \in todo : Outcome(k) => Settled
  /\ \A o \in open : Outcome(o.call) => Settled
  /\ \A w \in Worker : dist[w] = "running" => job[w] # "none"
  /\ \A w \in Worker : Waiting(w, row[w])
  /\ \A o \in open : o.call.at \in Worker => Waiting(o.call.at, o.copy)
  /\ phase = "listening" \/ job[Initiator] # "none" =>
       Settled /\ \A w \in Worker : job[w] # "none"

StartInv == There /\ CallsReady /\ (~manual => InOrder)
=============================================================================
