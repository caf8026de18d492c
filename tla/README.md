# TSG: a TLA+ verification project

TLA+ models of the TNO Security Gateway (TSG), a TypeScript implementation of
the Dataspace Protocol (DSP): what its parts do when their calls, messages and
failures interleave, checked by TLC on small instances and, where it matters
most, proved by TLAPS for all instances. Paths below are relative to `src/`.

## 1. The system

Each participant of a dataspace runs a *wallet* (credentials), a *control plane*
(catalogue, contracts, transfers) and *data planes* (which move the data). All
are NestJS processes: a single-threaded event loop, a relational database
through TypeORM, REST between processes. Nothing holds a lock or a transaction
over an `await`, so every `await` of a handler is a point where another handler
of the same process runs.

| Component | State | Operations | Talks to |
|---|---|---|---|
| **Contract negotiation** `apps/control-plane-api/src/dsp/negotiation` | one row per party: state, offer, link to an agreement, events; the agreement table | `requestNew`, `requestExisting`, `offer`, `accept`, `agree`, `verify`, `finalize`, `terminate` and the handler of each message; the listener's automatic reactions | the peer's control plane (HTTP), wallet (signatures), catalogue (policy of a dataset) |
| **Transfer process** `…/dsp/transfer` | one row per party: state, data address, secret, data-plane transfer | `initiateTransferProcess`, `start`, `complete`, `terminate`, `suspend` and their handlers | the peer's control plane, its own data plane, policy evaluation |
| **Data plane registry** `…/data-plane` | data planes, their health and missed checks, their catalogues | register, update, pull catalogue, health check, transfer commands | data planes (HTTP, timers) |
| **Policy evaluation** `…/policy` | the last context and decision of each transfer | evaluate permissions, prohibitions, constraints, on a request and for a data plane | agreements, credentials |
| **Agreement monitor** `…/policy/agreement.monitor.service.ts` | none; a timer | evaluate the started transfers again, suspend the denied ones | policy evaluation, transfers |
| **Catalogue** `…/dsp/catalog` | datasets with offers and distributions | add, update, remove a dataset | registry, negotiation |
| **HTTP data plane** `apps/http-data-plane-api` | transfers with their state and token; dataset items | request, start, complete, terminate, suspend; proxying of requests | control plane, the peer's data plane, a backend |
| **Analytics data plane** `apps/analytics-data-plane-api` | algorithm instances and their participants' statuses; project agreements and signatures; events; the bridge's queue and upload buffers | create, distribute, start, report results, remove; request, sign and finalize agreements; emit, poll and upsert events; queue, drain and reconnect | its control plane's transfers, peers' data planes, an orchestrator over a WebSocket |
| **Wallet** `apps/wallet-api` | keys, DIDs, credentials, status lists | issue, update, revoke, delete, present, sign, validate | control planes, other wallets, verifiers that fetch a status list |
| **SSO bridge** `apps/sso-bridge-api` | users, clients, tokens | OAuth flows | browsers, APIs |
| **Libraries** `libs/*` | none of their own | messages, authentication, persistence, observability | all of the above |

### How they interact

1. A consumer's management client calls its control plane; a negotiation is a
   series of HTTP requests in both directions between two control planes, each
   changing one row on either side. Its result is an agreement.
2. With an agreement the consumer requests a transfer. Each control plane keeps
   a row and tells its own data plane what to do before or after it tells the
   peer.
3. The data planes then exchange data directly, and check their own copy of the
   transfer's state.
4. A data plane pushes its datasets to its control plane, one at a time or all
   of them, and asks it for decisions about a transfer. The agreement monitor
   takes such decisions by itself.
5. The analytics data plane builds on transfers: a project agreement or an
   algorithm instance opens one to each participant and reacts to the changes of
   their states. The jobs of an instance exchange events, from a client next to
   the job over a WebSocket to its server, from there to the peer's server, and
   over its WebSocket to the other job.
6. The wallet signs for all of them. For the credentials it issues it publishes
   status lists, which verifiers fetch.

### What is hard here

- *Stale copies.* Nearly every operation loads a row, checks the transition,
  awaits a wallet, a data plane or a peer, and then saves the whole loaded row.
  There is no version column. What others saved meanwhile is overwritten.
- *Two databases, no transaction.* Some operations save before they post
  (`agree`, `verify`), others after; each loses something else when the request
  or the response is lost.
- *No retry, no outbox.* An error goes to the client that called; an event for a
  listener exists only in memory.
- *Reactions that overtake.* A provider's automatic answer to a request runs
  concurrently with its own HTTP response to that request.
- *Read, change, save* of collections (statuses, signatures, revoked indexes)
  and listeners registered after the signal they wait for.
- *Promises nobody awaits.* A rejection that nothing handles ends the process:
  of an automatic start, of a finalization in the background, of a round of the
  agreement monitor.
- *Acknowledgements, timeouts, polls* of the bridge: a call that failed for its
  caller may have been handled, an event may be stored between a poll's read and
  its wait.

`PROJECT.json` lists each hazard at its line.

### What would make each component correct

- Negotiation: the parties' rows pass through the protocol's states in its order;
  success reported to a client is success on both sides; agreements come from
  the provider and are the same on both sides; a final state is final; automatic
  negotiations end.
- Transfer: no data address before both sides have recorded the request; a
  terminated or completed transfer does not start again; the data plane's state
  follows the control plane's; nothing is left started that nobody knows of.
- Policy evaluation: a decision follows from the rules of the agreement, and the
  rules a transfer falls under decide it; a transfer that is denied does not go on.
- Catalogue: what is offered is what the data plane stores.
- HTTP data plane: only a started transfer is proxied.
- Project agreements: a hash stands for every signature; an agreement is final
  only when every party has stored it, and all store the same.
- Algorithm instances: nobody starts before everyone is ready; the outcome is
  successful only if every job was, and every participant learns it.
- Events: what was answered is stored; what is stored is delivered, once the
  connection is there, and none is passed over.
- Wallet: a revocation stays, and touches no other credential.

## 2. The modules

    NegotiationStates        parties, states, transition tables
      Handshake              abstract specification: who may know what, when
      Negotiation            the two control planes in detail
        NegotiationInduction the inductive invariants
          MCNegotiation      small instances for TLC (MCNegotiation_*.cfg)
          NegotiationProofs  types, order, refinement, acknowledgement,
                             agreements, offers agreed upon, one agreement

    TransferStates           parties, planes, states, transition tables
      TransferOrder          abstract specification: the order of the four rows
      Transfer               the two control planes and their data planes
        TransferInduction    the inductive invariants
          MCTransfer         small instances for TLC (MCTransfer_*.cfg)
          TransferProofs     types, order, refinement, acknowledgement,
                             agreement of the rows

    PolicyEvaluation         the decision about a transfer, as pure operators
      PolicyMonitor          requests, recorded decisions, the monitor's rounds
        PolicyInduction      the inductive invariant
          MCPolicyMonitor
          PolicyProofs       types, decisions, admission, monitoring

    DatasetCatalog           a data plane's datasets and what is offered of them
      CatalogInduction
        MCDatasetCatalog
        CatalogProofs        types, agreement after a success, storage, links

    ProjectAgreements        an initiator and its workers sign an agreement
      AgreementInduction
        MCProjectAgreements
        AgreementProofs      types, hash, one hash, finalization, links

    AlgorithmInstances       an algorithm run by all of its participants
      AlgorithmInduction
        MCAlgorithmInstances
        AlgorithmProofs      types, results, completion, common start

    AlgorithmEvents          events and data between the jobs of an instance
      EventInduction
        MCAlgorithmEvents
        EventProofs          types, answers, order of the poll

    StatusLists              issued credentials and their revocation
      StatusListInduction
        MCStatusLists
        StatusListProofs     types, revocations, whose they are, limits

The components are modelled one by one. Where one uses another, the other is in
its model as what it can do to it: the transfer of `PolicyMonitor` moves by the
transition table that `Transfer` is checked against, the transfers of
`AlgorithmInstances` start, end or fail, the wallet answers or fails. Negotiation
and transfer are each composed of two parties, the transfer also of two data
planes; the catalogue of a data plane and its control plane; the events of two
clients and two servers.

### Negotiation

One negotiation between a consumer and a provider, both running
`NegotiationService`.

| Model | Code |
|---|---|
| `db[p]` | party p's row of `negotiationDetail`: `state`, `offer`, `agr` (the column `agreementDaoId`) |
| `agreements[p]` | p's agreement table |
| `call[i]` | one operation in flight: its kind and party, where it is (`pc`), the copy `getNegotiation` gave it (`copy`), the HTTP request and the peer's handler (`hpc`), the handler's copy (`hcopy`), and whether the message bears a signature or a hash |
| `events` | events given to `EventEmitter2` that no listener has handled |
| `seen[p]` | history variable: the states p's row has been in |

A call goes through `pc`:

    begin ──refused──> refusing ──SaveRefusal──> failed
      ├─ agree:        storing ─> recording ─> posted ─> done | failed
      ├─ verify:                  recording ─> posted ─> done | failed
      ├─ finalize:     posted ─> storing ─> saving ─> done   (or failed)
      └─ the others:   posted ─> saving ─> done              (or failed)

and its handler at the peer through `hpc`:

    sent ─> (storing ─> (linking ─>)) handling ─> ok
         └> refusing ─> failed      └> failed (404, bad signature, lost)

Each arrow ends where the code awaits something another handler can interleave
with. The details that matter:

- `Save` writes what TypeORM's `save` of a loaded entity writes: every column
  with the copy's value, except the link to the agreement, which is a relation
  absent from the loaded `NegotiationDetail` and so is written only by the
  handlers that set `agreementDao`. The `events` rows of the negotiation follow
  the copy as its state does and are left out.
- `checkTransition` does not only throw: it saves the copy with a note. That save
  is `SaveRefusal` / `SaveRemoteRefusal`, and can undo another's save.
- `handleEvent(FINALIZED)` saves twice: `LinkFinalized`, `SaveHandled`.
- `requestNew` creates the consumer's row only after the response
  (`SaveAfterReply` with an absent copy); `handleNewRequest` creates the
  provider's before it.
- Offers and agreements are named by the call that made them, so that "the same
  agreement" is an equation. A signature validates against the receiver's own
  agreement (`ProofAccepted`); the fallback `sha256` digest is not compared with
  anything, as in the code.
- The listener (`Reaction`) agrees when the offer matches the dataset's policy (a
  nondeterministic choice: catalogue and offer are not modelled), terminates
  otherwise if `automatic`, verifies an agreement, finalizes a verification.
  Its errors are dropped, as Nest's event emitter drops them.
- `accept` has no management endpoint; the end-to-end harness calls the service
  directly, as a client of the model does.
- `LoseRequest`, `Timeout` (30 s, after which the peer may still handle the
  request) and `Restart` (calls, handlers and events are gone, the database
  stays) are the faults, allowed when `Faults`.

Abstracted: text of messages, callback addresses, audit log, WebSocket
notifications to the UI, ownership fields, access control. `Mode` is fixed for a
behaviour although a user may change the setting at run time. One negotiation is
modelled: rows of different negotiations do not touch each other.

### Handshake

The abstract specification: a set of states per party, and for each party and
state what must have been recorded before (`Needs`). It says nothing of calls,
copies or faults. `H == INSTANCE Handshake WITH reached <- seen` is the
refinement mapping; `ImplementsHandshake` is `H!Spec`.

The order is stated on what each row *has been* in, not on what it is in now:
stale saves can take a row backwards (a refusal's save returns a row to the state
it was loaded in), but they cannot take it to a state its party was never
entitled to.

### Transfer

One transfer under an agreement: two control planes running `TransferService`,
each with a data plane of its own.

| Model | Code |
|---|---|
| `cp[p]` | party p's row of `transferDetail`: its state and whether it holds a data address |
| `dp[p]` | the state of the transfer in p's data plane (`http-data-plane-api`; the analytics data plane's handler has the same commands) |
| `call[i]` | one operation in flight: kind, party, `pc`, loaded copy, the request and the peer's handler (`hpc`, `hcopy`), and whether a start message names an endpoint |
| `starting` | `handleRequest` has called `start` and not awaited it |
| `late` | commands to a data plane whose sender has stopped waiting |
| `seen[plane][p]` | history variable: the states each of the four rows has been in |

A call goes through `pc`, its handler at the peer through `hpc`:

    begin ──refused──> refusing ──SaveRefusal──> failed
      └─> commanding ─Command─> posted ─Reply─> saving ─> done   (or failed)

    sent ─Receive─> commanding ─CommandRemote─> handling ─> ok
      ├─> refusing ─SaveRemoteRefusal─> failed
      └─> failed (404, no endpoint, lost; a request also when it is denied)

- On both sides the data plane is told *first* and the control plane's row saved
  *last*. A data plane stores whatever state it is commanded, without a check
  (`Store`), so the two rows of one party may differ, and a command that overtakes
  another one decides.
- A command whose sender gave up (its answer was lost, or the process died) may
  reach the data plane at any later time, in any order, or never: `LateCommand`.
  A request's late command is left out: the row it makes has an identifier that
  no control plane stores. So is the row of a request that was denied.
- A data plane's handler is one step: it loads the row and stores the state
  unconditionally, with nothing else in the model able to tell the two apart.
- `start` takes the address it is given, else the row's own, else an empty one
  (`addr`); the message class refuses an empty endpoint with 400 (`Receive`).
  A handled start stores the address it names.
- The *automatic start*: when the provider's data plane answers a request with an
  address, `handleRequest` calls `start` without awaiting it. If it throws, its
  promise is rejected with no handler; Node ends the process then, and no handler
  for unhandled rejections is installed. `Throw` therefore stops the provider's
  control plane (`Stop`), with all its calls and handlers.
- The provider's policy may deny a request (`DenyRequest`) after the data plane
  has accepted it. The consumer's own evaluation comes before anything is stored:
  a denied one has no effect and is no step.
- The agreement monitor suspends transfers whose agreement no longer holds: to
  the model it is one of the clients of `ClientCall`. So is a data plane that
  completes or terminates a transfer on its own.

Abstracted: agreement, dataset, format, secret, the content of addresses, the
monitor's rows, access control, and the `fromDataPlane` path, which no caller in
the repository takes. No data plane of the repository answers its *consumer* with
an address. One transfer is modelled, since rows of different transfers do not
touch each other, except by the end of the process.

### TransferOrder

The abstract specification: which of the four rows must have been in which state
before one of them first enters a state (`ControlNeeds`, `DataNeeds`).
`O == INSTANCE TransferOrder WITH reached <- seen` is the mapping;
`ImplementsOrder` is `O!Spec`. In particular no data plane opens before the
provider's control plane has recorded the request, the consumer's not before the
provider's, and a control plane records a suspension, completion or termination
only when both data planes have been told.

### PolicyEvaluation and PolicyMonitor

`PolicyEvaluation` is `Evaluation` (`policy/evaluation.ts`): `EvaluateConstraint`
with the three evaluators, `EvaluateRule`, `EvaluatePermission` with its duties,
`MapResults` for the combination of results, `Evaluate` for the decision. The
operators at its end (`InForce`, `Grants`, `Doubtful`, `Forbidden`, `Faulty`) say
in terms of single constraints what a decision means; they do not use the
combination, and are what the decisions are compared with. An evaluation may throw
(`"THROWS"`): a template that names no operator is refused when it is looked up
(`rule.repository.service.ts:173`, `constraint.dto.ts:93`), a right operand or a
value may not be what a descriptor needs (`evaluation.ts:432`). Then nothing is
decided and nothing saved. Decisions the code takes and one might not expect are
kept: if no permission matches, none in doubt, it allows.

| `PolicyMonitor` | Code |
|---|---|
| `state[t]`, `peer[t]` | the state of the transfer's row here and at its peer |
| `data[t]` | its data plane serves the transfer |
| `monitor[t]` | the row of the last evaluation: context and decision |
| `handler[t]` | the provider's handler of a request: evaluated, recorded, saved |
| `asked` | an evaluation a data plane has asked for: evaluated, recorded |
| `round` | a round of the agreement monitor: the transfers left, the one being done, its evaluation |
| `up[t]` | the transfer's data plane and peer answer |

- An evaluation for a data plane starts from the *recorded* context and takes the
  data plane's values and the time of now; it may be recorded after a later one.
- The interval's callback is not guarded: an evaluation that throws
  (`CheckFails`), a suspension that is refused or not answered (`SuspendFails`)
  rejects, and the process ends. It starts again, without the rest of its round.
- The suspension is in parts: the transfer is read and its data plane told
  (`Suspend`), the peer checks the state it has and saves (`TellPeer`), the copy is
  saved here (`SaveSuspended`). If the process stops before the last, or the peer's
  answer is lost, the peer is SUSPENDED and this side STARTED; the peer refuses
  SUSPENDED from SUSPENDED then, in every later round.
- All other moves of a transfer are one step (their own steps are `Transfer`'s),
  which both sides take, or one, or neither (`Move`, `HalfMove`).

Abstracted: the text of policies. A constraint is a path, an operator and a
value; whether target, action and parties of a rule fit is one flag. A
descriptor of a credential is satisfied by the values that equal it.

### DatasetCatalog

| Model | Code |
|---|---|
| `active`, `item[d]` | the HTTP data plane's stored configuration and its dataset items |
| `row[d]` | the dataset in the control plane: what it is, whether it is the data plane's (`linked`) and in the catalogue (`listed`) |
| `call[c]` | a call at the data plane: add, update, remove one, or send the whole catalogue (registration, a change of configuration) |
| `handler[c]` | the request at the control plane: the datasets left to do (`todo`, `old`) and the step it is at |
| `odd`, `trouble` | history: what has been lost or was restarted, whether calls have overlapped (`overlap`) or two handlers worked on one dataset at once (`crossed`) |

`updateCatalog` goes over the datasets one by one (`Find`, `Write`) and saves the
data plane with all of its datasets at the end (`Link`); there is no transaction
around them, and `pullCatalog` does not even wait for it. An addition stores the
item first, a removal removes it last. Contents are named by the call that made
them. Not in the model: versions, distributions, who may see a dataset.

### ProjectAgreements

| Model | Code |
|---|---|
| `row[p]` | party p's agreement: status, whose signatures it has, its hash, whether a dataset is linked |
| `ask[w]` | the initiator's request for w's signature: its transfer is yet to be requested (`todo`), its start listened for or missed, the message stored |
| `sign[c]`, `back[c]` | a signing call of a worker with its copy, and the initiator's handler of its callback with the copy it loaded |
| `final[c]`, `send[c][w]` | the finalization that the last callback schedules, and its message to w |
| `link[l]`, `policy[p]` | a call that links or unlinks a dataset, and whether the dataset has the agreement's policy |
| `stored[w]` | history: the hashes w has finalized on |

Hashes are named by the call that completed the signatures, since the initiator
signs anew each time. `initiateTransfer` requests a transfer, reads its row and
only then listens for the event of its start; an event that was published before
is lost, and the call waits for ever (`ListenForRequest`, `ListenForFinalization`
with the outcome `missed`), although nothing has failed. The finalization is not
awaited: if one message fails it rejects, nothing handles the rejection and the
process ends (`FinalizationRejected`), as it does for the requests
(`RequestsRejected`). `calm` chooses between behaviours without failures, in which
calls wait for each other, and all the others.

### AlgorithmInstances

| Model | Code |
|---|---|
| `row[p]` | p's instance: its own status, the status of the whole, each participant's result, the linked transfers |
| `todo`, `open` | messages and results nobody has begun to handle; handlers with the row they loaded |
| `phase`, `dist[w]` | how far the initiator's `distributeAlgorithmInstance` has come, altogether and with w |
| `xfer[w]`, `job[p]` | the transfer with w, p's container |
| `follow[p]`, `poll[p]` | `followingJobStatus` and the round of the cron that polls it |

The distribution negotiates a transfer with each worker, links it, sends the
instance, tells all to start, and only when all have answered listens to the
transfers and starts the initiator's own job. A job's end is found by a poll,
saved by `updateStatus` and passed on: a worker completes or terminates its
transfer, which the initiator's `handleTransferStateChange` turns into a result,
saves and sums up (`SaveReport`, `SaveOutcome`), and the outcome is broadcast
(`SaveSignal`). A user of a control plane may end a worker's transfer, and if he
completes it that counts as a success (`TransferEnds`). The listener for the start
of a transfer may come too late here, too, and the distribution then waits for ever
(`StartMissed`). A job's event that needs a transfer links one while other handlers
run (`EventLinks`). A poll's round replaces the list of followed jobs by what it
computed from the list at its beginning. A user may set the outcome (`Manual`),
a process may restart: it follows the instances whose row says running.

`trouble` counts what is out of the ordinary: a fault, a handler that begins
while another one of the same participant is open, an event that links a
transfer, a job that ends before the others have begun. `MaxTrouble` bounds it,
and the liveness properties are claimed for behaviours without any.

### AlgorithmEvents

| Model | Code |
|---|---|
| `create[e]`, `upload[u]` | the job's calls at the sender's client |
| `link[s]`, `wire`, `acks` | the WebSocket of a side, the sender's messages and the answers to them |
| `buffer[u]`, `work` | the server's `chunkBuffers` and its handlers |
| `row`, `data` | the events and their data in three databases: sender's server, receiver's server, receiver's client |
| `push`, `saving`, `time[e]` | the server's messages to the receiver's client, what that is saving, the timestamps it gives |
| `poll`, `since`, `got` | the receiving job's long poll, the time it has come to, what it has been given |

Small data is sent without waiting for an answer, large data in chunks of which
each is acknowledged, the last when all of it has been passed on. The server
forwards an event before it saves it, and goes on if the forwarding failed. Data
is forwarded before it is saved, too, but if that fails the upload does; without
a transfer to the recipient nothing is forwarded and the upload succeeds
(`ForwardData`). The poll reads the events later than the last one's timestamp,
waits to be told and reads again, but is not told of what is saved between the
two; it ends without an event after its time. `odd` remembers losses,
simultaneous saves (`overlap`), two events of a millisecond (`tie`), chunks
removed as stale (`dropped`) and a lost transfer (`unlinked`).

### StatusLists

| Model | Code |
|---|---|
| `credential[c]` | the row of an issued credential: list and index it draws, the flag `revoked` |
| `statusList[l]`, `published[l]` | the row of a list, and the bits of the signed credential verifiers fetch |
| `call[k]` | a client's call with what it has loaded |
| `asked`, `denied` | history: entries whose revocation was begun, and answered |
| `raced` | history: lists that two calls have worked on at once |

Issuing finds a list (`Find`, `Count`), fills it and makes another (`Fill`,
`Name`, `CreateList`, `RecordList`), draws an index no credential has (`Pick`) and
saves. Revoking publishes first and records afterwards (`Publish`, `SaveList`,
`Flag`). A save of an entity that lacks a column keeps the column: an update
keeps `revoked`, and list and index if it is not revocable. A list is named by
the number of lists there are. Index 0 is falsy and counts as none.

## 3. The runs

Deadlock is off in all of them: calls are bounded, so the behaviours come to an
end. State counts are of distinct states.

| Run | Instance | Checks | States |
|---|---|---|---|
| `manual` | negotiation, both manual, 4 calls, faults, clients do not wait | `TypeOK`, `AcknowledgedByBoth`, `AgreementIssued`, `ImplementsHandshake` | 448 076 |
| `serial` | semi-manual provider, automatic consumer, 4 user + 5 listener calls, users wait, no faults, fair | `AgreementMatchesOffer`, `FinalizedOnSameAgreement`, `AgreedIsFinalized` | 263 811 |
| `final` | automatic, 2 + 3 calls | `FinalizedIsFinal`: *violated*, section 4 | |
| `transfer_faults` | 3 client calls and the automatic start, with and without addresses, denials, faults, clients do not wait | `TypeOK`, `AcknowledgedByAll`, `ImplementsOrder` | 392 709 |
| `transfer_quiet` | 5 client calls, one at a time, denied requests, no faults | `QuietAgreement` | 13 720 |
| `policy` | 2 transfers under two agreements, a purpose at which an evaluation throws, times 0 and 1, 2 commands, 1 loss or restart, fair | `TypeOK`, `DecisionsExplained`, `AdmittedOnce`, `TransfersAreMonitored`, `DeniedIsStopped` | 161 361 |
| `catalog` | 2 datasets, 4 calls, 2 losses, restarts or overlaps, symmetric | `TypeOK`, `SuccessAgrees`, `OfferedIsStored`, `OfferedIsLinked` | 3 546 015 |
| `agreements` | 2 workers, 3 signing calls, 1 linking call, calm or with 3 calls and faults, fair | `TypeOK`, `HashCoversAll`, `FinalizedByAll`, `SingleHash`, `LinkedHasPolicy`, `SignedIsFinalized` | 760 478 |
| `instances` | 1 worker, 2 troubles, fair | `TypeOK`, `CompletedByAll`, `StartsTogether`, `SuccessIsKnown`, `FailureStopsAll` | 616 389 |
| `instances_success` | 2 workers, 1 overlap, no faults, fair | `SuccessCompletes`: *violated*, section 4 | |
| `events` | 2 events, 1 upload of 2 chunks, 2 troubles, fair | `TypeOK`, `AnsweredIsStored`, `NothingSkipped`, `CreatedIsReturned`, `UploadedArrives` | 469 454 |
| `revocations` | 3 credentials, 2 lists, 3 indexes, 2 entries to a list, 2 clients, 4 calls, 1 failure or restart, symmetric | `TypeOK`, `RevocationsStick`, `OnlyAskedAreRevoked`, `ListsFit` | 711 588 |

What they show:

- `manual`, `transfer_faults`: order, acknowledgement and refinement survive
  races, losses, timeouts, late commands, restarts and the process's end.
- `serial`: a whole negotiation with counter-offers; what is agreed is what the
  rows show, and listeners carry it to its end unless a user intervenes.
- `transfer_quiet`: whenever nothing is under way the four rows agree, also after
  refused calls.
- `policy`: each recorded decision is the one its policy and context explain, none
  is recorded when the evaluation throws, and nothing is admitted on a denial. The
  data plane of a transfer that stays denied is told to stop, in spite of
  suspensions that fail and of restarts, unless the transfer's evaluation throws or
  another transfer ends every round. That this side's *row* becomes SUSPENDED is
  not claimed: with half a suspension it never does (section 4).
- `catalog`: if calls do not overlap, what is offered after a call that succeeded
  is what is stored, and a lost message leaves nothing in the catalogue that its
  data plane lacks. A dataset may stay unlinked, and every later update of the
  whole catalogue is refused for it then, in two cases: the *control plane* stops
  in the middle of an update, or two of its handlers are at work on one dataset at
  once, as when one dataset is added while the whole catalogue is updated. Neither
  lost messages nor calls that overlap otherwise do that (`OfferedIsLinked`).
- `agreements`: a hash covers every signature whatever callbacks overlap; the
  initiator is final only after all workers; if nobody signs twice there is one
  hash. Without failures and overlaps an agreement that all have signed is
  finalized, unless a finalization missed the start of a transfer
  (`SignedIsFinalized`).
- `instances`: unless a user sets the outcome or completes a transfer, an instance
  is completed only if every job succeeded, and jobs start only when everybody is
  there. Without trouble all learn the outcome and an error stops every job, also
  when workers restart.
- `events`: an event whose creation was answered is stored, whatever is lost or
  late; so is data sent in chunks, unless its chunks were removed as stale or the
  recipient's transfer is lost. The poll passes no event over, except for
  simultaneous saves and equal times, and finds also the one it was not told of.
- `revocations`: as far as no two calls work on one list at once, a revocation stays,
  and a credential is revoked for another one only if it got that one's index when
  it was free again; section 4 has what happens if they do.

*Why these bounds are enough.* A whole negotiation takes four calls (request,
agree, verify, finalize): every action and every transition of the tables but
the counter-offer occurs within four, and `serial` adds the offers, with a
listener's call for each. A race needs two calls at once, of which the others
must have prepared the state; four allow every pair of calls from every state
that one or two calls reach. A transfer reaches every state with three calls
(request, start, and one that suspends, completes or terminates); three and the
automatic start are four at once, and the five of `transfer_quiet` reach a
second start after a suspension. `catalog`'s four calls store, change and remove
a dataset with another one beside it, with any two faults or overlaps.
`policy`'s two commands start both transfers, or start one and move it again or
evaluate it for its data plane; the suspensions are the monitor's own. Its
constraints are of every type, and there is one for each result and each
part of a decision. Three signing calls of two workers are all signatures and
one repeated. An instance needs one worker for everything but two reports at
once, which `instances_success` has; two troubles are every pair of a fault or
an overlap with another. Two events and two chunks are the least for an order
among either. Two entries to a list and three credentials fill one list and
begin the next; index 0 is among the three. What is proved (section 5) does not
depend on the bounds.

`AgreementMatchesOffer`, `FinalizedOnSameAgreement` and `QuietAgreement` are
claimed only for clients that wait and no faults, `LinkedHasPolicy` and
`SignedIsFinalized` for calm behaviours, `SuccessAgrees` and `OfferedIsStored`
without overlapping calls at the data plane: with them they are false in the code,
too, and the properties say so. What else a property excepts (`raced`, `odd`,
`trouble`, `manual`, `Hung`) it does because the code breaks it then; the hazards in
`PROJECT.json` that no property covers for that reason say so.

*Fairness.* Each `FairSpec` assumes that the continuations of calls and handlers
run eventually, which the event loop does with every pending callback; that timers
fire (the monitor's interval, the poll of jobs); and in particular

- negotiation: per call weak fairness of its steps, and that each listener takes
  its event;
- policy: the interval goes on firing, and peers that are lost come back. Without
  the second a denied transfer whose peer is gone is never suspended, and since
  each attempt ends the process, neither are those after it;
- events: the receiving job goes on polling;
- agreements: that the event loop goes on is not enough for a transfer's start to be
  noticed, since it may precede its listener: that outcome is left open in every
  behaviour, calm ones too;
- agreements, instances and events: weak fairness of `Progress` as a whole is
  enough, as no step of theirs can be repeated for ever (a poll's round is begun
  only to report a job's end, or as a trouble).

None assumes that clients call, that faults occur, or that a late command arrives.

## 4. Findings

Two runs contradict what a test of the repository says:

1. `final`: a termination whose check passed before the finalization, saved
   after it, makes a FINALIZED row TERMINATED;
   `tools/e2e-testing/lib/dsp-local/CN_03.test.ts:116` expects a refusal. The
   transfer's saves have the same shape, and there, too, a stale start is saved
   over TERMINATED.
2. `instances_success`: two reports of success are handled at once, each saves the
   results it loaded with its own added, and one is lost; the instance never
   completes, where
   `apps/analytics-data-plane-api/src/algorithm-instances/algorithm-instances.service.test.ts:1321`
   says it does "when all participants succeed".

Others have no run of their own. The first four are formulas of the models: name
the formula in the `.cfg` that is given, and TLC shows a behaviour.

3. `AutomaticSettles` (`Negotiation`, all automatic, one user and three listener
   calls, `FairSpec`): `requestNew` saves the consumer's row after the provider
   has answered, and the provider's listener does not wait for that. If its
   agreement or termination is quicker than the save, it is answered 404 and not
   repeated; `website/docs/apps/control-plane/settings.md:7` promises an end.
   `AgreedIsFinalized` shows that only this first message is lost in this way.
4. `RequestedIsStarted` (`Transfer`, one request with `AutoStart`, `FairSpec`):
   the same with the automatic start of a transfer, whose rejection ends the
   provider's process; `libs/tsg-sdk/src/transfers/transfers.sdk.ts:244` lets
   clients wait for the start.
5. `AllowedStartsSucceed` (`Transfer`, three calls that wait): a provider's start
   without an address is sent with an empty endpoint, which the consumer refuses,
   although the address is optional (`transfers.sdk.ts:121`), and after the
   provider's data plane has been opened.
6. `CompletedStopsData` (`Transfer`, three calls and the automatic start that do
   not wait): with two starts under way the second may open the provider's data
   plane after the completion that followed the first; nothing closes it, although
   completing "will stop the data transfer"
   (`apps/control-plane-ui/src/components/TransferProceed.vue:101`).
7. Status lists, in `revocations` without the exceptions of its properties. Two
   revocations of one list at once: the one saved later takes the other's index
   out again. Two calls that find every list full give their new lists one name,
   and the second empties what the first has published. A credential that is
   deleted or issued anew frees its index, revoked or not, and the next credential
   that draws it is revoked from the start. A credential issued anew after its
   revocation keeps the flag `revoked`, while its new entry is not revoked. The
   credential that draws index 0 cannot be revoked.
   (`website/docs/apps/wallet/flows.md:214` promises revocation for every
   credential the wallet issues.)
8. Agreement monitor: a suspension that is refused or not answered, and an
   evaluation that throws, reject in the callback of `setInterval`; nothing handles
   it and the control plane ends. That happens in every round if a peer stays away;
   if a suspension was saved by the peer and not here, since `transfer.service.ts`
   saves last (698-704) and the peer refuses SUSPENDED from SUSPENDED (720), so that
   the row stays STARTED; and if a policy uses an operand whose template names no
   operator. The transfers after it are never checked (`EndsRounds`).
9. Policies: the default template of `tsg:evaluationTime`
   (`rule.repository.service.ts:62`) names no operator, and the lookup parses it
   into a class that needs one (`constraint.dto.ts:93`): every evaluation of a
   policy with that operand throws. If no permission of an agreement matches and
   none is in doubt, the evaluation answers ALLOW (`evaluation.ts:156`), for want of
   a rule that "could be matched and evaluated successfully".
10. A transfer that starts before its listener is there: `initiateTransfer`
    (`project-agreements.service.ts` 267-281) and `requestTransferForParticipant`
    (`analytics-transfer-handler.service.ts` 185-205) request the transfer, read its
    row and add the listener then. The event of a start that was quicker is lost;
    a request for a signature, a finalization or a distribution waits for ever,
    without any error.
11. Catalogue: an addition that is handled while an update of the whole catalogue is
    under way is not among the datasets the update was sent, and `updateCatalog`
    saves the data plane with those only (`dataPlane.service.ts` 268-288): the
    dataset is offered, but belongs to no data plane. The next update of the whole
    catalogue adds it again, and is refused.
12. Uploads: the last chunk of an upload whose buffer was cleaned up
    (`bridge-ws.gateway.ts:387`) begins a new buffer and is acknowledged as any
    other; the client takes the upload for complete, and nothing is stored. An
    upload for a recipient whose transfer the instance has lost is stored, not
    forwarded, and answered as a success (`events.service.ts` 574-586).

## 5. What is proved

By TLAPS, for every value of the constants that satisfies the named assumptions
of the modules: `CallAssumption` and `EnvironmentAssumption` (`Negotiation`,
`Transfer`: calls are numbered, users' and automatic ones apart, and the types
of the rest), `PolicyAssumption` and `AgreementAssumption` (rules fit or do
not), `CallAssumption`, `PartyAssumption`, `NoneAssumption`, `CalmAssumption`
(`ProjectAgreements`), `InitiatorAssumption` and `TroubleAssumption`
(`AlgorithmInstances`), `EventAssumption` (`AlgorithmEvents`),
`CatalogAssumption` (`DatasetCatalog`), `ListAssumption` and `ClientAssumption`
(`StatusLists`). No theorem assumes a bound on faults or calls. Three assume
more, as the runs of their properties do: `ClientsWait` in
`AgreementsMatchOffers` and `OneAgreementFinalized` says that clients wait for
their calls and nothing fails (listeners call when they like); `OneByOne` in
`RowsAgreeWhenQuiet`, that clients wait, that every start names an address and
that nothing fails or starts by itself. The others hold for clients that wait or
do not; what overlaps or fails is left to the property itself, where it excepts
something (`calm`, `odd`, `raced`).

| Module | Theorem | Statement |
|---|---|---|
| `NegotiationProofs` | `TypeCorrect` | `Spec => []TypeOK` |
| | `HandshakeOrdered` | `Spec => []HandshakeOrder` |
| | `NegotiationImplementsHandshake` | `Spec => ImplementsHandshake` |
| | `Acknowledged` | `Spec => []AcknowledgedByBoth` |
| | `AgreementsIssued` | `Spec => []AgreementIssued` |
| | `AgreementsMatchOffers` | `ClientsWait` implies `Spec => []AgreementMatchesOffer` |
| | `OneAgreementFinalized` | `ClientsWait` implies `Spec => []FinalizedOnSameAgreement` |
| `TransferProofs` | `TransferTypeCorrect` | `Spec => []TypeOK` |
| | `RowsOrdered` | `Spec => []TransferOrdered` |
| | `TransferImplementsOrder` | `Spec => ImplementsOrder` |
| | `TransferAcknowledged` | `Spec => []AcknowledgedByAll` |
| | `RowsAgreeWhenQuiet` | `OneByOne` implies `Spec => []QuietAgreement` |
| `PolicyProofs` | `PolicyTypes` | `Spec => []TypeOK` |
| | `PolicyDecisions` | `Spec => []DecisionsExplained` |
| | `PolicyAdmission` | `Spec => []AdmittedOnce` |
| | `PolicyMonitoring` | `Spec => []TransfersAreMonitored` |
| `AgreementProofs` | `AgreementTypes` | `Spec => []TypeOK` |
| | `AgreementSpread` | `Spec => []SpreadInv` |
| | `AgreementHash` | `Spec => []HashCoversAll` |
| | `AgreementFinalized` | `Spec => []FinalizedByAll` |
| | `AgreementSingle` | `Spec => []SingleHash` |
| | `AgreementLinks` | `Spec => []LinkedHasPolicy` |
| `AlgorithmProofs` | `AlgorithmTypes` | `Spec => []TypeOK` |
| | `ResultsCredible` | `Spec => []ResultsInv` |
| | `CompletedAfterAll` | `Spec => []CompletedByAll` |
| | `StartedTogether` | `Spec => []StartsTogether` |
| `EventProofs` | `EventTypes` | `Spec => []TypeOK` |
| | `ChunksInOrder` | `Spec => []StoredInv` |
| | `AnswersHold` | `Spec => []AnsweredIsStored` |
| | `PolledInOrder` | `Spec => []NothingSkipped` |
| `CatalogProofs` | `CatalogTypes` | `Spec => []TypeOK` |
| | `SuccessfulCallsAgree` | `Spec => []SuccessAgrees` |
| | `OffersStored` | `Spec => []OfferedIsStored` |
| | `OffersLinked` | `Spec => []OfferedIsLinked` |
| `StatusListProofs` | `StatusTypes` | `Spec => []TypeOK` |
| | `RevocationsStay` | `Spec => []RevocationsStick` |
| | `RevokedByRequest` | `Spec => []OnlyAskedAreRevoked` |
| | `StatusListsFit` | `Spec => []ListsFit` |

`HandshakeOrder` and `TransferOrdered` are invariants of the abstract
specifications and follow from the refinements that the runs check.

*Types of a negotiation.* `TypeOK` is not inductive: a save of a copy that is
`Absent` would not be a row. `TypeInv` adds that a call that will save its copy
loaded a row.

*Order of a negotiation.* `OrderInv` is the argument why stale copies do no harm to
the order:

- what a copy shows was once in the row (`CopySeen`, `RemoteCopySeen`), and
  `seen` only grows, so saving the copy's own state adds nothing;
- a call's new state is one the table allows from the copy's state, which the
  party has been in; so what that state needed has been recorded;
- the exchange itself tells who has recorded what (`Recorded`): a handler of
  `agree` or `verify` runs after its sender has saved, and a sender of the others
  saves after the handler has.

`RecordReady`, `ReplyReady` and `HandledReady` are these facts for the three
kinds of save, `NextOrder` that every step keeps `OrderInv` and enters only ready
states. `HandshakeOrdered` and `Acknowledged` are then read off the invariant,
and the refinement combines it with `NextOrder`.

*Agreements of a negotiation.* `AgreementInv`: every row, copy and pending save
shows only an agreement already issued and stored by the party that shows it;
`storeAgreement` precedes the save on either side, and tables only grow.

*Offers that are agreed upon.* With clients that wait, each party has one call of
its own under way, beside the handler of the peer's call; even so a refused call
saves the row it loaded, with its older state and offer, over what a handler has
saved meanwhile. Neither property is inductive: a row without an agreement may be
about to get one from a call that loaded another offer. `SerialInv` therefore
speaks of a party's *prospects*: what its row shows, what its own call may still
save and what the handler of the peer's call may (`Prospects`).

- `RequestFirst`: there is one request for a new negotiation, it succeeds, and
  nothing else happens before the provider has handled it.
- `Early`, until the consumer has an agreement: any prospect of the one party and
  any of the other that could be agreed upon are about one offer (`AllFit`). Each
  kind of call keeps it for a reason of its own: an answer to an offer finds
  nothing else done with the offer (`Answer`), an offer finds the consumer idle or
  terminating (`Offered`), a refusal was no answer to what is open
  (`RefusedOpen`). From the time the provider has stored an agreement its
  prospects keep the agreement's offer (`Binding`, then `Bound`), and if one of
  them is open again, because a refused call restored it, the consumer is past
  accepting (`Shut`): the provider may then agree once more, in vain.
- `Late`, from the time the consumer has one: every row, copy and pending save
  keeps its offer, and the provider never links another.

`NextEarly` (with `ProviderAgreed`, the step from the one to the other) and
`NextLate` have one step per action. Both properties can be read off, since nobody
finalizes early.

*The transfer* follows the same argument, with an `OrderInv` of its own: copies
show states their rows have been in, `Recorded` says which of the four rows a
call's exchange has reached, and `LateReady` adds that a late command is one whose
state was ready when it was sent and so is ready for ever. `Opened` draws from the
order what a control plane's state says of the other rows; the `…Ready` lemmas
apply it to each save and each command. Most faults, and every error, only end
calls and handlers: `EndStep` treats them alike. That the rows agree when nothing
is under way needs the opposite of stale copies: under `OneByOne` one call runs at
a time (`Alone`), and `Halfway` says which of the four rows it has already brought
from the one state they all had into the new one, so that the last save makes them
equal again. A refused call saves what is there, since nobody changed it; that the
sender's table let a call begin is enough for the receiver, whose row is the same;
only a request can be denied, and it leaves no row in a control plane.

*Policy.* `DecisionMeaning` is about the pure operators: an evaluation throws
exactly when `Faulty` holds, and else denies exactly when `Forbidden` does, by
cases on what `MapResults` returns for each rule. With it `ExplainedInv` is
inductive, for the evaluations not yet saved as for the rows. Admission needs
that an evaluation that is saved late is about the requester of the row it
overwrites (`AboutRow`), so that the moment at which the request was allowed
stays one for the row.

*Project agreements.* Each row and each copy under way has all signatures if it
has a hash (`Covered`), and each that is the initiator's and final has been stored
by all workers (`Spread`); `CallbackOrder` and `FinalOrder` say what the position
of a handler implies. Since *copies* satisfy both, it does not matter which is
saved last. `SingleInv` is the argument for one hash although callbacks overlap
and each saves the signatures it loaded with its own added: a signature in a row
or copy of the initiator's comes from a callback that is past the point where it
counts them, or from the one whose handler holds the copy (`SignaturesGenuine`).
The callback that finds all signatures therefore finds that every other one is
past, and if nobody signs twice there is none left to make a second hash
(`Complete`). `LinkInv` holds as long as the behaviour is calm: a dataset is linked
while nothing else is under way (`LinksAlone`), so every copy that will be saved
lists the dataset as the policy of its party says (`PolicyKept`).

*Algorithm instances.* `ResultsInv`: each result in the initiator's row, in a copy,
or under way, is backed by evidence that lasts (`Evidence`: a job that succeeded, a
transfer that was completed or terminated), and that excludes the other result.
Overwritten results are thus lost, never wrong. `StartInv` is the argument why
nobody starts early: rows and jobs, once there, stay (`There`); a start, a status or
a result under way presupposes the instance, or the job, that it is about
(`CallsReady`); and unless a user sets the outcome, outcomes come only after the
initiator has begun to listen or has given up, a worker counted as running has its
job, and the rows and copies of the workers still to be started say pending
(`InOrder`), so that a start is never turned away and counted all the same.

*Algorithm events.* The server holds the parts of an upload in a buffer that
outlives calls and connections, and calls the data complete when it has as many
parts as were announced. `StoredInv` says that the one chunk under way is in
exactly one place, on the wire, in a handler or in an acknowledgement, and that the
buffer holds exactly those before it (`OnTheWire`, `Answered`, `InHand`). It is
given up for the behaviours in which the server dropped a buffer between two chunks
or the instance lost the transfer to the recipient.
`TimeInv`: if no two events are saved at once or in one millisecond, each is later
than those that are stored and than the last that was polled, and what is stored
with an earlier time has been returned.

*The catalogue.* While the data plane's calls do not overlap there is one call
under way (`Alone`). `Sending` says what it has stored and sent, `Syncing` and
`Changing` which rows its handler has made so far, and `Handled` that with its
answer they agree with the datasets. The handler of a whole catalogue loads the
links first: what is linked then is also in what was sent, so none of the
data plane's own datasets is refused on the way. A lost message ends the call and
leaves rows of datasets that are still stored (`Shown`). The links need less: calls
may overlap, as long as handlers that are at work are about different datasets
(`Apart`) and the control plane does not stop. A row that is not linked was made by
the handler of a whole catalogue that is still at work and links it at the end
(`Belongs`), and what the others have found does not change meanwhile (`Works`).

*Status lists.* `ListInv`: the copy of a list that only one call works on is its
row (`CopiesKnown`). A step that writes a list two calls share makes it raced,
and raced lists are excepted; the step that could break it unseen is the
creation of a list that exists, which `Numbered` excludes: the lists that exist
are the first ones, so their number is the name of a new one (`FirstLists`, with
the library's facts on cardinality). `IndexInv`: every revoked index, also in a
copy, was asked for (`OnlyAsked`, raced or not), and no two credentials of a
list that is not raced share one (`Distinct`). `Fitting` bounds the entries a
list has together with those it may still get from calls that have counted it
already (`Coming`): a call counts them all, so on a list of its own there is
room for one more, and each further call that shares the list adds one at most.

*Only model-checked*: everything under fairness (`AgreedIsFinalized`,
`SignedIsFinalized`, `SuccessIsKnown`, `FailureStopsAll`, `CreatedIsReturned`,
`UploadedArrives`, `DeniedIsStopped`), since liveness is out of the prover's reach.
Every invariant and every refinement that a passing run checks is a theorem.
No model here computes by recursion, and no theorem
rests on induction over data.

## 6. Not modelled

- *Data plane registry*: health checks, pulls, identity and removal of data
  planes. The counter of missed checks is changed on a fresh copy and not saved,
  so its limit is never passed; a model of it would restate that line.
- *HTTP data plane*: `HttpTransferHandler`'s proxies. They look at the transfer's
  state once, when a request comes in; what follows is an HTTP stream.
- *Algorithm instances*: removal and pruning, algorithms of several parts,
  Kubernetes, what an image computes.
- *Events and bridge*: events without a bridge, acknowledging and listing events;
  the queue of messages without acknowledgement, the registration of job tokens.
- *Policy*: JSON schemas and paths of a DIF input descriptor, the endpoint that
  evaluates on demand, editing of templates meanwhile; two rounds at once, which
  needs a round longer than its interval.
- *Wallet*: imported credentials, issuance protocols (DCP, OID4VCI),
  presentations, keys, DIDs. Their content is cryptography and JSON; to the rest
  the wallet is a signature that may fail.
- *SSO bridge* (an OAuth server over stored users and clients), *semantic
  observability* (records, changes nothing), user interfaces, data transfer
  objects, common libraries, deployment, tools, website: no protocol of their own,
  or none that changes state of the components above.

## 7. Running

    for cfg in MC*.cfg; do m=${cfg%.cfg}; tlc -workers 2 -config $cfg ${m%%_*}.tla; done
    for m in *Proofs.tla; do tlapm $m; done
