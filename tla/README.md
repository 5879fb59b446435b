# TLA+ models of pi-cloud

pi-cloud runs coding agents for many users. What these modules model is its core promise:
one *Session* (a durable, append-only conversation) is executed by many short-lived Pi
Workers, one after another, and neither a crash, a lost reply, a paused process nor a user's
Stop lets two of them write at once, loses an acknowledged commit, or ends a Run twice. Around
that core stand models of what an execution touches: the messages people send it, its Stop,
its tool commands, the routes to its sandbox, the virtual machine behind them, and the lease
under which a controller owns that machine.

Paths below are relative to the repository. Short names of files stand for
`packages/runtime-core/src/…` unless another package is named.

## 1. The system

### 1.1 Parts and how they interact

    user ─► control plane ──(runs row)──► Pi Worker ──(Kafka transactions)──► partition
                 │  ▲                       │  ▲                                  │
                 │  └──── PostgreSQL ◄──────┘  │ lease, heartbeat                 ▼
                 └─(Stop, seals in the outbox)─┴──► publication control ──► Session Projector
                                                                              │  └─► PostgreSQL
                        Worker ◄──(reply topic)── Cube executor ◄──(tool commands)──┘
                                                       ▲
                              Sandbox controllers ─────┘ create, recover, retire machines

| Part | State it keeps | Operations | Correct when |
|---|---|---|---|
| Lifecycle tables (`packages/domain/src/state-machines.ts`) | none | permitted edges of Session, Run, cancellation request | no transaction takes an edge outside the tables |
| Run admission, Stop (`packages/control-plane/src/control-plane-store.ts`) | `runs`, `turn_control_requests` | enqueue, cancel unclaimed work, accept a Stop | mailbox order is kept |
| Mailbox readiness (`run-readiness.ts`) | `runs.ready_at` | `advanceLaneReadiness` inside each settling transaction | the next Run becomes ready, and only when its predecessors have settled |
| Leases (`session-lease-coordinator.ts`, `session-lease-release.ts`, `pi-session-worker-ownership.ts`) | `session_leases`, `pi_sessions.lease_epoch` | issue with the claim, renew, expire, release | the next lease is issued only behind the closure of the previous writer |
| Run execution (`run-executor.ts`, `worker-execution-log.ts`, supervisor-host's `agent-run-execution-backend.ts`) | memory of one Worker process | claim, open writer, commit native batches, finish, request recovery, record a terminal failure, confirm exit | what it acknowledged survives it |
| Session producer (`packages/event-log/src/kafka-session-writer.ts`, `direct-session-kafka.ts`) | one Kafka transactional producer per lease | authorize, initialize, authorize again, append, close | an obsolete producer never writes behind its successor |
| Forced closure (`execution-stream-seal.ts`, `session-outbox-relay.ts`, `postgres-publication-control.ts`) | `outbox`, `writer_failed_at` | request a seal, take the producer over, append `execution_seal`, mark the row published | a lost writer is closed exactly once in the log |
| Session Projector (`execution-stream-projection.ts`, `work-finished-projection.ts`, `postgres-durable-commit-projector.ts`, `accepted-fact-recovery.ts`) | durable history, `writer_sealed_at`, Run outcome, `accepted_fact_projection_offsets`, in-memory prefixes | project `durable_commit`, `work_finished`, `execution_seal`; resume | PostgreSQL is the image of the log, whatever was replayed |
| Partition consumer (`packages/event-log/src/kafka-log-consumer.ts`) | group offset | deliver in order, pause and retry a failing record, reassign, commit before an effect | no record is skipped; none stalls the partition; no effect leaves twice |
| Reconcilers (`packages/control-plane/src/{assignment,session-expiry}-reconciler.ts`, `quarantined-session-recovery.ts`) | — | sweep expired leases, retire a Worker, end a quarantine | abandoned work is closed and requeued |
| Sandbox bindings (`packages/sandbox-control/src/sandbox-bindings.ts`, trigger `pi_cloud_binding_change`) | `sandbox_tool_bindings`, one `outbox` row per change | register, adopt, close, revoke with the allocation, release | a binding never reopens, every change has its outbox row |
| Binding view (`packages/sandbox-control/src/sandbox-binding-view.ts`) | routes in memory of the partition's owner | load, prepare, consume, evict, look up | no open route survives a published closure |
| Control change publication (`session-control-outbox.ts`, `session-outbox-relay.ts`, `session-publication-ingress.ts`, `http-publication-client.ts`, `session-projector.ts`) | outbox claims, publications under way, group generation | flush, claim, accept, prepare, append, consume, hand the partition over | a closing call returns behind the revocation; every change is published and consumed |
| Cancellation (`run-cancellation-executor.ts`, `packages/supervisor-host/src/agent-run-execution-backend.ts`, `packages/sandbox-supervisor/src/agent-run-supervisor.ts`) | `turn_control_requests`, the Worker's executions | claim an attempt, start, abort, retry, fail, requeue | a Stop takes effect in order, on the execution it was meant for, and never re-opens a settled Run |
| Tool dispatch (`packages/sandbox-control/src/{tool-command-dispatcher,sandbox-session-runtime,runtime-quarantine}.ts`, `packages/event-log/src/tool-replies.ts`, the executor patch under `deploy/cubesandbox/patches/`) | commands in the log, group offset, the executor's table, replies | publish, commit, hand off, admit, run, answer, cancel, retire, quarantine | a command is handed over once, is admitted in log order, and its answer is true |
| Workspace runtimes (`packages/sandbox-control/src/{sandbox-controller,workspace-runtime-state-repository,cubesandbox-sandbox-provider}.ts`) | `workspace_runtimes`, allocations at Cube, a controller's memory | reserve, create, recover, bind, retire, release, take over from a dead controller | one machine per Workspace, none behind a released row |
| Controller lease (`workspace-runtime-state-repository.ts`) | `sandbox_control_instances`, a local deadline | register, renew, ask for health, mark expired ones, commit a lifecycle transaction | no commit of an owner whose row ran out |
| Human inputs (`packages/control-plane/src/{queued-input-service,submit-input,upload-input-pins,stopped-inputs}.ts`, `packages/sandbox-supervisor/src/durable/human-inputs.ts`) | Pi's queue in the native log, its projection, uploads and pins | submit, queue, edit, withdraw, consume, return by a Stop, reconcile pins | a message is placed once, its files stay, a Stop gives back what was not taken |

Everything else the repository holds (the sandbox guest, attachments, accounting, web UI,
charts, …) is listed in `PROJECT.json` as not modelled, with the reason.

### 1.2 What is hard

* **Fencing takes effect before authority is re-read.** `initTransactions` fences the current
  writer at the broker; only then does the code find out whether it was entitled to. A Worker
  that stalls there can knock out its successor (`kafka-session-writer.ts:94`).
* **Two ways to close a writer.** `work_finished` and a forced `execution_seal` race in the
  log, while the decision that asked for the seal is already in PostgreSQL.
* **In-doubt commits.** A `commitTransaction` whose reply is lost may or may not be in the log.
* **Replay.** The Projector restarts from a group offset that may lag its own database, or
  from a recovery floor that pulls it back; a handler that throws stalls every Session on the
  partition.
* **Late reads.** The binding view reads PostgreSQL asynchronously, for publications and for the
  log at once; a row read before a closure can arrive after it, and the entry it is for may have
  been evicted meanwhile.
* **Owners that do not know they are none.** A member of the consumer group that has lost the
  partition goes on until its callback runs; a controller whose lease ran out goes on until its
  local deadline. Only the coupling of the write to the group generation, or to the lease row,
  stops them.
* **Publication by several hands.** A change is published by whichever relay claims it and by the
  call that made it, each ignoring the others' progress; claims lapse under slow relays.
* **Attempts that outlive their execution.** A cancellation attempt, a handoff or a create
  request can arrive after the Run was recovered, the machine retired, the binding replaced.
* **Uncertain effects.** A create request or a tool command without an answer may have happened,
  may happen yet, or never.
* **Projected state as input.** Admission and a Stop read what the Projector has written, which
  lags behind what the Worker knows.
* **Races of terminal decisions**: Stop, failure of a Stop, terminal failure, quarantine, lease
  expiry and Worker retirement all settle or release the same rows.

`PROJECT.json` lists these as hazards, each at its line, with the properties that guard it.

## 2. Modules

| Module | Models |
|---|---|
| `RunStates` | the lifecycle tables |
| `RunLedger` | the PostgreSQL rows of one Session and every transaction on them |
| `KafkaSessionWriter` | the producers of one Session and the broker as the code uses it |
| `SessionOwnership` | the composition: Workers, publication control, relay, Projector, reconcilers |
| `SessionProducers` | `KafkaSessionWriter` alone, under an authorization that may answer anything |
| `FencedLog` | the abstract log with one owner at a time that `SessionProducers` implements |
| `BindingView` | the routing view's entries as pure operators: what applying a row does, what closure and look-up see |
| `BindingRevocation` | one binding's row and outbox, relays and flushing calls, owners of the partition, the group, the view's asynchronous reads |
| `RunCancellation` | the Stop of one Run, attempt by attempt, with the Workers' own view of its executions |
| `ToolDispatch` | a tool command from its commit to the process in the machine, and its answer back |
| `WorkspaceRuntimes` | the machine of one Workspace under several controllers, every allocation from reservation to release |
| `ControllerLease` | the ownership lease of the controllers and the fence around their lifecycle transactions |
| `OwnerLease` | the abstract lease the rest of the controller takes it for; `ControllerLease` implements it |
| `HumanInputs` | a message from the browser to Pi's queue, its edits, its attachment, its return by a Stop |
| `…MC` | names for TLC, symmetry or the breaking of it; `BindingDeliveryMC` and `ToolDispatchMC` also say which courses of events their runs look at |
| `…_proofs` | theorems and proofs (section 4) |

`SessionOwnership` composes `RunLedger` and `KafkaSessionWriter`; `BindingRevocation` builds on
`BindingView`. The others meet at facts each of them proves or checks: `BindingRevocation` hands
`closeWriter` a revocation that is installed before a seal is appended; `RunCancellation` and
`HumanInputs` rely on `SessionOwnership` for what an execution published being projected before
the seal that closes it, and for a sealed writer appending nothing; `WorkspaceRuntimes` has
owned transactions as `OwnerLease` promises them.

### 2.1 State and code

* **`SessionOwnership`, `RunLedger`, `KafkaSessionWriter`.** A lease is named by its fencing
  token, which is the Session epoch: `lease[e]` is the `session_leases` row with
  `fencing_token = e`, its `lease_id` and `writerId` included. 0 is a null lease. One Run holds a
  lease in this version, so the seal of a (Run, lease) is named by `e` too. `run[r]` is the Run
  at mailbox position `r` with its cancellation request. `native` is `pi_durable_commits`: commit
  sequence → offset of the record that was applied. Offsets are positions in `log`, which holds
  the Session's records only; 0 is a null offset. Client `e ∈ Leases` of `KafkaSessionWriter` is
  the writer of the Worker that claimed `e`; every other client is one attempt of
  `PostgresPublicationControl#seal`, used once, as in the code. Every operator of `RunLedger`
  that primes variables is one database transaction with all its effects. Guards are the code's
  row predicates, early returns are disabled actions, and a `throw` inside a projection is
  `Throws`: the record is retried, so the action is disabled (`kafka-log-consumer.ts:509`), and
  `ProjectorNeverStalls` says that no record throws. `worker[e]` is where the executor of lease
  `e` stands; `head[e]` the commit count its Agent loaded when its writer opened; `prefixes`,
  `pos`, `groupOffset` are the Projector's.
* **`BindingRevocation`.** A version is the index of the outbox row the change committed with, so
  the row's `revision` is `Len(outbox)`. `unpublished` lists the rows with a null `published_at`
  in the order of `created_at`, which is the start of their transaction and need not follow the
  versions. `outbox[v].claimant` stands for the `attempts` token: a relay excludes the rows it is
  delivering from its claims, so its token is current exactly as long as it is the last claimant.
  A member of `requests` is one publication at the stage it has reached: *sent*, *read* (the row
  was read, with entry object and assignment captured before the `await`), *append*, *acked*.
  `caller[c]` is a call inside `flushEntities`. `assigned[i]` is the group generation under which
  instance `i` believes to hold the partition. `view[i].entries` keeps every entry object of one
  assignment, also those the map has forgotten, because a late read still refers to them.
* **`RunCancellation`.** `run` is the row with its lease validity and output seal; `stop[s]` the
  `turn_control_requests` rows with their `attempts` and `available_at`; `exec[e]` the execution
  of lease `e` in its Worker's memory (`stopOnResume` is `gate`, `opening.cancellationStarted` is
  `starting`); `task[w]` the Worker's entry of `#activeCancellations` with what its attempt read.
* **`ToolDispatch`.** One partition, one machine, the bindings that own it one after the other.
  `log` holds commands, cancellations, retirements and the seals of Runs; `group` and `proj` are
  the consumer group and each Projector's delivery loop; `rpcs` the requests on their way to the
  executor; `cube` and `exec` the executor's manager and table; `call` and `replies` the Worker's
  side. `handed`, `ran`, `admitted`, `fenced` and `strays` are history for the properties.
* **`WorkspaceRuntimes`.** `row` is `workspace_runtimes`; `cube` and `posts` what exists at Cube
  and what is on its way there; `mem`, `queue` and `job` a controller's maps, its Workspace queue
  and the operation that has its turn, step by step. Every write of a row is an owned transaction
  that commits only under a current identity and whose reply may be lost.
* **`ControllerLease`.** Times are kept as what is left of them and counted down by `Tick`: the
  clocks of a process and of the database run at one rate and need not agree on the hour.
* **`HumanInputs`.** `native` is Pi's state at the end of the log, `view` what the Projector has
  projected of it, `tail` the records between; `attempt[i]` a submit request with its pin, `lock`
  the admission transaction that holds the Session row, `op[o]` an edit or withdrawal, `calls`
  the commands on their way to a Runner, copies included.

### 2.2 Environment and bounds

Faults are explicit and counted, or named in a set `Faults` an instance chooses from: lost
replies, in-doubt commits, crashes, leases that run out under a live process, aborted
transactions, rebalances, quarantines, refused or unanswered calls. What follows from a fault
(a seal, the expiry of a dead Worker's lease, the recovery of a doubtful allocation) is not
counted. Stalling costs nothing: any process may stop between any two steps for as long as it
likes in every safety run.

Bounds: `NumRuns`, `MaxLease` (executions), `MaxCommits` per execution, `MaxAttempts`, `MaxStops`,
`MaxSent`, `MaxVersion` (changes of a binding), `MaxEntries` (entry objects per assignment, so
evictions), `MaxRequests`, `MaxGeneration`, `MaxCalls`, `Capacity`, `MaxFaults`, and the sets of
clients, controllers, allocations, messages and requests. They appear in guards only; what else a run leaves
out is an action constraint its MC module explains (`InCourse`, `Bounded`, `FirstReserved`). Runs switch
deadlock checking off where these bounds end behaviours or a settled system legitimately has
nothing left to do; `succession`, whose clock always ticks, keeps it on.

## 3. Runs

| Run | Instance | States | What it shows |
|---|---|---|---|
| `mailbox` | 2 Runs (the second scheduled, so cancellable unclaimed), 3 leases, 1 commit each, 1 seal attempt, 1 fault | 2.5 M | `WriterOrder`, `ClosureBeforeSuccessor`, `LoadedHeadIsComplete`, `NoReexecution`, `NativeIsCommitPrefix`, `CommitsMaterialized`: handover inside one Run and from Run to Run, `work_finished` against the recovery seal |
| `stops` | 1 Run that may be stopped, 2 leases, 2 seals at once, 1 fault | 3.4 M | `OneTerminal`, `TerminalStable`, `NothingAfterClosure`, `ProjectorNeverStalls` with all six ways a Run ends and two duelling seals |
| `progress` | 1 Run, 3 leases, 3 control clients, 1 fault, fairness | 0.14 M | `FailedWriterIsClosed`, `RunSettles` |
| `producers` | 3 producers, 2 records each, any authorization | 22 k | `AcceptedPrefix`, and that `KafkaSessionWriter` implements `FencedLog` |
| `revocation` | 2 instances, 1 caller, 2 versions, 2 entry objects, 2 generations, 2 publications | 3.2 M | `RevocationInstalled`, `CloseConfirmed`, `RevokedForGood`: late reads, eviction, replay and a handover either side notices late |
| `delivery` | 2 instances, 1 caller, 3 versions, 2 publications, 2 generations, 1 fault, fairness; two courses | 0.31 M | `ChangesPublished`, `ChangesConsumed`: across a handover, and with two relays and a caller that publish the same rows out of order |
| `succession` | 2 controllers at one URL, `Lease` 3, `Heartbeat` 1, `Budget` 1, 2 calls; deadlock checked | 0.3 M | `CommitUnderLease`, `ImplementsOwnerLease`, `SuccessorStarts` |
| `machines` | 2 controllers, 2 allocations, 1 fault, fairness | 0.33 M | `OneMachine`, `ReleasedIsGone`, `RetirementEnds` |
| `cancellation` | 2 Workers, 2 leases, 1 Stop, 2 attempts, 6 kinds of fault, fairness | 0.55 M | `StopIsHonoured`, `StaleAttemptsAreInert`, `StopSettles` |
| `tools` | 2 commands of a binding that is then replaced, 2 Projectors, 1 of 14 faults besides the retirement, fairness | 0.32 M | `AdmittedInLogOrder`, `OutcomesAreHonest`, `HandedOffOnce`, `CancelFences`, `RetiredToolsAreInterrupted`, `EveryCommandIsAnswered` |
| `inputs` | 2 messages, 1 upload, 2 attempts, 2 Runs, 2 leases | 2.5 M | `PlacedOnce`, `AcceptedIsPlaced`, `FilesAreKept`, `ReturnIsExact` |
| `input_progress` | 1 message, 1 attempt, 1 edit or withdrawal, fairness | 0.15 M | `ChangesAreSeen`, `QueuedIsTaken` |

Why the bounds are enough. Two leases let one execution supersede another, and the third one covers
a successor that is itself fenced by a late initializer. One commit per execution makes the boundary
cases (none, in doubt, accepted, projected) distinct; two commits add states but no new comparison,
since guards only compare a sequence with the length of the history. One fault allows a failure at
every point of everything else, with the seals, expiries and recoveries that follow from it
uncounted. `progress` needs three leases and three seal attempts for a single fault: the faulted
attempt, and its late initializer fencing the next ones. With fewer, the bound rather than the code
would end the behaviour, and the liveness properties fail for that reason. For the binding, two
versions are an opening and a closing; two publications let a late read race a fresh one; a second
entry object is one eviction under a reader; two generations are one handover. `delivery` checks liveness,
where the whole product of these is out of reach, and looks at two courses instead, each with any one
failure (`BindingDeliveryMC`). In *handover* one relay publishes one change at a time, of every kind, while the partition
leaves its owner and comes back. In *competition* two relays and the registering caller publish up to three
versions, two at a time and also the newer before the older: a claim is overtaken by the other relay, or
by the caller, and its late receipt finds the row claimed or published. Two commands of one
binding in an executor of capacity 1 are the smallest case with an order, a full table, and a
replacement while a command is on its way. In `tools` a retirement is no fault: it may come at any point of
a run without one, also while a command runs, and then one crash, handover, lost commit or lost
request may follow on its way to the machine (`ToolDispatchMC`, `OnTheWay`). Slow requests behind
a retirement, and a second loss, are beyond the bound (section 5 has what two losses do).
In `cancellation` two leases hold both ways to lose a Stop that section 5 names; three leases with
crashes, lost acknowledgements and failing queries were checked once and hold too (2.4 M states).

Symmetry is used where processes are interchangeable and nothing in the specification tells them
apart (control attempts, instances, submit requests), and in safety runs only. `cancellation`,
`machines` and `tools` check liveness, so they break the symmetry instead: `FirstClaim`,
`FirstReserved` and `FirstOwnerSpec` fix which of two equal processes moves first.

Each property is paired with a mutant of the code it guards (definitions marked "Mutant" in the
modules); TLC finds each one violated. Invariants the modules state and no run repeats are
`InflightIsNewest`, `EpochOrder`, `OutcomeIsFinal`, `OneSureOwner`, `DeadlineWithinLease`,
`QuarantineAdmitsNothing`, `ClosedForGood` and the type invariants of the modules section 4 covers;
all of them are proved there.

### 3.1 Fairness

No fault is ever forced, and no user action either. What is assumed is that loops go round and
awaited calls with a timeout end.

* `SessionOwnership`: weak fairness of the claim loop, the executor of a live Worker, the relay with
  its publication control, the broker deciding open transactions, the Projector, the expiry sweep
  (after the lease of a Worker that is gone runs out), retirement of a crashed Worker, and the
  Runner's exit confirmation.
* `BindingRevocation`: the relays' polling, claims running out once nobody delivers them, the calls'
  loops, each step of a publication, and the consumer (rebalance callback, load, handler). In `delivery`
  each of these is owed only where its course allows the step.
* `HumanInputs`: the admission decision and `ReconcilePin` per attempt, the Projector, per lease the
  Worker's input line, opening, end of work, abort, seal and recovery request; consumption of queued
  messages by Pi while a Runner works. Strong fairness of `Claim` only: each pass of the claim loop
  looks again, and admission holds the Session row only for moments. Nobody need send or stop.
* `RunCancellation`: claim by some Worker, the executor's next attempt per Worker, `BecomesDue`, the
  Worker opening, losing or ending an execution as the code drives it (the end of a Runner only where
  the user aborted it, or where its opening could not record a Stop), publication or recovery request, expiry of executions that are gone,
  reconciliation, projection.
* `ToolDispatch`: notices, assignment, the Projector's delivery loop, admission, a tool starting or
  failing to, its answer, and closing a retired executor.
* `WorkspaceRuntimes`: each controller's creation and maintenance loops, expiry of a dead controller's
  lease, orphan claiming, Cube creating what it accepted, and the owner's reconciliation.
* `ControllerLease`: the clock, registration, and the abort of a transaction that runs into its limit.

The model shows what `docs/RUN_LIFECYCLE.md` and `docs/ARCHITECTURE.md` accept: a stalled
initializer that returns late can cost an innocent successor its lease, which then goes through
recovery like any other lost writer. The Run still settles.

## 4. Proofs

The theorems hold for every value of the constants: any number of Runs, leases, clients, commits,
instances, commands, attempts and failures. The only hypotheses are the named assumptions of the
modules: the constants are numbers or finite enough to count, a Worker's client is named by its lease
(`LedgerAssumption`, `OwnershipAssumption`, `ProducersAssumption`, `BindingAssumption`,
`CancellationAssumption`, `InputsAssumption`, and `OpsAssumption`, `BoundsAssumption`, `FaultsAssumption` of
`ToolDispatch`; for `WorkspaceRuntimes`, `NothingAssumption` and `BoundAssumption`: no request,
instance or machine is called `Nothing`, the bound is a number; for `HumanInputs`, `InputsAssumption` also
tells requests and edits apart), and for the controllers `LeaseAssumption`: two heartbeats fit into a lease, which the
constructor of the repository class checks (`workspace-runtime-state-repository.ts:351`).

| Module | Theorem | Establishes |
|---|---|---|
| `SessionOwnership_proofs` | `TypeCorrect` | `[]TypeOK` |
| | `WriterOrderHolds` | the records of the partition lie in lease order |
| | `ReleasedBehindClosure` | a lease is released only behind its recorded closure; all but the newest are released |
| | `ClosureBeforeSuccessorHolds` | every lease but the newest has an accepted closing record of its own, at the offset that closed it |
| | `NothingAfterClosureHolds` | nothing of a writer lies behind its closing record |
| | `OneTerminalHolds`, `TerminalStableHolds` | a Run has one terminal event, and its outcome never changes |
| | `NoReexecutionHolds` | work whose outcome the log carries is not executed again |
| | `NativeIsCommitPrefixHolds` | the durable history is the sequence of accepted commits, without a gap or a duplicate |
| | `CommitsMaterializedHolds` | closing a writer drops nothing it was acknowledged for |
| | `LoadedHeadIsCompleteHolds` | an Agent that may append has loaded, or written itself, every commit there is |
| | `ProjectorNeverStallsHolds` | no record makes its handler throw, whatever was replayed |
| `SessionProducers_proofs` | `TypeCorrect`, `AcceptedPrefixHolds` | what a producer was told is accepted is in the log, in order, without holes |
| | `FencedForGood` | `EpochOrder` and `InflightIsNewest`: a fenced producer never gets a record in again |
| | `ImplementsFencedLogHolds` | `KafkaSessionWriter`, under any authorization, implements `FencedLog` |
| `ControllerLease_proofs` | `LeaseTypeCorrect`, `DeadlineWithinLeaseHolds`, `OneSureOwnerHolds` | a local deadline never outlives the row; one instance at most is sure of its base URL |
| | `CommitUnderLeaseHolds` | a lifecycle transaction commits only under the lease of its owner |
| | `ImplementsOwnerLeaseHolds` | the protocol implements `OwnerLease` |
| `ToolDispatch_proofs` | `TypeCorrect`, `AdmittedInLogOrderHolds` | the machine admits commands in the order of the log, each position once; how admitted tools are then scheduled is not stated |
| | `QuarantineHolds` | a condemned machine (stray process, failed preparation, expired lifetime) admits nothing and stays condemned while it exists under its executor |
| | `HandedOffOnceHolds` | a command leaves a Projector once, behind the group commit that passed it |
| | `CancelFencesHolds` | a command covered by a cancellation the executor accepted is not admitted later |
| | `OutcomesAreHonestHolds` | a command answered `not_started` never runs; an answered result is its own execution's |
| `WorkspaceRuntimes_proofs` | `TypeCorrect`, `OneMachineHolds` | the Workspace never has two machines |
| | `ReleasedIsGoneHolds` | a released allocation has no machine, and a creation still on its way makes none |
| | `ClosedForGoodHolds` | an allocation leaves closure only by release |
| `HumanInputs_proofs` | `TypeCorrect`, `PlacedOnceHolds` | a message becomes at most one thing: a Run or a message in Pi's queue |
| | `AcceptedIsPlacedHolds` | the message of a request answered `accepted` is placed |
| | `FilesAreKeptHolds` | the files of a placed message that was not withdrawn are not deleted |
| | `ReturnIsExactHolds` | a Stop gives back every message its Run accepted and Pi never took; whatever else it gives back, or is taken after it was given back, was recorded by its Run and accepted by a later one on a repeat (section 5) |
| | `ChangesAreSeenHolds` | what Pi took, withdrew or aborted is not changed by a later edit |
| `RunCancellation_proofs` | `TypeCorrect` | types, and an attempt at work names a Stop and a lease that were issued |
| | `TablesAgreeHolds` | the states of the request rows, the Run row and the Session row agree |
| | `StopIsHonouredHolds`, `OutcomeIsFinalHolds` | no abort before its acknowledgement, no effect of a gated execution; the outcome of a terminal Run and of a settled Stop stays |
| | `StaleAttemptsAreInertHolds` | an attempt that outlived its execution writes nothing |
| `BindingRevocation_proofs` | `RevocationInvHolds` | the inductive invariant below, with the types |
| | `RevocationInstalledHolds`, `CloseConfirmedHolds`, `RevokedForGoodHolds` | a published closure leaves no open route at the owner; a returned close is installed; closed stays closed |

### 4.1 The arguments

**One writer** (`SessionOwnership_proofs`). `WriterOrder` is not inductive. A new lease needs all
older ones released, and a released lease has `writer_sealed_at`, so the after-init read refuses it
from then on (`LeaseInv`). A client that holds the newest producer epoch and passed that read writes
for the newest lease *at that moment*; a later lease cannot exist before this writer is closed in the
log, and whoever appends next must first initialize, which fences it. `IInv` therefore carries which
lease each client writes for (`ScopeInv`), that epochs are unique and bounded by the broker's
(`EpochInv`), that an open, unfenced client writes for a lease at least as new as every record in the
log (`FenceInv`), the same for the transaction in flight (`InflightInv`), and that records belong to
issued leases (`LogInv`). Its first part says once, per database transaction, what it does to
`LedgerTypeOK` and that lease rows stay released and sealed (`LeasesKept`).

**Outcomes** (the second part of `SessionOwnership_proofs`). `OutcomeInv` adds to `IInv`: an offset in a lease row is the
position of that lease's closing record (`ClosureInv`); what the Run, lease and executor rows tell of
each other (`RowsInv`); that a writer whose closing record is under way or accepted sends nothing
else (`SilenceInv`); that a result in the log is either projected or still ahead of the Projector, and
behind a seal is taken by nobody (`ResultInv`). `StepMoves` shows that every step moves the Run
rows in one of five ways (it rests, claims, gives up, settles, requeues), so that the
preservation proofs split on five cases instead of every action; every other step without a new
record is `Quiet`.

**History** (the last part of `SessionOwnership_proofs`). `HistoryInv` stands on `OutcomeInv` and says four things. In the
log, a commit carries its place among the commits; an Agent that may still append has loaded, or sent
itself, all of them, so the open transaction has the next place (`WritingInv`). The durable history is
exactly the commits in front of the offset PostgreSQL expects next (`Applied`). That offset is behind
every closure that was recorded (`Reached`). And the rows tell which executions are in progress, whose
`first` is the first record they published, already read by this Projector or still ahead of it
(`ExecutionInv`); this is what a Projector that restarts needs to rebuild the prefix it applies at a
`work_finished` or a seal. The crux is `OpenedKeeps`: a successor loads the history when all older leases have
their closure projected, and behind a closure lies nothing (`NothingAfterClosure`), so at that moment
no commit is unprojected. Steps that project nothing only have to keep the rows and heads
(`Unprojected`, `HeadsRest`); a record that is projected for the first time takes its rows in one of
four ways (`Touched`, `Anchored`, `Sealed`, `Erased`). `ProjectorNeverStalls` then follows per kind of
record (`NothingThrows`).

**Producers** (`SessionProducers_proofs`). `Ordered` is the types with: epochs belong to their
producer, what was sent is sent in turn, and the log holds each producer's records in turn. The
refinement is a step simulation: initializing is taking ownership, a commit by the newest epoch is an
append, everything else stutters.

**Controller lease** (`ControllerLease_proofs`). A local deadline is at most what the row has left,
because a renewal starts its deadline before it sends (`DeadlineOfOwner`); one ready row per URL
(`OneReadyRow`); a transaction that locked the row keeps it from being marked (`LockedInLease`).

**Tools** (`ToolDispatch_proofs`). Everything on its way refers to a place in the log that holds it
(`Located`); the executor's table keeps the order of those places (`ExecutorInv`); a handoff is
behind the committed group offset, which no other Projector repeats (`OneRecordEach`, `HandoffInv`).
`OutcomeInv` relates the executor's table to the replies: a request on its way to the executor is the
only one of its command and was handed over (`RequestInv`), a handler's answer is about its own request
(`AnswerInv`), the table tells what ran (`RanInv`), and a reply is given when its command is spent,
never to be admitted, or finished (`ReplyInv`). `CancelFences` needs three orders of the log: a
cancellation lies behind the command it is about (`PublishedInv`), nothing is handed off behind the
retirement of its binding (`ClosedInv`), and the machine's position is behind the record of every
cancellation it accepted (`FencedInv`); a command in front of that position is refused as late.

**Machines** (`WorkspaceRuntimes_proofs`). `MachineInv` says what the row of an allocation proves
about Cube (`RowInv`: nothing is there that was not issued; a released allocation is gone there or was
never issued) and what every process knows at each step of its operation (`ProcessInv`: a release is
reached with the machine gone, or with an allocation that is not issued and that nobody else can issue).
That nobody else can is `AloneInv`: an allocation that is not issued belongs to one creation. It follows that
at most one allocation is live (`LiveInv`), since a reservation is made only when none is. `OneMachine`
alone is not inductive: nothing in it stops a process that is past its checks from releasing a row
whose creation is still to arrive. Each step moves the row of one allocation in one of the ways of
`RowMoves`, and `ProcessStep` carries what the other processes know over it. TLC found `MachineInv` to
hold on the instance of `machines` before it was proved.

**Inputs** (`HumanInputs_proofs`). A submit request decides from two things that lag behind the Worker:
the Run rows and the projected Session. `PlacedOnce` alone says nothing of what they may miss, so
`InputInv` says it in layers. The rows (`LedgerInv`): at most one lease writes, the tail of
unprojected records is its own, and behind its end lies nothing but its seal. The Session
(`JournalInv`): Pi's queue holds messages of the Run at work only, and whatever the projection lacks is
in that tail; so when every Run is closed the tail holds nothing but seals and the projection shows
every message, which is when the admission looks for one in it (`AllClosedMeans`). The requests (`AttemptInv`,
`CommandInv`): the reader that holds the Session row has seen no place for its message; a
command that can still reach a working execution is of the request admitted for it, which waits for
its answer or is done, and never of a message that became a Run. Then `PlaceInv` keeps a message in one place, `FileInv`
keeps its files with their acceptance or with the pin of the request that placed it, until the writer is
sealed and the projection shows the message (`Holds`), and `ReturnInv` keeps what a Stop read
untaken by its Run. That a repeat is the only exception of `ReturnIsExact` needs the order of the Runs
(`OrderInv`): Runs are served one after the other (`OrderedInv`), so what the admission reads and what
an execution hears of is not placed in an earlier Run (`HeardInv`), a message is recorded for no Run
behind the one that placed it (`MetaInv`), and what is projected or given back was recorded
(`SeenInv`). Every step is one of a few kinds for the rows and the log (`StepKinds`: a writer acts, a
row is rewritten, a lease is claimed, a record is projected, nothing of these) and only grows what
is settled (`GrowsStep`); the steps of requests and commands are then proved one by one. TLC found `InputInv` to hold
on the instances of `inputs` and `input_progress` before it was proved.

**Cancellation** (`RunCancellation_proofs`). `Sound` has the types, what rows refer to, that statuses
agree with the tables, that acknowledgement precedes abort (`Honoured`) and that an attempt's number
is never ahead of the row's (`InTurn`).

**Binding routes** (`BindingRevocation_proofs`). The tables tell one history (`HistoryInv`) and every
read under way is of that history (`Witnessed`), as is what entries remember (`Remembers`); a live
read pins the entry the map names (`ReadInv`), so only that entry may hold a row (`SoundView`);
assignments belong to generations (`AssignmentInv`). *Shut* is an entry that is closed, or not open
with no read of an open row under way: stable once the binding is over, and what a new owner loads. A
publication past its preparation has its closure installed, and the group transaction of the current
generation makes that the owner's. TLC found
`RevocationInv` to hold on the instance of `revocation` before it was proved.

### 4.2 What is only model-checked

* Liveness (`RunSettles`, `FailedWriterIsClosed`, `ChangesPublished`, `ChangesConsumed`,
  `SuccessorStarts`, `RetirementEnds`, `StopSettles`, `EveryCommandIsAnswered`,
  `QueuedIsTaken`, and the leads-to part of `RetiredToolsAreInterrupted`): outside
  what the proof system can do here, with everything that needs `ENABLED`.

## 5. Divergences

Where reading the code for a model showed that it does something its comments or documents do not
say. The models follow the code; where a divergence lies inside a model, its guard or fault is named.

* **A successor before the retirement.** `sandbox-controller.ts:3633-3636` wants the physical identity
  retired "before a successor is allowed to reserve the same Workspace". Recovery and cleanup are
  separate loops. A candidate in `unknown` past the orphan age that waits for its recovery is claimed
  by `claimOrphanedWorkspaceRuntimes` (to `cleaning`), with its retirement queued behind the recovery;
  `setWorkspaceRuntimeState` to `allocated` looks only at `allocation_closed` and takes the row back.
  A create queued in between reserves the recovered machine, which the retirement then destroys.
* **A Stop that is forgotten.** `docs/RUN_LIFECYCLE.md:195-196`: "A stopped recovering Run opens only
  to record abort, with model/effect ports gated". An attempt that meets a scope just released for
  recovery gets a `stale_session_lease`, which is not retryable (`run-cancellation-executor.ts:631`);
  the request fails and the recovered Run opens ungated.
* **A Stop at the wrong Worker.** `run-cancellation-executor.ts:212-213`: "The queue routes it only to
  the Worker that owns the live Pi runtime". `#claimNext` (`:396`) has no condition on the Worker; when
  the Run was recovered elsewhere in between, the wrong one claims, the request fails, and the gated
  Runner of the new owner waits. Both this and the forgotten Stop happen in the instance of `cancellation`;
  `StopSettles` says that nothing else may fail a Stop of a Run that goes on (`OutOfReach`).
* **An acknowledgement that went unheard.** When `#markStarted` commits and its reply is lost, the attempt rethrows
  (`run-cancellation-executor.ts:246-254, 285-290`). A Run that is opening ends with its Stop; a live Runner
  works on under an acknowledged Stop that no attempt claims again, until it ends by itself or its lease is
  lost. It is the exception of `StopSettles` (`Unheard`), and in its instance (`MarkStartedUnheard`).
* **A cancellation given up.** `tool-command-dispatcher.ts:256-272`: after two requests without an answer a cancellation is
  logged as unconfirmed, and a running tool of a retired binding runs to its own end. `RetiredToolsAreInterrupted` is checked
  with at most one of them lost.
* **A message returned twice.** `docs/adr/0238:80-81`: "Consumed inputs are never returned or
  replayed". `stopped-inputs.ts:92` reads a stopped Run's document; the record of a message without a
  receipt, repeated in the next Run, makes `readReturnedInputs` return what the next Run consumed.
  It happens in the instance of `inputs` and is the exception `ReturnIsExact` names (`TakenUpLater`).
* **Human terminals and machines** (read, not modelled). Creating for an Agent while a terminal with a
  machine of its own is open borrows that machine with a row that has no `creation_not_after`, and
  retirement then throws (`sandbox-controller.ts:567-574`). A terminal that failed with an uncertain
  machine is neither redirected to nor busy (`workspace-runtime-state-repository.ts:591`), so a second
  machine is created. `sandbox-controller.ts:1950` sets `terminal.workspaceRuntime` before the
  reservation; if that fails, the terminal row is released with the machine alive.
* **The display anchor** (read, not modelled). The `update runs set output_first_*` of a stale
  Projector (`execution-stream-projection.ts:335-346`) has no ownership condition and can anchor a
  recovered Run to a record of its old writer.
* **A pending Stop of a failed Run.** When PostgreSQL decides the failure of a Run, a Stop of it that
  is still pending or dispatched keeps that state for good.

## 6. Abstractions and what is left out

* **Session.** One Session with one conversation lane; child Conversations, which share the root's
  writer, and families of Sessions are not modelled. Payloads, presentation events and display records
  are left out: only whether a prefix was rebuilt matters, and is kept (`prefixes`). `settling` is in
  the tables but no code path enters it; `timed_out` behaves as `failed`. Left out too:
  `pi_durable_current.replay_offset` as a second recovery floor, live-view checkpoints, two
  Projectors that overlap in projection transactions (each re-checks `current()`), the outbox claims of
  seals, a claim whose COMMIT reply is lost (`run-executor.ts:979`).
* **Bindings.** One binding. A read takes effect when it is issued and its answer may come any time
  later; `load` is one step, since nothing else touches the view before it is ready. A publication
  enters the log atomically with the check of its generation: a new member fetches only stable
  offsets. The consumer of a member that lost the partition is left out, as its view is discarded.
  Release of a row is subsumed by `ReleaseAfterPhysicalAbsence`. Ingress capacities and pruning are
  left out. `CloseConfirmed` is about calls that found the row.
* **Cancellation.** Crash and expiry of a live execution only where another lease can follow
  (`e < MaxLease`). An error that ends an attempt without a record (a failed
  query of `#markStarted` or `#recordFailure`, a claim whose reply is lost) does not meet the last attempt
  (`AttemptEnds`): attempts are not limited by it, and the bound on them would end the behaviour.
* **Tools.** "slow" lets a wait time out at any time; the wait of a lost request always times out. A
  machine that restarts leaves running processes as strays. One tool per commit; the boot of a target
  is recorded when the machine is created; quarantine is one transaction that succeeds.
* **Machines.** Ages are "any time". The warm pool's profile mismatch and `reapRetiredWarm`, the destroy
  disposition, terminals, development environments, and capacity redirects are left out.
* **Inputs.** Pi is external: a queue that is not empty has a live task, so an abort clears it; its
  submit is atomic with the last check of accepting. Sealed writers append nothing; the projections of
  a seal and of a finish update the `sessions` row, so they wait for admission's lock. Left out:
  moves and promotion, pages, fingerprint conflicts, compaction, images.

### Not modelled

`PROJECT.json` names every part with its reason. By kind: what has no protocol state of its own
(browser client, wire schemas, observability, Cube proxies, provider relay); what is I/O around
external services (attachments, SSH gateway, Android executor, the sandbox guest); independent ledgers
and queries (accounting, durable store queries); deployment, scripts and evaluation. They are most of
the repository: the modules map about one line in twenty of it. Subagents (child Conversations
under the root's writer) and schedules are the parts with protocol state that is left.

## 7. Plan

Done, in this order: the lifecycle tables, ledger and producers, their composition and its runs, the
core proofs; the abstract log; the binding view and its publication; cancellation, tools, machines,
controller lease and inputs with their runs; the proofs of section 4.

Next, most important first:

1. Child Conversations under the root's writer (`packages/subagent-control`), the largest part with
   protocol state that is not modelled.
2. Human terminals and development environments next to `WorkspaceRuntimes`.
3. Two overlapping Projectors, live-view checkpoints and their replay floor in `SessionOwnership`.
