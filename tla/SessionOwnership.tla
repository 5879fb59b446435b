-------------------------- MODULE SessionOwnership --------------------------
(***************************************************************************)
(* One Pi Session end to end: Pi Workers claim its Runs one lease after    *)
(* another, open the Session's transactional producer, commit native       *)
(* batches and a work_finished record; the control plane closes a lost     *)
(* writer by taking over the producer and appending an execution_seal; the *)
(* Session Projector reads the partition in order and settles the Runs.    *)
(*                                                                         *)
(* PostgreSQL is RunLedger, the producers and Kafka are KafkaSessionWriter.*)
(* Client e in Leases is the writer of the Worker that claimed lease e,    *)
(* every other client is one attempt of PostgresPublicationControl.        *)
(***************************************************************************)
EXTENDS RunLedger, KafkaSessionWriter, FiniteSetsExt

CONSTANTS
    MaxCommits,         \* bound: native commits one execution sends
    MaxAttempts,        \* seal attempts that may be under way at once
    MaxFaults           \* bound: failures the environment may inject

ASSUME OwnershipAssumption ==
    /\ Leases \subseteq Clients
    /\ MaxCommits \in Nat /\ MaxAttempts \in Nat /\ MaxFaults \in Nat

VARIABLES
    worker,             \* lease -> the executor that claimed it (run-executor.ts)
    head,               \* lease -> native commits its Agent loaded when it opened
    scope,              \* client -> the lease it writes for
    pos,                \* Projector: offset of the next record to project
    groupOffset,        \* Kafka: committed offset of the Projector group
    prefixes,           \* Projector memory: executions whose prefix it has built
    faults              \* failures injected so far

workers   == <<worker, head, scope>>
projector == <<pos, groupOffset, prefixes>>
vars      == <<ledger, writers, workers, projector, faults>>

Controls == Clients \ Leases

\* running: backend.execute.  finishing: work_finished is being appended.
\* completed: it was acknowledged.  left: the executor returned otherwise.
WorkerState == {"none", "running", "finishing", "completed", "left", "crashed"}

Facts ==
    [kind : {"commit"}, writer : Leases, seq : Nat, outcome : {"none"}] \cup
    [kind : {"finish"}, writer : Leases, seq : Nat, outcome : Outcome] \cup
    [kind : {"seal"}, writer : Leases, seq : Nat, outcome : {"none", "recover", "terminal"}]

TypeOK ==
    /\ LedgerTypeOK
    /\ log \in Seq(Facts)
    /\ producerEpoch \in Nat
    /\ transaction \subseteq [client : Clients, fact : Facts]
    /\ phase \in [Clients -> Phase]
    /\ epoch \in [Clients -> Nat]
    /\ sent \in [Clients -> Nat]
    /\ worker \in [Leases -> WorkerState]
    /\ head \in [Leases -> Nat]
    /\ scope \in [Clients -> 0..MaxLease]
    /\ pos \in Nat \ {0} /\ groupOffset \in Nat \ {0}
    /\ prefixes \subseteq Leases
    /\ faults \in 0..MaxFaults

Init ==
    /\ LedgerInit
    /\ WritersInit
    /\ worker = [e \in Leases |-> "none"]
    /\ head = [e \in Leases |-> 0]
    /\ scope = [c \in Clients |-> 0]
    /\ pos = 1 /\ groupOffset = 1 /\ prefixes = {}
    /\ faults = 0

\* An action of the environment that must not happen for ever.
Fault == faults < MaxFaults /\ faults' = faults + 1
NoFault == UNCHANGED faults

LedgerStep    == UNCHANGED <<writers, workers, projector, faults>>
WriterStep    == UNCHANGED <<ledger, workers, projector>>
ProjectorStep == UNCHANGED <<writers, workers, groupOffset, faults>>

-----------------------------------------------------------------------------
(* The Pi Worker that holds lease e: its writer.                             *)

ClaimRun(r) ==
    LET e == leaseEpoch + 1 IN
    /\ Claim(r)
    /\ worker' = [worker EXCEPT ![e] = "running"]
    /\ scope' = [scope EXCEPT ![e] = e]
    /\ UNCHANGED <<writers, head, projector, faults>>

\* DirectSessionKafka.#authorize: the grant read before and after initialization.
Granted(e) ==
    LET r == lease[e].run IN
    /\ e \in 1..leaseEpoch
    /\ run[r].lease = e
    /\ ~lease[e].released /\ ~lease[e].failed /\ lease[e].seal = 0
    /\ ~lease[e].expired
    /\ run[r].sealId = 0
    /\ IsActiveRunState(run[r].state)

Opening(e) == phase[e] \in {"granted", "initialized"}

WorkerBeginsOpen(e) ==
    worker[e] = "running" /\ Granted(e) /\ BeginOpen(e) /\ WriterStep /\ NoFault

WorkerInitializes(e) ==
    worker[e] = "running" /\ InitTransactions(e) /\ WriterStep /\ NoFault

\* Mutant: the grant is only checked before initialization.
WorkerOpensUnchecked(e) ==
    /\ worker[e] = "running"
    /\ FinishOpen(e)
    /\ head' = [head EXCEPT ![e] = Len(native)]
    /\ UNCHANGED <<ledger, worker, scope, projector>> /\ NoFault

\* The fresh read after initialization.  The Agent then loads the Session.
WorkerOpens(e) ==
    /\ worker[e] = "running"
    /\ Granted(e)
    /\ FinishOpen(e)
    /\ head' = [head EXCEPT ![e] = Len(native)]
    /\ UNCHANGED <<ledger, worker, scope, projector>> /\ NoFault

WorkerOpenRefused(e) ==
    /\ phase[e] = "initialized" /\ ~Granted(e)
    /\ CloseWriter(e) /\ WriterStep /\ NoFault

\* The broker is unreachable or the call times out during start().  A Stop does
\* not abort it: the backend keeps the Stop until the writer is open.
WorkerOpenFails(e) ==
    /\ worker[e] = "running" /\ Opening(e)
    /\ CloseWriter(e) /\ WriterStep /\ Fault

CommitFact(e) ==
    [kind |-> "commit", writer |-> e, seq |-> head[e] + sent[e] + 1, outcome |-> "none"]

FinishFact(e, outcome) ==
    [kind |-> "finish", writer |-> e, outcome |-> outcome,
     seq |-> IF sent[e] = 0 THEN 0 ELSE head[e] + sent[e]]

\* An Agent that could not be stopped may go on publishing until its writer closes.
SendCommit(e) ==
    /\ worker[e] \in {"running", "left"}
    /\ sent[e] < MaxCommits
    /\ Submit(e, CommitFact(e)) /\ WriterStep /\ NoFault

\* finish(): a cancelled outcome answers a Stop of this Run.
SendFinish(e, outcome) ==
    /\ worker[e] = "running"
    /\ outcome = "cancelled" => run[lease[e].run].cancel # "none"
    /\ Submit(e, FinishFact(e, outcome))
    /\ worker' = [worker EXCEPT ![e] = "finishing"]
    /\ UNCHANGED <<ledger, head, scope, projector>> /\ NoFault

-----------------------------------------------------------------------------
(* The Pi Worker that holds lease e: how its executor ends (#dispatch).      *)

\* The writer never opened: its grant was refused, or start() failed.
StartFailed(e) ==
    \/ phase[e] = "idle" /\ ~Granted(e)
    \/ phase[e] = "closed" /\ sent[e] = 0

\* The command to stop this Run reached its Worker (backend.cancel).
Stopping(e) == run[lease[e].run].cancel \in {"dispatched", "acknowledged"}

\* The writer latched a failure, finish() was not confirmed, the backend reports
\* a Stop without a publication, or (a fault) the environment stops a healthy
\* execution: shutdown, lease renewal, storage.
MayRecover(e) ==
    \/ worker[e] \in {"running", "finishing"} /\ phase[e] = "closed" /\ sent[e] > 0 /\ NoFault
    \/ worker[e] = "running" /\ StartFailed(e) /\ Stopping(e) /\ NoFault
    \/ worker[e] = "running" /\ phase[e] \in {"open", "sending"} /\ Fault

WorkerRequestsRecovery(e) ==
    /\ MayRecover(e)
    /\ RequestRecovery(e)
    /\ worker' = [worker EXCEPT ![e] = "left"]
    /\ UNCHANGED <<writers, head, scope, projector>>

\* Without a root publication a failure is terminal, and so is a quarantining one.
WorkerRecordsFailure(e, quarantine) ==
    /\ worker[e] = "running"
    /\ IF quarantine THEN phase[e] \in {"open", "sending", "closed"} /\ Fault
                     ELSE StartFailed(e) /\ NoFault
    /\ RecordFailure(e, quarantine)
    /\ worker' = [worker EXCEPT ![e] = "left"]
    /\ UNCHANGED <<writers, head, scope, projector>>

\* The executor returns without a ledger write: its execution is no longer
\* current, a Stop is under way (#observeCancellation), or (a fault) its
\* transaction failed.
WorkerLeaves(e) ==
    /\ \/ worker[e] = "running" /\ ~Opening(e)
       \/ worker[e] = "finishing" /\ phase[e] = "closed"
    /\ IF ActiveScope(e) /\ ~(StartFailed(e) /\ run[lease[e].run].state = "cancel_requested")
       THEN Fault ELSE NoFault
    /\ worker' = [worker EXCEPT ![e] = "left"]
    /\ UNCHANGED <<ledger, writers, head, scope, projector>>

\* finalizer.close() waits for the record in flight.
WorkerCloses(e) ==
    /\ worker[e] \in {"completed", "left"} /\ phase[e] = "open"
    /\ CloseWriter(e) /\ WriterStep /\ NoFault

\* The finally block of #dispatch, or retirement of a Worker confirmed stopped.
ExitConfirmed(e) ==
    /\ \/ worker[e] = "left"
       \/ worker[e] = "crashed" /\ run[lease[e].run].state \in {"failed", "cancelled", "timed_out"}
    /\ ConfirmAgentExit(e) /\ LedgerStep

WorkerCrashes(e) ==
    /\ worker[e] \in {"running", "finishing", "left"}
    /\ worker' = [worker EXCEPT ![e] = "crashed"]
    /\ phase' = [phase EXCEPT ![e] = "closed"]
    /\ UNCHANGED <<ledger, log, producerEpoch, transaction, epoch, sent,
                   head, scope, projector>> /\ Fault

Gone(e) == worker[e] \in {"completed", "left", "crashed"}

\* A live Worker renews; it loses its lease only through a fault.
LeaseExpires(e) ==
    /\ Expire(e)
    /\ IF Gone(e) THEN NoFault ELSE Fault
    /\ UNCHANGED <<writers, workers, projector>>

SweepExpired(e) == Reconcile(e, TRUE) /\ LedgerStep

WorkerRetired(e) ==
    /\ Reconcile(e, FALSE)
    /\ IF worker[e] = "crashed" THEN NoFault ELSE Fault
    /\ UNCHANGED <<writers, workers, projector>>

-----------------------------------------------------------------------------
(* Forced closure (postgres-publication-control.ts), driven by the outbox    *)
(* relay (session-outbox-relay.ts).                                          *)

\* #state: the durable evidence that e still has to be closed, or is closed.
SealWanted(e) ==
    LET r == lease[e].run IN
    lease[e].seal = 0 /\ lease[e].failed /\ run[r].sealId = e /\ run[r].lease = e

SealPending(e) == e \in 1..leaseEpoch /\ lease[e].outbox # "none" /\ ~lease[e].published

Attempts == {k \in Controls : phase[k] \notin {"idle", "closed"}}

Published(e) == lease' = [lease EXCEPT ![e].published = TRUE]

ControlBegins(k, e) ==
    /\ SealPending(e) /\ SealWanted(e)
    /\ Cardinality(Attempts) < MaxAttempts
    /\ BeginOpen(k)
    /\ scope' = [scope EXCEPT ![k] = e]
    /\ UNCHANGED <<ledger, worker, head, projector>> /\ NoFault

\* Completed evidence never initializes another producer.
ControlSkips(e) ==
    /\ SealPending(e) /\ lease[e].seal # 0
    /\ Published(e)
    /\ UNCHANGED <<session, run, leaseEpoch, native, nextOffset>> /\ LedgerStep

ControlInitializes(k) == InitTransactions(k) /\ WriterStep /\ NoFault

ControlOpens(k) ==
    /\ FinishOpen(k) /\ SealWanted(scope[k])
    /\ WriterStep /\ NoFault

\* The fresh read after initialization: closed meanwhile is a receipt.
ControlRefused(k) ==
    /\ phase[k] = "initialized" /\ ~SealWanted(scope[k])
    /\ CloseWriter(k)
    /\ IF lease[scope[k]].seal # 0 THEN Published(scope[k]) ELSE UNCHANGED lease
    /\ UNCHANGED <<session, run, leaseEpoch, native, nextOffset, workers, projector>>
    /\ NoFault

SealFact(e) ==
    [kind |-> "seal", writer |-> e, seq |-> 0, outcome |-> lease[e].outbox]

ControlAppends(k) ==
    /\ sent[k] = 0
    /\ Submit(k, SealFact(scope[k])) /\ WriterStep /\ NoFault

\* The receipt reaches the relay, which marks the outbox row published.
ControlReceipt(k) ==
    /\ phase[k] = "open" /\ sent[k] = 1
    /\ CloseWriter(k)
    /\ Published(scope[k])
    /\ UNCHANGED <<session, run, leaseEpoch, native, nextOffset, workers, projector>>
    /\ NoFault

\* Mutant: the relay marks the row published when an attempt ends, however it ends.
ControlFailsPublished(k) ==
    /\ CloseWriter(k) /\ Published(scope[k])
    /\ UNCHANGED <<session, run, leaseEpoch, native, nextOffset, workers, projector>>
    /\ Fault

\* The process dies, loses its partition, or loses the broker or the receipt.
ControlFails(k) == CloseWriter(k) /\ WriterStep /\ Fault

-----------------------------------------------------------------------------
(* The broker (external) deciding an open transaction, for any client.       *)

Acknowledged(t) ==
    /\ Commit(t, TRUE)
    /\ worker' = IF t.fact.kind = "finish" /\ phase[t.client] = "sending"
                 THEN [worker EXCEPT ![t.client] = "completed"]
                 ELSE worker
    /\ UNCHANGED <<ledger, head, scope, projector>> /\ NoFault

ReplyLost(t) == Commit(t, FALSE) /\ WriterStep /\ Fault

\* A transaction whose client is gone is aborted by its timeout.
Aborted ==
    /\ Abort /\ WriterStep
    /\ IF \E t \in transaction : phase[t.client] = "sending" THEN Fault ELSE NoFault

AppendFailed(c) == AppendFails(c) /\ WriterStep /\ NoFault

InDoubt(c) == AppendInDoubt(c) /\ WriterStep /\ Fault

-----------------------------------------------------------------------------
(* The Session Projector (execution-stream-projection.ts): the records of    *)
(* the partition one after another; a throw leaves the record to a retry.    *)

Record == log[pos]

\* Mutant: a writer counts as closed once PostgreSQL asked for its closure.
IsOpenUntilFailed(i, e) ==
    LET r == lease[e].run IN
    /\ run[r].lease = e
    /\ ~lease[e].failed
    /\ run[r].sealedAt = 0

\* ExecutionStreamBoundary.isOpen for a canonical record.  The caches repeat
\* what the rows say while one Projector owns the partition.
IsOpen(i, e) ==
    LET r == lease[e].run IN
    /\ run[r].lease = e
    /\ lease[e].seal = 0 \/ i < lease[e].seal
    /\ run[r].sealedAt = 0

BoundaryThrows(i, e) ==
    LET r == lease[e].run IN
    \/ run[r].lease # e /\ lease[e].seal = 0
    \/ IsOpen(i, e) /\ e \notin prefixes /\ run[r].first \notin {0, i}

CommitThrows(i, f) ==
    \/ BoundaryThrows(i, f.writer)
    \/ IsOpen(i, f.writer) /\ CommitConflicts(i, f.seq)

FinishThrows(i, f) ==
    LET r == lease[f.writer].run IN
    IF FinishStale(i, f.writer) THEN lease[f.writer].seal = 0
    ELSE IF run[r].sealedAt # 0 THEN run[r].terminals = {}
    ELSE \/ f.seq # 0 /\ f.seq # Len(native)
         \/ ~IsTerminalRunState(run[r].state) /\ ~FinishAllowed(run[r].state, f.outcome)

SealStale(e) == run[lease[e].run].lease # e /\ lease[e].seal # 0

SealThrows(i, f) ==
    LET e == f.writer
        r == lease[e].run
    IN  \/ BoundaryThrows(i, e)
        \/ ~SealStale(e) /\
             \/ run[r].sealId # e
             \/ run[r].sealedAt # 0 /\ run[r].terminals = {}
             \/ run[r].sealedAt = 0 /\
                  \/ run[r].first \notin {0, i} /\ e \notin prefixes
                  \/ f.outcome = "recover" /\ ~CanTransition(RunTransitions, run[r].state, "queued")
                  \/ f.outcome = "terminal" /\ run[r].terminals # {}

Throws(i) ==
    LET f == log[i] IN
    CASE f.kind = "commit" -> CommitThrows(i, f)
      [] f.kind = "finish" -> FinishThrows(i, f)
      [] f.kind = "seal"   -> SealThrows(i, f)

Projects(kind) ==
    /\ pos <= Len(log)
    /\ Record.kind = kind
    /\ ~Throws(pos)
    /\ pos' = pos + 1

Forget(e) == prefixes' = prefixes \ {e}

\* An open commit is applied; a closed one is only replayed into memory.
ProjectCommit ==
    LET e == Record.writer IN
    /\ Projects("commit")
    /\ IF IsOpen(pos, e)
       THEN ApplyCommit(pos, e, Record.seq) /\ prefixes' = prefixes \cup {e}
       ELSE UNCHANGED <<ledger, prefixes>>
    /\ ProjectorStep

\* Mutant: work_finished overrides a terminal decision already made.
ProjectFinishOverriding ==
    LET e == Record.writer
        r == lease[e].run
    IN  /\ Projects("finish")
        /\ IF FinishStale(pos, e) \/ run[r].sealedAt # 0
           THEN RecordOnly(pos) /\ UNCHANGED prefixes
           ELSE FinishSettles(pos, e, Record.outcome) /\ Forget(e)
        /\ ProjectorStep

ProjectFinish ==
    LET e == Record.writer
        r == lease[e].run
    IN  /\ Projects("finish")
        /\ \/ FinishStale(pos, e) /\ RecordOnly(pos) /\ UNCHANGED prefixes
           \/ /\ ~FinishStale(pos, e) /\ run[r].sealedAt # 0
              /\ RecordOnly(pos) /\ Forget(e)
           \/ /\ ~FinishStale(pos, e) /\ run[r].sealedAt = 0
              /\ IF IsTerminalRunState(run[r].state)
                 THEN FinishOverruled(pos, e) /\ UNCHANGED prefixes
                 ELSE FinishSettles(pos, e, Record.outcome) /\ Forget(e)
        /\ ProjectorStep

\* Mutant: a recovery seal queues its Run again even when work_finished came first.
ProjectSealRequeues ==
    LET e == Record.writer IN
    /\ Projects("seal")
    /\ IF SealStale(e) THEN RecordOnly(pos)
       ELSE IF Record.outcome = "recover" THEN SealRecovers(pos, e)
       ELSE SealTerminates(pos, e)
    /\ Forget(e)
    /\ ProjectorStep

ProjectSeal ==
    LET e == Record.writer
        r == lease[e].run
    IN  /\ Projects("seal")
        /\ \/ SealStale(e) /\ RecordOnly(pos)
           \/ ~SealStale(e) /\ run[r].sealedAt # 0 /\ SealSettled(pos, e)
           \/ /\ ~SealStale(e) /\ run[r].sealedAt = 0
              /\ IF Record.outcome = "recover" THEN SealRecovers(pos, e)
                                               ELSE SealTerminates(pos, e)
        /\ Forget(e)
        /\ ProjectorStep

\* The consumer commits its group offset behind the records it has processed.
CommitProgress ==
    /\ groupOffset < pos
    /\ groupOffset' = pos
    /\ UNCHANGED <<ledger, writers, workers, pos, prefixes>> /\ NoFault

\* loadFactReplayOffsets: the projected position, pulled back to the first
\* record of every Run that is not sealed yet.
ReplayFloor ==
    Min({nextOffset, Len(log) + 1} \cup
        {run[r].first : r \in {q \in Runs : run[q].first # 0 /\ run[q].sealedAt = 0}})

\* A reassignment or restart: memory is gone, reading resumes where both the
\* group offset and the recovery floor allow it.
ProjectorRestarts ==
    /\ pos' = Min({groupOffset, ReplayFloor})
    /\ prefixes' = {}
    /\ UNCHANGED <<ledger, writers, workers, groupOffset>> /\ Fault

-----------------------------------------------------------------------------
LedgerNext ==
    \E r \in Runs :
       \/ (Enqueue(r) \/ AcceptCancel(r) \/ CancelUnclaimed(r)) /\ LedgerStep
       \/ (DispatchCancel(r) \/ StartCancel(r) \/ CancelNotStarted(r, TRUE)) /\ LedgerStep
       \/ (CancelNotStarted(r, FALSE) \/ FailStartedCancel(r))
          /\ UNCHANGED <<writers, workers, projector>> /\ Fault
       \/ ClaimRun(r)

WorkerNext ==
    \E e \in 1..leaseEpoch :
       \/ WorkerBeginsOpen(e) \/ WorkerInitializes(e) \/ WorkerOpens(e)
       \/ WorkerOpenRefused(e) \/ WorkerOpenFails(e)
       \/ SendCommit(e) \/ (\E o \in Outcome : SendFinish(e, o))
       \/ WorkerRequestsRecovery(e) \/ WorkerLeaves(e) \/ WorkerCloses(e)
       \/ (\E quarantine \in BOOLEAN : WorkerRecordsFailure(e, quarantine))
       \/ ExitConfirmed(e) \/ WorkerCrashes(e)
       \/ LeaseExpires(e) \/ SweepExpired(e) \/ WorkerRetired(e)
       \/ AppendFailed(e) \/ InDoubt(e)

ControlNext ==
    \/ \E e \in 1..leaseEpoch : ControlSkips(e)
    \/ \E k \in Controls :
          \/ \E e \in 1..leaseEpoch : ControlBegins(k, e)
          \/ ControlInitializes(k) \/ ControlOpens(k) \/ ControlRefused(k)
          \/ ControlAppends(k) \/ ControlReceipt(k) \/ ControlFails(k)
          \/ AppendFailed(k) \/ InDoubt(k)

BrokerNext ==
    \/ \E t \in transaction : Acknowledged(t) \/ ReplyLost(t)
    \/ Aborted

ProjectorNext ==
    ProjectCommit \/ ProjectFinish \/ ProjectSeal \/ CommitProgress \/ ProjectorRestarts

Next == LedgerNext \/ WorkerNext \/ ControlNext \/ BrokerNext \/ ProjectorNext

Spec == Init /\ [][Next]_vars


\* What the code keeps running without being asked: the executor of a live
\* Worker, the relay and its control, the broker, the Projector, the expiry
\* sweep and the cancellation dispatcher.  No failure is ever forced.
WorkerProgress(e) ==
    \/ WorkerBeginsOpen(e) \/ WorkerInitializes(e) \/ WorkerOpens(e)
    \/ WorkerOpenRefused(e) \/ AppendFailed(e)
    \/ SendCommit(e) \/ (\E o \in Outcome : SendFinish(e, o))
    \/ (NoFault /\ WorkerRequestsRecovery(e))
    \/ (NoFault /\ WorkerRecordsFailure(e, FALSE))
    \/ (NoFault /\ WorkerLeaves(e)) \/ WorkerCloses(e)

ControlProgress(k) ==
    \/ \E e \in Leases : ControlBegins(k, e)
    \/ ControlInitializes(k) \/ ControlOpens(k) \/ ControlRefused(k)
    \/ ControlAppends(k) \/ ControlReceipt(k) \/ AppendFailed(k)

Fairness ==
    /\ \A r \in Runs : WF_vars(ClaimRun(r))
    /\ \A e \in Leases :
          /\ WF_vars(WorkerProgress(e))
          /\ WF_vars(ExitConfirmed(e))
          /\ WF_vars(NoFault /\ LeaseExpires(e))
          /\ WF_vars(SweepExpired(e))
          /\ WF_vars(NoFault /\ WorkerRetired(e))
          /\ WF_vars(ControlSkips(e))
    /\ \A k \in Controls : WF_vars(ControlProgress(k))
    /\ WF_vars((\E t \in transaction : Acknowledged(t)) \/ (NoFault /\ Aborted))
    /\ WF_vars(ProjectCommit \/ ProjectFinish \/ ProjectSeal)

FairSpec == Spec /\ Fairness

-----------------------------------------------------------------------------
(* What the protocol promises.                                               *)

\* The records of the partition lie in lease order: once a successor has written,
\* no earlier writer, delayed initializer or late seal can append behind it
\* (kafka-session-writer.ts #open and append, direct-session-kafka.ts #authorize).
WriterOrder ==
    \A i, j \in DOMAIN log : i < j => log[i].writer <= log[j].writer

\* Nothing an execution publishes lies behind the offset that closed its writer,
\* whoever closed it: its work_finished or a forced execution_seal.
NothingAfterClosure ==
    \A i \in DOMAIN log :
        log[i].kind # "seal" /\ lease[log[i].writer].seal # 0
            => i <= lease[log[i].writer].seal

\* Every lease but the newest is released behind an accepted closure record of
\* its own (acquireInTransaction, releaseIdleSessionLease, finishWorkIn).
ClosureBeforeSuccessor ==
    \A e \in 1..(leaseEpoch - 1) :
        /\ lease[e].released
        /\ lease[e].seal \in DOMAIN log
        /\ log[lease[e].seal].writer = e
        /\ log[lease[e].seal].kind \in {"finish", "seal"}

CommitOffsets == {i \in DOMAIN log : log[i].kind = "commit"}

\* An Agent that may still append has loaded everything: what it read when it
\* opened and what it has appended since are all the commits there are, so the
\* next sequence it uses is the next one of the history (direct-session-kafka.ts
\* #open, worker-execution-log.ts commitNative).
LoadedHeadIsComplete ==
    \A e \in 1..leaseEpoch :
        phase[e] = "open" /\ Unfenced(e) /\ worker[e] = "running"
            => head[e] + sent[e] = Cardinality(CommitOffsets)

\* The durable history is the sequence of accepted commits, in log order, without
\* a gap, a duplicate or a record that was never accepted, however often the
\* Projector starts over (postgres-durable-commit-projector.ts project).
NativeIsCommitPrefix ==
    /\ \A n \in DOMAIN native :
          /\ native[n] \in CommitOffsets
          /\ n = Cardinality({i \in CommitOffsets : i <= native[n]})

\* Closing a writer drops nothing it was acknowledged for: every commit in front
\* of the closing record is in the durable history by then.
CommitsMaterialized ==
    \A i \in CommitOffsets :
        LET w == log[i].writer IN
        lease[w].seal # 0 => \E n \in DOMAIN native : native[n] = i

\* The next record never makes its handler throw: a throw pauses and retries the
\* partition, so one such record would stop every Session on it for ever.
ProjectorNeverStalls == pos \in DOMAIN log => ~Throws(pos)

\* One terminal event per Run, and it tells the state the Run ended in, whether
\* work_finished or a seal allocated it.
OneTerminal ==
    \A r \in Runs :
        /\ Cardinality(run[r].terminals) <= 1
        /\ \A t \in run[r].terminals : t[2] = run[r].state

\* A work_finished record that Kafka accepted is the end of its Run: a forced
\* closure that lost the race may not queue the Run for another execution.
NoReexecution ==
    \A i \in DOMAIN log :
        log[i].kind = "finish" =>
            \A e \in 1..leaseEpoch :
                lease[e].run = lease[log[i].writer].run => e <= log[i].writer

\* A terminal Run stays as it ended, whatever late record, Stop or reconciler
\* reaches it.
TerminalStable ==
    [][\A r \in Runs :
          IsTerminalRunState(run[r].state) => run'[r].state = run[r].state]_vars

\* A writer that was given up is closed in the log in the end, so its Session can
\* be claimed again (session-outbox-relay.ts, postgres-publication-control.ts).
FailedWriterIsClosed ==
    \A e \in Leases : lease[e].failed ~> lease[e].seal # 0

\* Accepted input is settled in the end, and the mailbox is free for the next Run.
RunSettles ==
    \A r \in Runs :
        run[r].state # "absent"
            ~> IsTerminalRunState(run[r].state) /\ ~Awaiting(run[r]) /\ SessionWorkerAvailable

=============================================================================
