------------------------------ MODULE RunLedger ------------------------------
(***************************************************************************)
(* The PostgreSQL side of one physical Pi Session: the Session row, its    *)
(* mailbox of Runs, the Session leases that were ever issued and the seal  *)
(* rows of the outbox.  Every operator below that primes a variable is one *)
(* PostgreSQL transaction of packages/runtime-core or                      *)
(* packages/control-plane, taken under the row locks that transaction      *)
(* holds, so it is one atomic step.                                        *)
(*                                                                         *)
(* A lease is named by its fencing token, which is the Session epoch:      *)
(* lease e of the model is the session_leases row with fencing_token e,    *)
(* lease_id and writerId included.  Token 0 stands for a null lease_id.    *)
(* At most one execution_seal fact exists per (Run, lease), so its factId  *)
(* is e too.  Offsets are positions in the partition, 0 is a null offset.  *)
(***************************************************************************)
EXTENDS Integers, Sequences, FiniteSets, RunStates

CONSTANTS
    NumRuns,        \* mailbox positions of the Session
    MaxLease,       \* bound: Session epochs that may be issued
    CancelRuns,     \* Runs a user may ask to stop
    ScheduledRuns   \* Runs of schedule or compact origin: cancellable unclaimed

ASSUME LedgerAssumption ==
    /\ NumRuns \in Nat
    /\ MaxLease \in Nat
    /\ CancelRuns \subseteq 1..NumRuns
    /\ ScheduledRuns \subseteq 1..NumRuns

VARIABLES
    session,        \* sessions.state
    run,            \* mailbox position -> runs row, with its cancellation request
    lease,          \* epoch -> session_leases row, with its outbox seal
    leaseEpoch,     \* pi_sessions.lease_epoch
    native,         \* pi_durable_commits: commit sequence -> log offset
    nextOffset      \* accepted_fact_projection_offsets.next_offset

ledger == <<session, run, lease, leaseEpoch, native, nextOffset>>

Runs   == 1..NumRuns
Leases == 1..MaxLease

Outcome == {"completed", "failed", "cancelled"}

ActiveCancel == {"pending", "dispatched", "acknowledged"}

RunRow ==
    [state      : RunState \cup {"absent"},   \* absent: no row yet
     ready      : BOOLEAN,                    \* ready_at is not null
     lease      : 0..MaxLease,                \* lease_id and fencing_token
     released   : BOOLEAN,                    \* execution_released_at
     exited     : BOOLEAN,                    \* agent_exited_at
     recovering : BOOLEAN,                    \* recovery_requested_at
     sealId     : 0..MaxLease,                \* output_seal_id
     sealedAt   : Nat,                        \* output_sealed_at, output_seal_offset
     first      : Nat,                        \* output_first_offset
     terminals  : SUBSET (Nat \X Outcome),    \* session_terminal_events
     cancel     : ControlRequestState \cup {"none"}]

LeaseRow ==
    [run       : 0..NumRuns,                  \* the Run it was issued for
     expired   : BOOLEAN,                     \* valid_until <= clock_timestamp()
     failed    : BOOLEAN,                     \* writer_failed_at
     seal      : Nat,                         \* writer_sealed_at, writer_seal_offset
     released  : BOOLEAN,                     \* released_at
     outbox    : {"none", "recover", "terminal"},
     published : BOOLEAN]

LedgerTypeOK ==
    /\ session \in SessionState
    /\ run \in [Runs -> RunRow]
    /\ lease \in [Leases -> LeaseRow]
    /\ leaseEpoch \in 0..MaxLease
    /\ native \in Seq(Nat)
    /\ nextOffset \in Nat \ {0}

NoRun == [state |-> "absent", ready |-> FALSE, lease |-> 0, released |-> FALSE,
          exited |-> FALSE, recovering |-> FALSE, sealId |-> 0, sealedAt |-> 0,
          first |-> 0, terminals |-> {}, cancel |-> "none"]

NoLease == [run |-> 0, expired |-> FALSE, failed |-> FALSE, seal |-> 0,
            released |-> FALSE, outbox |-> "none", published |-> FALSE]

LedgerInit ==
    /\ session = "cold"
    /\ run = [r \in Runs |-> NoRun]
    /\ lease = [e \in Leases |-> NoLease]
    /\ leaseEpoch = 0
    /\ native = <<>>
    /\ nextOffset = 1

-----------------------------------------------------------------------------
(* Readiness of the mailbox lane (run-readiness.ts) and ownership views.     *)

Awaiting(row) == row.sealId # 0 /\ row.sealedAt = 0

LaneReady(runs, s, r) ==
    /\ s \in {"cold", "idle"}
    /\ \A p \in 1..(r - 1) : IsTerminalRunState(runs[p].state) /\ ~runs[p].recovering
    /\ \A p \in Runs : ~Awaiting(runs[p])

\* Mutant: nobody makes the next Run of the mailbox ready.
LaneReadinessNotAdvanced(runs, s) == runs

AdvanceLaneReadiness(runs, s) ==
    [r \in Runs |->
        IF runs[r].state = "queued" /\ LaneReady(runs, s, r)
        THEN [runs[r] EXCEPT !.ready = TRUE]
        ELSE runs[r]]

\* piSessionWorkerAvailable: no lease of this Session is still unreleased.
SessionWorkerAvailable == \A e \in 1..leaseEpoch : lease[e].released

\* started_at is not null: some lease was issued for the Run.
Started(r) == \E e \in 1..leaseEpoch : lease[e].run = r

\* The active_execution_scopes view.
ActiveScope(e) ==
    /\ e \in 1..leaseEpoch
    /\ ~lease[e].released
    /\ run[lease[e].run].lease = e
    /\ ~run[lease[e].run].released

\* Mutant: the lease goes with its Run, before its writer is closed.
ReleaseUnsealed(leases, runs, e) ==
    IF \A r \in Runs : runs[r].lease = e => runs[r].released
    THEN [leases EXCEPT ![e].released = TRUE]
    ELSE leases

\* releaseIdleSessionLease, applied to the rows a transaction has already changed.
ReleaseIdle(leases, runs, e) ==
    IF leases[e].seal # 0 /\ (\A r \in Runs : runs[r].lease = e => runs[r].released)
    THEN [leases EXCEPT ![e].released = TRUE]
    ELSE leases

-----------------------------------------------------------------------------
(* Acceptance by the control plane.                                          *)

Enqueue(r) ==
    /\ run[r].state = "absent"
    /\ \A p \in 1..(r - 1) : run[p].state # "absent"
    /\ run' = [run EXCEPT ![r] = [@ EXCEPT !.state = "queued",
                                           !.ready = LaneReady(run, session, r)]]
    /\ UNCHANGED <<session, lease, leaseEpoch, native, nextOffset>>

\* A Stop of live or recovering work becomes a request the Worker must answer.
AcceptCancel(r) ==
    /\ r \in CancelRuns
    /\ \/ run[r].state = "running" /\ session = "running"
       \/ run[r].state = "queued" /\ run[r].recovering /\ session = "idle"
    /\ run[r].cancel \notin ActiveCancel
    /\ run' = [run EXCEPT ![r].cancel = "pending"]
    /\ UNCHANGED <<session, lease, leaseEpoch, native, nextOffset>>

\* A Stop of input no Worker has claimed settles its queue row at once.
CancelUnclaimed(r) ==
    /\ r \in ScheduledRuns
    /\ run[r].state = "queued" /\ run[r].lease = 0
    /\ ~Started(r) /\ ~run[r].recovering
    /\ run[r].cancel \notin ActiveCancel
    /\ run' = AdvanceLaneReadiness(
                [run EXCEPT ![r] = [@ EXCEPT !.state = "cancelled", !.ready = FALSE,
                                             !.cancel = "completed"]], session)
    /\ UNCHANGED <<session, lease, leaseEpoch, native, nextOffset>>

-----------------------------------------------------------------------------
(* Transactions of the Pi Worker and of the reconcilers.                     *)

\* The claim query takes a ready Run at the head of an idle Session.
Claimable(r) ==
    /\ run[r].state = "queued" /\ run[r].ready /\ run[r].lease = 0
    /\ session \in {"cold", "idle"}
    /\ SessionWorkerAvailable

\* #claimNext with acquireInTransaction and #startAdmittedRun.
Claim(r) ==
    LET e == leaseEpoch + 1 IN
    /\ e \in Leases
    /\ Claimable(r)
    /\ leaseEpoch' = e
    /\ lease' = [lease EXCEPT ![e].run = r]
    /\ run' = [run EXCEPT ![r] = [@ EXCEPT !.state = "running", !.ready = FALSE,
                                           !.recovering = FALSE, !.lease = e]]
    /\ session' = "running"
    /\ UNCHANGED <<native, nextOffset>>

\* valid_until passes.  A heartbeat only renews a lease that is still valid, so
\* an expired lease stays expired.
Expire(e) ==
    /\ e \in 1..leaseEpoch
    /\ ~lease[e].expired /\ ~lease[e].released
    /\ lease' = [lease EXCEPT ![e].expired = TRUE]
    /\ UNCHANGED <<session, run, leaseEpoch, native, nextOffset>>

\* requestLockedExecutionStreamSeal on the Run row and on the lease row of e.
SealRequested(row, e, recover) ==
    IF row.sealId # 0 THEN row
    ELSE [row EXCEPT !.sealId = e, !.recovering = @ \/ recover]

WriterFailed(row, recover) ==
    [row EXCEPT !.failed = TRUE, !.outbox = IF recover THEN "recover" ELSE "terminal"]

\* A seal request followed by releaseExecutionScope, in one transaction: the
\* common tail of every way an execution is given up.  row is the Run's row as
\* the transaction has changed it so far.
GiveUp(e, row, recover) ==
    LET r == lease[e].run
        runs == [run EXCEPT ![r] = [SealRequested(row, e, recover) EXCEPT !.released = TRUE]]
        leases == IF row.sealId # 0 THEN lease
                  ELSE [lease EXCEPT ![e] = WriterFailed(@, recover)]
    IN  /\ run' = runs
        /\ lease' = ReleaseIdle(leases, runs, e)

\* #requestRecovery of the executor that holds e.
RequestRecovery(e) ==
    LET r == lease[e].run IN
    /\ ActiveScope(e)
    /\ ~(run[r].sealedAt # 0 /\ IsTerminalRunState(run[r].state))
    /\ run[r].sealId = 0
    /\ GiveUp(e, run[r], TRUE)
    /\ UNCHANGED <<session, leaseEpoch, native, nextOffset>>

\* #recordFailure: the terminal decision, its seal and the release commit
\* together.  A quarantining failure also stops the Session.
RecordFailure(e, quarantine) ==
    LET r == lease[e].run
        to == IF quarantine THEN "failed" ELSE "idle"
    IN  /\ ActiveScope(e)
        /\ run[r].state = "running" /\ session = "running"
        /\ CanTransition(RunTransitions, run[r].state, "failed")
        /\ CanTransition(SessionTransitions, session, to)
        /\ session' = to
        /\ GiveUp(e, [run[r] EXCEPT !.state = "failed"], FALSE)
        /\ UNCHANGED <<leaseEpoch, native, nextOffset>>

\* reconcileExecutionScope: of an expired lease (SessionExpiryReconciler) or,
\* requireExpired = FALSE, of a Worker that is being retired.
Reconcile(e, requireExpired) ==
    LET r == lease[e].run IN
    /\ ActiveScope(e)
    /\ requireExpired => lease[e].expired /\ run[r].sealId = 0
    /\ IsActiveRunState(run[r].state) <=> session \in {"running", "cancelling"}
    /\ IF IsActiveRunState(run[r].state)
       THEN GiveUp(e, run[r], TRUE)
       ELSE /\ run' = [run EXCEPT ![r].released = TRUE]
            /\ lease' = ReleaseIdle(lease, run', e)
    /\ UNCHANGED <<session, leaseEpoch, native, nextOffset>>

\* recoverQuarantinedSession, evaluated on the rows of the running transaction.
QuarantineOver(runs, s, r) ==
    /\ s = "failed"
    /\ runs[r].state \in {"failed", "timed_out", "cancelled"}
    /\ runs[r].exited /\ runs[r].sealedAt # 0
    /\ \A p \in Runs : p > r => ~Started(p)
    /\ \A p \in Runs : ~IsActiveRunState(runs[p].state) /\ ~Awaiting(runs[p])

\* confirmAgentExit, by the settled Runner or for a confirmed stopped Worker.
ConfirmAgentExit(e) ==
    LET r == lease[e].run
        runs == [run EXCEPT ![r].exited = TRUE]
        over == QuarantineOver(runs, session, r)
        idle == IF over THEN "idle" ELSE session
    IN  /\ e \in 1..leaseEpoch
        /\ run[r].lease = e /\ ~run[r].exited
        /\ run' = IF over THEN AdvanceLaneReadiness(runs, idle) ELSE runs
        /\ session' = idle
        /\ UNCHANGED <<lease, leaseEpoch, native, nextOffset>>

-----------------------------------------------------------------------------
(* Cancellation of a running Run (run-cancellation-executor.ts).             *)

DispatchCancel(r) ==
    /\ run[r].cancel = "pending"
    /\ IsActiveRunState(run[r].state)
    /\ run[r].lease # 0 /\ ~run[r].released /\ run[r].sealId = 0
    /\ run' = [run EXCEPT ![r].cancel = "dispatched"]
    /\ UNCHANGED <<session, lease, leaseEpoch, native, nextOffset>>

\* #markStarted, on the Worker's acknowledgement of the command.
StartCancel(r) ==
    /\ run[r].cancel = "dispatched"
    /\ run[r].state = "running" /\ session = "running"
    /\ run[r].terminals = {}
    /\ ActiveScope(run[r].lease) /\ ~lease[run[r].lease].expired
    /\ run' = [run EXCEPT ![r] = [@ EXCEPT !.state = "cancel_requested",
                                           !.cancel = "acknowledged"]]
    /\ session' = "cancelling"
    /\ UNCHANGED <<lease, leaseEpoch, native, nextOffset>>

\* #recordFailure before the command started: retried, or given up.
CancelNotStarted(r, retry) ==
    /\ run[r].cancel = "dispatched"
    /\ run' = [run EXCEPT ![r].cancel = IF retry THEN "pending" ELSE "failed"]
    /\ UNCHANGED <<session, lease, leaseEpoch, native, nextOffset>>

\* #recordFailure after the command started: the Run fails with its own seal.
FailStartedCancel(r) ==
    LET e == run[r].lease IN
    /\ run[r].cancel = "acknowledged"
    /\ run[r].state = "cancel_requested" /\ session = "cancelling"
    /\ ActiveScope(e)
    /\ GiveUp(e, [run[r] EXCEPT !.state = "failed", !.cancel = "failed"], FALSE)
    /\ session' = "failed"
    /\ UNCHANGED <<leaseEpoch, native, nextOffset>>

-----------------------------------------------------------------------------
(* Transactions of the Session Projector for the record at offset i, written *)
(* by the execution that holds lease e.  All of them are                      *)
(* projectionTransaction bodies of execution-stream-projection.ts,            *)
(* work-finished-projection.ts and postgres-durable-commit-projector.ts.      *)

\* recordFactProjection: the projected position only moves forward.
Recorded(i) == IF nextOffset < i + 1 THEN i + 1 ELSE nextOffset

RecordOnly(i) ==
    /\ nextOffset' = Recorded(i)
    /\ UNCHANGED <<session, run, lease, leaseEpoch, native>>

\* Mutant: a replayed commit is applied a second time.
ApplyCommitAgain(i, e, seq) ==
    /\ native' = Append(native, i)
    /\ run' = [run EXCEPT ![lease[e].run].first = IF @ = 0 THEN i ELSE @]
    /\ nextOffset' = Recorded(i)
    /\ UNCHANGED <<session, lease, leaseEpoch>>

\* A native commit of an open execution.  applyIn ignores a commit it already
\* holds; the Run's first projected offset anchors its replay.
ApplyCommit(i, e, seq) ==
    LET r == lease[e].run IN
    /\ native' = IF seq = Len(native) + 1 THEN Append(native, i) ELSE native
    /\ run' = [run EXCEPT ![r].first = IF @ = 0 THEN i ELSE @]
    /\ nextOffset' = Recorded(i)
    /\ UNCHANGED <<session, lease, leaseEpoch>>

\* applyIn refuses a gap, and other bytes at a sequence it already holds.
CommitConflicts(i, seq) ==
    \/ seq > Len(native) + 1
    \/ seq <= Len(native) /\ native[seq] # i

\* The order of checks in #finishWork.
FinishStale(i, e) ==
    \/ run[lease[e].run].lease # e
    \/ lease[e].seal # 0 /\ i > lease[e].seal

\* A control-plane decision already made stays; the exit is evidence only.
FinishOverruled(i, e) ==
    LET r == lease[e].run IN
    /\ run' = [run EXCEPT ![r] = [@ EXCEPT !.exited = TRUE, !.released = TRUE]]
    /\ nextOffset' = Recorded(i)
    /\ UNCHANGED <<session, lease, leaseEpoch, native>>

\* Mutant: a native abort nobody asked for goes straight to cancelled.
FinishAllowedDirectly(state, outcome) == CanTransition(RunTransitions, state, outcome)

\* finishWorkIn goes through cancel_requested when a native abort was not asked for.
FinishAllowed(state, outcome) ==
    IF outcome = "cancelled" /\ state # "cancel_requested"
    THEN CanTransition(RunTransitions, state, "cancel_requested")
    ELSE CanTransition(RunTransitions, state, outcome)

\* finishWorkIn: the Run settles, and unless a seal is already on its way the
\* same transaction closes and releases the writer.
FinishSettles(i, e, outcome) ==
    LET r == lease[e].run
        row == [run[r] EXCEPT
                    !.state = outcome,
                    !.terminals = @ \cup {<<i, outcome>>},
                    !.sealedAt = i, !.released = TRUE, !.exited = TRUE,
                    !.recovering = FALSE,
                    !.first = IF @ = 0 THEN i ELSE @,
                    !.cancel = IF @ \in ActiveCancel THEN "completed" ELSE @]
    IN  /\ session' = "idle"
        /\ run' = AdvanceLaneReadiness([run EXCEPT ![r] = row], "idle")
        /\ lease' = IF lease[e].failed THEN lease
                    ELSE [lease EXCEPT ![e] = [@ EXCEPT !.seal = i, !.released = TRUE]]
        /\ nextOffset' = Recorded(i)
        /\ UNCHANGED <<leaseEpoch, native>>

\* The writer closure of #seal: the first seal offset wins.
Closed(e, i) == [lease EXCEPT ![e].seal = IF @ = 0 THEN i ELSE @]

\* Mutant: the late seal allocates its own terminal event as well.
SealSettledTwice(i, e) ==
    /\ lease' = IF lease[e].seal = 0 THEN ReleaseIdle(Closed(e, i), run, e) ELSE lease
    /\ run' = [run EXCEPT ![lease[e].run].terminals = @ \cup {<<i, "failed">>}]
    /\ nextOffset' = Recorded(i)
    /\ UNCHANGED <<session, leaseEpoch, native>>

\* #seal on a Run that is already sealed: only the writer is still to close.
SealSettled(i, e) ==
    /\ lease' = IF lease[e].seal = 0 THEN ReleaseIdle(Closed(e, i), run, e) ELSE lease
    /\ nextOffset' = Recorded(i)
    /\ UNCHANGED <<session, run, leaseEpoch, native>>

\* #seal with recover: the closed execution is erased and the Run queued again.
SealRecovers(i, e) ==
    LET r == lease[e].run
        gone == [run EXCEPT ![r].released = TRUE]
        row == [run[r] EXCEPT
                    !.state = "queued", !.ready = FALSE,
                    !.lease = 0, !.released = FALSE, !.exited = FALSE,
                    !.sealId = 0, !.sealedAt = 0, !.first = 0,
                    !.cancel = IF @ \in {"dispatched", "acknowledged"} THEN "pending" ELSE @]
    IN  /\ lease' = ReleaseIdle(Closed(e, i), gone, e)
        /\ session' = "idle"
        /\ run' = AdvanceLaneReadiness([run EXCEPT ![r] = row], "idle")
        /\ nextOffset' = Recorded(i)
        /\ UNCHANGED <<leaseEpoch, native>>

\* #seal of a terminal decision: its presentation event is allocated here.
SealTerminates(i, e) ==
    LET r == lease[e].run
        row == [run[r] EXCEPT
                    !.released = TRUE, !.sealedAt = i,
                    !.first = IF @ = 0 THEN i ELSE @,
                    !.terminals = @ \cup {<<i, "failed">>}]
        runs == [run EXCEPT ![r] = row]
        s == IF QuarantineOver(runs, session, r) THEN "idle" ELSE session
    IN  /\ lease' = ReleaseIdle(Closed(e, i), runs, e)
        /\ session' = s
        /\ run' = AdvanceLaneReadiness(runs, s)
        /\ nextOffset' = Recorded(i)
        /\ UNCHANGED <<leaseEpoch, native>>

=============================================================================
