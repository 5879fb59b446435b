--------------------------- MODULE RunCancellation ---------------------------
(***************************************************************************)
(* The Stop of one Run, attempt by attempt: the turn_control_requests rows,*)
(* the cancellation task each Pi Worker keeps for the Run                  *)
(* (run-cancellation-executor.ts), and the Worker's own view of the Run's  *)
(* executions (agent-run-execution-backend.ts, agent-run-supervisor.ts).   *)
(* RunLedger has the same transactions without the attempt that makes them.*)
(*                                                                         *)
(* An execution is named by its lease epoch.  Writer, log and seal are cut *)
(* down to their order: what an execution published is projected before    *)
(* the seal that closes it.  available_at and valid_until pass at any time.*)
(***************************************************************************)
EXTENDS Integers, FiniteSets

CONSTANTS
    Workers,        \* Pi Worker processes; a crash empties one
    MaxLease,       \* bound: executions of the Run
    MaxStops,       \* bound: Stops a user asks for
    MaxAttempts,    \* maxAttempts of the executor
    Faults,         \* what may go wrong, a subset of FaultKind
    Idle            \* no Worker

FaultKind ==
    {"crash",       \* a Worker process dies
     "expire",      \* a lease lapses or is revoked before its Runner is gone
     "startup",     \* an opening execution fails on its own
     "transient",   \* a query of an attempt, or the Session's storage, fails
     "unanswered",  \* #markStarted commits and its reply is lost
     "undelivered"} \* a failure PostgreSQL decides, without work_finished

ASSUME CancellationAssumption ==
    /\ MaxLease \in Nat \ {0} /\ MaxStops \in Nat /\ MaxAttempts \in Nat \ {0}
    /\ Faults \subseteq FaultKind
    /\ Idle \notin Workers

VARIABLES
    run,    \* runs row, with its lease validity and its output seal
    session,\* sessions.state
    epoch,  \* last lease issued
    stop,   \* turn_control_requests rows of kind cancel
    exec,   \* lease -> the execution in its Worker's memory
    task    \* Worker -> its entry of #activeCancellations for the Run

vars == <<run, session, epoch, stop, exec, task>>

Leases == 1..MaxLease
Stops == 1..MaxStops
Outcome == {"completed", "failed", "cancelled"}
Active == {"pending", "dispatched", "acknowledged"}

\* Every dispatch of a Run adds at most one attempt per turn of the retry bound.
AttemptBound == MaxLease + MaxAttempts

RunRow ==
    [state    : {"queued", "running", "cancel_requested"} \cup Outcome,
     lease    : 0..MaxLease,                        \* lease_id, 0 when null
     released : BOOLEAN,                            \* execution_released_at
     expired  : BOOLEAN,                            \* valid_until has passed
     seal     : {"none", "recover", "terminal"},    \* output_seal_id, its kind
     sealed   : BOOLEAN]                            \* output_sealed_at

StopRow ==
    [state    : Active \cup {"none", "completed", "failed"},
     attempts : 0..AttemptBound,
     due      : BOOLEAN]                            \* available_at <= now

Execution ==
    [worker    : Workers \cup {Idle},
     phase     : {"none", "opening", "live", "ended", "gone"},
     gate      : BOOLEAN,                           \* stopOnResume
     starting  : {"no", "pending", "ok", "failed"}, \* opening.cancellationStarted
     abort     : {"none", "user"},                  \* reason of the abort signal
     result    : {"none", "recover"} \cup Outcome,
     published : {"none"} \cup Outcome,             \* work_finished in the log
     \* what happened so far, for the properties
     held      : BOOLEAN,                           \* a Stop preceded its Runner
     acked     : BOOLEAN,                           \* a Stop was acknowledged on it
     effects   : BOOLEAN]                           \* it called a model or a Tool

Task ==
    [phase    : {"idle", "chosen", "claimed", "found", "starting", "started",
                 "aborting", "failing"},
     stop     : 0..MaxStops,
     attempt  : 0..AttemptBound,
     on       : 0..MaxLease,                        \* lease of the Run at the claim
     ref      : 0..MaxLease,                        \* currentAssignment's answer
     started  : BOOLEAN,
     retry    : BOOLEAN]                            \* the failure is retryable

\* Every variable stays in its set, and a Run has a lease unless it is queued.
TypeOK ==
    /\ run \in RunRow
    /\ session \in {"idle", "running", "cancelling", "failed"}
    /\ epoch \in 0..MaxLease
    /\ stop \in [Stops -> StopRow]
    /\ exec \in [Leases -> Execution]
    /\ task \in [Workers -> Task]
    /\ run.state = "queued" <=> run.lease = 0

NoStop == [state |-> "none", attempts |-> 0, due |-> FALSE]

NoExecution ==
    [worker |-> Idle, phase |-> "none", gate |-> FALSE, starting |-> "no",
     abort |-> "none", result |-> "none", published |-> "none",
     held |-> FALSE, acked |-> FALSE, effects |-> FALSE]

NoTask ==
    [phase |-> "idle", stop |-> 0, attempt |-> 0, on |-> 0, ref |-> 0,
     started |-> FALSE, retry |-> FALSE]

Init ==
    /\ run = [state |-> "queued", lease |-> 0, released |-> FALSE,
              expired |-> FALSE, seal |-> "none", sealed |-> FALSE]
    /\ session = "idle"
    /\ epoch = 0
    /\ stop = [s \in Stops |-> NoStop]
    /\ exec = [e \in Leases |-> NoExecution]
    /\ task = [w \in Workers |-> NoTask]

Terminal == run.state \in Outcome
Outstanding == {s \in Stops : stop[s].state \in Active}

\* assertCurrent and the active_execution_scopes view: e still owns the Run.
Scope(e) == run.lease = e /\ ~run.released
Current(e) == Scope(e) /\ ~run.expired

-----------------------------------------------------------------------------
(* Acceptance, claim and the life of an execution.                           *)

\* acceptTurnCancellation of live or recovering work.
Accept(s) ==
    /\ stop[s].state = "none" /\ Outstanding = {}
    /\ \A p \in 1..(s - 1) : stop[p].state # "none"
    /\ \/ run.state = "running" /\ session = "running"
       \/ run.state = "queued" /\ epoch > 0 /\ session = "idle"
    /\ stop' = [stop EXCEPT ![s] = [@ EXCEPT !.state = "pending", !.due = TRUE]]
    /\ UNCHANGED <<run, session, epoch, exec, task>>

\* #claimNext of the Run executor; stopOnResume is read in the same transaction,
\* and the opening record is set before the Worker can look at the Run again.
Claim(w) ==
    LET e == epoch + 1 IN
    /\ e \in Leases
    /\ run.state = "queued" /\ session = "idle"
    /\ epoch' = e
    /\ run' = [run EXCEPT !.state = "running", !.lease = e]
    /\ session' = "running"
    /\ exec' = [exec EXCEPT ![e] =
                  [NoExecution EXCEPT !.worker = w, !.phase = "opening",
                     !.gate = Outstanding # {}, !.held = Outstanding # {}]]
    /\ UNCHANGED <<stop, task>>

\* Mutant: the writer waits for a Stop that waits for the Runner to be ready.
OpenWaiting(e) ==
    /\ exec[e].phase = "opening" /\ exec[e].starting = "no"
    /\ exec' = [exec EXCEPT ![e].phase = "live"]
    /\ UNCHANGED <<run, session, epoch, stop, task>>

\* The writer is open and a Stop that came meanwhile is acknowledged: the
\* command is prepared with opening.stopOnResume and the Runner starts.
Open(e) ==
    /\ exec[e].phase = "opening" /\ exec[e].starting \in {"no", "ok"}
    /\ exec' = [exec EXCEPT ![e] = [@ EXCEPT !.phase = "live", !.starting = "no"]]
    /\ UNCHANGED <<run, session, epoch, stop, task>>

\* A model or Tool call of Pi: beforeEffect holds it back behind the gate.
Effect(e) ==
    /\ exec[e].phase = "live" /\ ~exec[e].gate /\ exec[e].abort = "none"
    /\ ~exec[e].effects
    /\ exec' = [exec EXCEPT ![e].effects = TRUE]
    /\ UNCHANGED <<run, session, epoch, stop, task>>

\* How execute() may end.  An opening ends when its Stop could not be recorded
\* or by a failure of its own; a gated Runner only waits for an abort.
Ends(e, o) ==
    LET x == exec[e] IN
    \/ x.phase = "opening" /\ x.starting = "failed" /\ o = "failed"
    \/ x.phase = "opening" /\ "startup" \in Faults /\ o = "failed"
    \/ x.phase = "opening" /\ "startup" \in Faults /\ o = "recover" /\ e < MaxLease
    \/ x.phase = "live" /\ x.abort = "none" /\ ~x.gate /\ o \in {"completed", "failed"}
    \/ x.phase = "live" /\ x.abort = "user" /\ o \in {"cancelled", "failed"}
    \/ x.phase = "live" /\ "transient" \in Faults /\ o = "recover" /\ e < MaxLease

End(e, o) ==
    /\ Ends(e, o)
    /\ exec' = [exec EXCEPT ![e] = [@ EXCEPT !.phase = "ended", !.result = o]]
    /\ UNCHANGED <<run, session, epoch, stop, task>>

\* revokeExecution and revokeAllAssignments: the lease is gone or the Worker is
\* retiring, so the Runner stops for recovery and a later Stop finds it ending.
Revoke(e) ==
    /\ exec[e].phase \in {"opening", "live"}
    /\ ~Current(e) \/ ("expire" \in Faults /\ e < MaxLease)
    /\ exec' = [exec EXCEPT ![e] = [@ EXCEPT !.phase = "ended", !.result = "recover"]]
    /\ UNCHANGED <<run, session, epoch, stop, task>>

\* finalizer.finish, before the control publisher has fenced this writer.
Publish(e) ==
    /\ exec[e].phase = "ended" /\ exec[e].result \in Outcome
    /\ run.lease = e /\ ~run.sealed
    /\ exec' = [exec EXCEPT ![e] = [@ EXCEPT !.phase = "gone",
                                             !.published = exec[e].result]]
    /\ UNCHANGED <<run, session, epoch, stop, task>>

\* requestExecutionStreamSeal with releaseExecutionScope: the first seal stays.
GivenUp(row, kind) ==
    [row EXCEPT !.released = TRUE, !.seal = IF @ = "none" THEN kind ELSE @]

\* #requestRecovery, also after a publication that could not be confirmed.
RequestRecovery(e) ==
    /\ exec[e].phase = "ended"
    /\ exec[e].result = "recover" \/ run.lease # e \/ run.seal # "none"
    /\ exec' = [exec EXCEPT ![e].phase = "gone"]
    /\ run' = IF Scope(e) /\ run.seal = "none" /\ ~Terminal
              THEN GivenUp(run, "recover") ELSE run
    /\ UNCHANGED <<session, epoch, stop, task>>

\* #recordFailure of the Run executor: the terminal decision is PostgreSQL's.  It
\* only applies to a running Run, so it never overrides an acknowledged Stop.
RecordFailure(e, to) ==
    /\ "undelivered" \in Faults /\ (e < MaxLease \/ run.state = "running")
    /\ exec[e].phase = "ended" /\ exec[e].result = "failed"
    /\ exec' = [exec EXCEPT ![e].phase = "gone"]
    /\ IF Scope(e) /\ run.state = "running" /\ session = "running"
       THEN /\ run' = [GivenUp(run, "terminal") EXCEPT !.state = "failed"]
            /\ session' = to
       ELSE UNCHANGED <<run, session>>
    /\ UNCHANGED <<epoch, stop, task>>

\* valid_until passes.  Heartbeats renew the lease of a live Runner, not of one
\* that is publishing its end; that it lapses meanwhile is a fault too.
Expire(e) ==
    /\ Current(e)
    /\ ("expire" \in Faults /\ e < MaxLease) \/ exec[e].phase = "gone"
    /\ run' = [run EXCEPT !.expired = TRUE]
    /\ UNCHANGED <<session, epoch, stop, exec, task>>

\* reconcileExecutionScope of an expired lease.
Reconcile(e) ==
    /\ Scope(e) /\ run.expired /\ run.seal = "none" /\ ~Terminal
    /\ run' = GivenUp(run, "recover")
    /\ UNCHANGED <<session, epoch, stop, exec, task>>

\* The Worker process dies with its executions and its tasks.
Crash(w) ==
    /\ "crash" \in Faults
    /\ epoch < MaxLease
    /\ \E e \in Leases : exec[e].worker = w /\ exec[e].phase \in {"opening", "live", "ended"}
    /\ exec' = [e \in Leases |->
                  IF exec[e].worker = w /\ exec[e].phase # "none"
                  THEN [exec[e] EXCEPT !.phase = "gone"] ELSE exec[e]]
    /\ task' = [task EXCEPT ![w] = NoTask]
    /\ UNCHANGED <<run, session, epoch, stop>>

-----------------------------------------------------------------------------
(* The Session Projector, in the order of the log.                           *)

Unprojected(e) == run.lease = e /\ exec[e].published # "none" /\ ~run.sealed

\* finishWorkIn, or evidence only once PostgreSQL has decided.
ProjectFinish(e) ==
    /\ Unprojected(e)
    /\ ~Terminal
    /\ run' = [run EXCEPT !.state = exec[e].published, !.released = TRUE,
                          !.sealed = TRUE]
    /\ session' = "idle"
    /\ stop' = [s \in Stops |-> IF stop[s].state \in Active
                                THEN [stop[s] EXCEPT !.state = "completed"] ELSE stop[s]]
    /\ UNCHANGED <<epoch, exec, task>>

\* #seal of a terminal decision: it leaves every Stop as it is.
SealTerminates ==
    /\ run.seal # "none" /\ Terminal /\ ~run.sealed
    /\ run' = [run EXCEPT !.sealed = TRUE, !.released = TRUE]
    /\ UNCHANGED <<session, epoch, stop, exec, task>>

\* #seal with recover: the Run is queued again and its Stop pending again; the
\* attempts already made stay counted.
SealRecovers ==
    /\ run.seal = "recover" /\ ~Terminal
    /\ \A e \in Leases : ~Unprojected(e)
    /\ run' = [state |-> "queued", lease |-> 0, released |-> FALSE,
               expired |-> FALSE, seal |-> "none", sealed |-> FALSE]
    /\ session' = "idle"
    /\ stop' = [s \in Stops |->
                  IF stop[s].state \in {"dispatched", "acknowledged"}
                  THEN [stop[s] EXCEPT !.state = "pending", !.due = TRUE] ELSE stop[s]]
    /\ UNCHANGED <<epoch, exec, task>>

-----------------------------------------------------------------------------
(* One cancellation attempt of a Worker.                                     *)

\* available_at passes: a retry is due, or the claim lease of an attempt is over.
BecomesDue(s) ==
    /\ stop[s].state \in {"pending", "dispatched"} /\ ~stop[s].due
    /\ stop' = [stop EXCEPT ![s].due = TRUE]
    /\ UNCHANGED <<run, session, epoch, exec, task>>

\* #cancellationReferences, among the Runs this Worker is executing.
Choose(w) ==
    /\ task[w].phase = "idle"
    /\ run.state = "running" /\ run.lease # 0
    /\ exec[run.lease].worker = w
    /\ \E e \in Leases : exec[e].worker = w /\ exec[e].phase \in {"opening", "live", "ended"}
    /\ \E s \in Stops :
          /\ stop[s].state \in {"pending", "dispatched"} /\ stop[s].due
          /\ task' = [task EXCEPT ![w] = [NoTask EXCEPT !.phase = "chosen"]]
    /\ UNCHANGED <<run, session, epoch, stop, exec>>

Dispatchable(s) ==
    /\ stop[s].state \in {"pending", "dispatched"} /\ stop[s].due
    /\ run.state \in {"running", "cancel_requested"}
    /\ run.lease # 0 /\ ~run.released /\ run.seal = "none"

\* #claimNext: no condition on the Worker, which chose the Run a moment ago.
ClaimAttempt(w) ==
    /\ task[w].phase = "chosen"
    /\ IF \E s \in Stops : Dispatchable(s)
       THEN \E s \in Stops :
              /\ Dispatchable(s) /\ stop[s].attempts < AttemptBound
              /\ stop' = [stop EXCEPT ![s] = [state |-> "dispatched", due |-> FALSE,
                                              attempts |-> @.attempts + 1]]
              /\ task' = [task EXCEPT ![w] = [NoTask EXCEPT
                            !.phase = "claimed", !.stop = s, !.on = run.lease,
                            !.attempt = stop[s].attempts + 1]]
       ELSE task' = [task EXCEPT ![w] = NoTask] /\ UNCHANGED stop
    /\ UNCHANGED <<run, session, epoch, exec>>

Fails(w, retry) == [task[w] EXCEPT !.phase = "failing", !.retry = retry]

\* currentAssignment: the lease this Worker holds on the Run, or a refusal that
\* is not retryable; a query that fails is.
Lookup(w) ==
    /\ task[w].phase = "claimed"
    /\ \/ /\ session = "running" /\ run.lease # 0
          /\ Current(run.lease) /\ exec[run.lease].worker = w
          /\ task' = [task EXCEPT ![w] = [@ EXCEPT !.phase = "found", !.ref = run.lease]]
       \/ /\ ~(session = "running" /\ run.lease # 0
               /\ Current(run.lease) /\ exec[run.lease].worker = w)
          /\ task' = [task EXCEPT ![w] = Fails(w, FALSE)]
       \/ /\ "transient" \in Faults
          /\ task' = [task EXCEPT ![w] = Fails(w, TRUE)]
    /\ UNCHANGED <<run, session, epoch, stop, exec>>

\* cancel(): an opening execution keeps the Stop for its Runner, a live one gets
\* a prepared cancellation, any other refuses.
Prepare(w) ==
    LET e == task[w].ref IN
    /\ task[w].phase = "found"
    /\ \/ /\ exec[e].phase = "opening"
          /\ exec' = [exec EXCEPT ![e] = [@ EXCEPT !.gate = TRUE, !.starting = "pending"]]
          /\ task' = [task EXCEPT ![w].phase = "starting"]
       \/ /\ exec[e].phase = "live" /\ exec[e].abort = "none"
          /\ task' = [task EXCEPT ![w].phase = "starting"]
          /\ UNCHANGED exec
       \/ /\ exec[e].phase \notin {"opening", "live"} \/ exec[e].abort # "none"
          /\ task' = [task EXCEPT ![w] = Fails(w, FALSE)]
          /\ UNCHANGED exec
    /\ UNCHANGED <<run, session, epoch, stop>>

\* An error that ends the task, so that the row is claimed again: attempts are not
\* limited by it.  Bound: it does not happen to the last attempt.
AttemptEnds(w) == "transient" \in Faults /\ task[w].attempt < MaxAttempts

\* Mutant: lifecycle rows are locked without comparing the attempt.
AnyAttempt(w) == TRUE

\* #lockLifecycleRows: the attempt still is the last one claimed.
OwnAttempt(w) == stop[task[w].stop].attempts = task[w].attempt

\* The started promise of an opening execution settles.
Starting(x, how) == IF x.starting = "pending" THEN [x EXCEPT !.starting = how] ELSE x

\* #markStarted commits.
MarkStarted(w) ==
    LET t == task[w] IN
    /\ t.phase = "starting"
    /\ OwnAttempt(w) /\ stop[t.stop].state = "dispatched"
    /\ run.state = "running" /\ session = "running"
    /\ Current(t.ref)
    /\ run' = [run EXCEPT !.state = "cancel_requested"]
    /\ session' = "cancelling"
    /\ stop' = [stop EXCEPT ![t.stop].state = "acknowledged"]
    /\ exec' = [exec EXCEPT ![t.ref] =
                  [Starting(@, "ok") EXCEPT !.acked = TRUE,
                     !.held = exec[t.ref].held \/ exec[t.ref].phase = "opening"]]
    /\ task' = [task EXCEPT ![w] = [@ EXCEPT !.phase = "started", !.started = TRUE]]
    /\ UNCHANGED epoch

\* #markStarted commits and the Worker never hears of it: it takes the start for
\* failed and rethrows, so an opening execution ends and a live one goes on.
MarkStartedUnheard(w) ==
    LET t == task[w] IN
    /\ "unanswered" \in Faults
    /\ t.phase = "starting"
    /\ OwnAttempt(w) /\ stop[t.stop].state = "dispatched"
    /\ run.state = "running" /\ session = "running"
    /\ Current(t.ref)
    /\ run' = [run EXCEPT !.state = "cancel_requested"]
    /\ session' = "cancelling"
    /\ stop' = [stop EXCEPT ![t.stop].state = "acknowledged"]
    /\ exec' = [exec EXCEPT ![t.ref] =
                  [Starting(@, "failed") EXCEPT !.acked = TRUE,
                     !.held = exec[t.ref].held \/ exec[t.ref].phase = "opening"]]
    /\ task' = [task EXCEPT ![w] = NoTask]
    /\ UNCHANGED epoch

\* cancellation_too_late is recorded; a superseded claim, a lost scope and a
\* database error only end the task.
NotStarted(w) ==
    LET t == task[w]
        late == ~(stop[t.stop].state = "dispatched" /\ run.state = "running"
                  /\ session = "running")
    IN  /\ t.phase = "starting"
        /\ \/ OwnAttempt(w) /\ late /\ task' = [task EXCEPT ![w] = Fails(w, FALSE)]
           \/ /\ ~OwnAttempt(w) \/ (~late /\ ~Current(t.ref)) \/ AttemptEnds(w)
              /\ task' = [task EXCEPT ![w] = NoTask]
        /\ exec' = [exec EXCEPT ![t.ref] = Starting(@, "failed")]
        /\ UNCHANGED <<run, session, epoch, stop>>

\* Mutant: the Runner is aborted while the acknowledgement is still on its way.
SignalUnrecorded(w) ==
    LET e == task[w].ref IN
    /\ task[w].phase \in {"starting", "started"}
    /\ exec[e].phase = "live" /\ exec[e].abort = "none"
    /\ exec' = [exec EXCEPT ![e].abort = "user"]
    /\ task' = [task EXCEPT ![w].phase = "aborting"]
    /\ UNCHANGED <<run, session, epoch, stop>>

\* prepared.run(): the Runner gets the abort of the acknowledged Stop.
Signal(w) ==
    LET e == task[w].ref IN
    /\ task[w].phase = "started"
    /\ exec[e].phase = "live" /\ exec[e].abort = "none"
    /\ exec' = [exec EXCEPT ![e].abort = "user"]
    /\ task' = [task EXCEPT ![w].phase = "aborting"]
    /\ UNCHANGED <<run, session, epoch, stop>>

\* The Runner is already ending.  A startup that failed leaves the acknowledged
\* Stop to its own terminal or recovery; a prepared cancellation fails.
SignalTooLate(w) ==
    LET e == task[w].ref IN
    /\ task[w].phase = "started"
    /\ exec[e].phase \in {"ended", "gone"}
    /\ task' = [task EXCEPT ![w] = IF exec[e].starting = "ok" THEN NoTask
                                   ELSE Fails(w, FALSE)]
    /\ UNCHANGED <<run, session, epoch, stop, exec>>

\* The cancellation resolves with its Runner.
Confirm(w) ==
    LET e == task[w].ref IN
    /\ task[w].phase = "aborting"
    /\ exec[e].phase \in {"ended", "gone"}
    /\ task' = [task EXCEPT ![w] = IF exec[e].result = "cancelled" THEN NoTask
                                   ELSE Fails(w, FALSE)]
    /\ UNCHANGED <<run, session, epoch, stop, exec>>

\* The claim committed without its reply, or #recordFailure fails itself: the
\* error ends the task, and the rows stay as they are.
AttemptLost(w) ==
    /\ AttemptEnds(w)
    /\ task[w].phase \in {"claimed", "failing"}
    /\ task' = [task EXCEPT ![w] = NoTask]
    /\ UNCHANGED <<run, session, epoch, stop, exec>>

\* #recordFailure of an attempt that did not start: retried, or given up.
RecordUnstarted(w) ==
    LET t == task[w]
        again == t.retry /\ t.attempt < MaxAttempts
    IN  /\ t.phase = "failing" /\ ~t.started
        /\ stop' = IF OwnAttempt(w) /\ stop[t.stop].state = "dispatched"
                   THEN [stop EXCEPT ![t.stop] =
                           [@ EXCEPT !.state = IF again THEN "pending" ELSE "failed",
                                     !.due = FALSE]]
                   ELSE stop
        /\ task' = [task EXCEPT ![w] = NoTask]
        /\ UNCHANGED <<run, session, epoch, exec>>

\* #recordFailure of a started attempt: the Run fails with its seal and scope.
RecordStarted(w) ==
    LET t == task[w] IN
    /\ t.phase = "failing" /\ t.started
    /\ IF /\ OwnAttempt(w) /\ stop[t.stop].state = "acknowledged"
          /\ run.state = "cancel_requested" /\ session = "cancelling"
          /\ Scope(t.ref)
       THEN /\ run' = [GivenUp(run, "terminal") EXCEPT !.state = "failed"]
            /\ session' = "failed"
            /\ stop' = [stop EXCEPT ![t.stop].state = "failed"]
       ELSE UNCHANGED <<run, session, stop>>
    /\ task' = [task EXCEPT ![w] = NoTask]
    /\ UNCHANGED <<epoch, exec>>

Attempt(w) ==
    \/ Choose(w) \/ ClaimAttempt(w) \/ Lookup(w) \/ Prepare(w)
    \/ MarkStarted(w) \/ NotStarted(w) \/ MarkStartedUnheard(w) \/ AttemptLost(w)
    \/ Signal(w) \/ SignalTooLate(w) \/ Confirm(w)
    \/ RecordUnstarted(w) \/ RecordStarted(w)

Runner(e) ==
    \/ Open(e)
    \/ \E o \in Outcome \cup {"recover"} : End(e, o)
    \/ Revoke(e) \/ Publish(e) \/ RequestRecovery(e)

Projection ==
    \/ \E e \in Leases : ProjectFinish(e)
    \/ SealTerminates \/ SealRecovers

Next ==
    \/ \E s \in Stops : Accept(s) \/ BecomesDue(s)
    \/ \E w \in Workers : Claim(w) \/ Crash(w) \/ Attempt(w)
    \/ \E e \in Leases :
          \/ Runner(e) \/ Effect(e) \/ Expire(e) \/ Reconcile(e)
          \/ \E to \in {"idle", "failed"} : RecordFailure(e, to)
    \/ Projection

Spec == Init /\ [][Next]_vars

\* The polling loop, the Projector and the reconcilers keep running, time passes
\* and a Runner that is told to stop, or whose Stop could not be recorded while it
\* opened, ends.  Any other may run for ever.
Fairness ==
    /\ WF_vars(\E w \in Workers : Claim(w))
    /\ \A w \in Workers : WF_vars(Attempt(w))
    /\ \A s \in Stops : WF_vars(BecomesDue(s))
    /\ \A e \in Leases :
          /\ WF_vars(Open(e)) /\ WF_vars(~Current(e) /\ Revoke(e))
          /\ WF_vars((exec[e].abort = "user" \/ exec[e].starting = "failed")
                 /\ \E o \in Outcome : End(e, o))
          /\ WF_vars(Publish(e) \/ RequestRecovery(e))
          /\ WF_vars(exec[e].phase = "gone" /\ Expire(e)) /\ WF_vars(Reconcile(e))
    /\ WF_vars(Projection)

FairSpec == Spec /\ Fairness

-----------------------------------------------------------------------------
(* Properties.                                                               *)

\* A Runner is aborted for its user only after PostgreSQL recorded, for this very
\* execution, that its Stop began: Pi never settles an abort that a recovery
\* would not know of (#markStarted before prepared.run in cancel()).
AbortIsAcknowledged ==
    \A e \in Leases : exec[e].abort = "user" => exec[e].acked

\* An execution that was claimed with a Stop outstanding, or got one acknowledged
\* while its writer opened, never calls a model or a Tool, whatever becomes of
\* that Stop afterwards (stopOnResume, beforeEffect).
StoppedBeforeOpenIsIdle ==
    \A e \in Leases : exec[e].held => ~exec[e].effects

\* A Stop takes effect in its Runner in order: acknowledged before the abort, and
\* before the Runner does anything when it came before it.
StopIsHonoured == AbortIsAcknowledged /\ StoppedBeforeOpenIsIdle

\* An attempt that outlived its execution changes nothing of the next one: what
\* a cancellation transaction writes concerns the lease the Run had when the
\* attempt was claimed (the attempt check of #lockLifecycleRows).
StaleAttemptsAreInert ==
    [][\A w \in Workers :
          task[w].phase \in {"starting", "failing"} /\ task'[w] # task[w]
            => \/ run.lease = task[w].on
               \/ UNCHANGED <<run, session, stop>>]_vars

\* The outcome of a Run is final, and of a Stop: neither a Stop still pending when
\* the Run failed nor an attempt that comes back afterwards changes it.
OutcomeIsFinal ==
    [][/\ Terminal => run'.state = run.state
       /\ \A s \in Stops : stop[s].state \in {"completed", "failed"}
                             => stop'[s].state = stop[s].state]_vars

\* An acknowledged Stop with nobody left to act on it: its Runner goes on as if
\* there were none, and no attempt is about to abort it.
Unheard(s) ==
    /\ stop[s].state = "acknowledged" /\ run.lease # 0
    /\ exec[run.lease].phase = "live" /\ exec[run.lease].abort = "none"
    /\ \A w \in Workers : task[w].phase # "started"

\* The attempt of w found no Runner of its own to stop: the Run left the lease it
\* was claimed on or is another Worker's, its Runner ends, or retries are spent.
OutOfReach(w) ==
    LET t == task[w] IN
    \/ run.lease # t.on \/ ~Current(t.on) \/ Terminal
    \/ exec[t.on].worker # w \/ exec[t.on].phase \in {"ended", "gone"}
    \/ t.attempt >= MaxAttempts

\* A Stop is not lost in silence, across crashes, recovery and retries at any
\* step: it ends its Run, or it is reported as failed, which happens outside a
\* failing Run only when the attempt could reach no Runner of its own.  The
\* exception is an acknowledgement whose reply is lost while its Runner lives.
StopSettles ==
    /\ \A s \in Stops : stop[s].state \in Active
                         ~> Terminal \/ stop[s].state = "failed" \/ Unheard(s)
    /\ [][\A s \in Stops : stop[s].state = "dispatched" /\ stop'[s].state = "failed"
             => \E w \in Workers : task[w].stop = s /\ OutOfReach(w)]_vars

=============================================================================
