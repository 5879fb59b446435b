------------------------ MODULE RunCancellation_proofs ------------------------
(***************************************************************************)
(* Proofs about the Stop of one Run, for every number of Workers, leases,  *)
(* Stops and attempts, and for every subset of the faults.                 *)
(***************************************************************************)
EXTENDS RunCancellation, TLAPS

Busy(w) == task[w].phase \notin {"idle", "chosen"}
OnLease(w) == task[w].phase \in {"found", "starting", "started", "aborting"} \/ task[w].started

\* What a task remembers was once read from a row.
Referenced ==
    /\ run.lease <= epoch
    /\ \A w \in Workers :
          Busy(w) => /\ task[w].stop \in Stops
                     /\ task[w].attempt <= stop[task[w].stop].attempts
    /\ \A w \in Workers : OnLease(w) => task[w].ref \in 1..epoch

Typed == TypeOK /\ Referenced

\* The three tables tell one story: a Run is cancel_requested and its Session
\* cancelling exactly while its one outstanding Stop is acknowledged.
TablesAgree ==
    /\ \A s, u \in Outstanding : s = u
    /\ run.state = "cancel_requested" <=> \E s \in Stops : stop[s].state = "acknowledged"
    /\ run.state = "cancel_requested" <=> session = "cancelling"
    /\ run.state = "running" <=> session = "running"

Honoured ==
    /\ StopIsHonoured
    /\ \A w \in Workers : task[w].phase = "started" => exec[task[w].ref].acked
    /\ \A e \in Leases : exec[e].held => exec[e].gate
    /\ \A e \in Leases : exec[e].phase \in {"none", "opening"} => ~exec[e].effects
    /\ \A w \in Workers :
          task[w].phase = "starting" /\ exec[task[w].ref].phase = "opening"
             => exec[task[w].ref].gate

\* The last attempt of a Stop under way belongs to the lease the Run still has.
InTurn ==
    /\ run.state = "queued" => \A s \in Stops : stop[s].state \notin {"dispatched", "acknowledged"}
    /\ \A w \in Workers :
          Busy(w) /\ OwnAttempt(w) /\ stop[task[w].stop].state \in {"dispatched", "acknowledged"}
             => run.lease = task[w].on

-----------------------------------------------------------------------------
\* The updates the actions make of an execution keep its type.
LEMMA ExecutionUpdates ==
    ASSUME NEW x \in Execution
    PROVE  /\ \A p \in {"live", "gone"} : [x EXCEPT !.phase = p] \in Execution
           /\ [x EXCEPT !.phase = "live", !.starting = "no"] \in Execution
           /\ [x EXCEPT !.effects = TRUE] \in Execution
           /\ \A o \in Outcome \cup {"recover"} : [x EXCEPT !.phase = "ended", !.result = o] \in Execution
           /\ x.result \in Outcome => [x EXCEPT !.phase = "gone", !.published = x.result] \in Execution
           /\ [x EXCEPT !.gate = TRUE, !.starting = "pending"] \in Execution
           /\ [x EXCEPT !.abort = "user"] \in Execution
           /\ \A how \in {"ok", "failed"} : Starting(x, how) \in Execution
           /\ \A how \in {"ok", "failed"}, h \in BOOLEAN :
                 [Starting(x, how) EXCEPT !.acked = TRUE, !.held = h] \in Execution
  <1>1. \A p \in {"live", "gone"} : [x EXCEPT !.phase = p] \in Execution
    BY DEF Execution
  <1>2. [x EXCEPT !.effects = TRUE] \in Execution
    BY DEF Execution
  <1>3. \A o \in Outcome \cup {"recover"} : [x EXCEPT !.phase = "ended", !.result = o] \in Execution
    BY DEF Execution
  <1>4. x.result \in Outcome => [x EXCEPT !.phase = "gone", !.published = x.result] \in Execution
    BY DEF Execution
  <1>5. [x EXCEPT !.gate = TRUE, !.starting = "pending"] \in Execution
    BY DEF Execution
  <1>6. [x EXCEPT !.abort = "user"] \in Execution
    BY DEF Execution
  <1>7. \A how \in {"ok", "failed"} : Starting(x, how) \in Execution
    BY DEF Execution, Starting
  <1>8. \A y \in Execution, h \in BOOLEAN : [y EXCEPT !.acked = TRUE, !.held = h] \in Execution
    BY DEF Execution
  <1>9. \A how \in {"ok", "failed"}, h \in BOOLEAN :
           [Starting(x, how) EXCEPT !.acked = TRUE, !.held = h] \in Execution
    BY <1>7, <1>8
  <1>10. [x EXCEPT !.phase = "live", !.starting = "no"] \in Execution
    BY DEF Execution
  <1> QED BY <1>1, <1>2, <1>3, <1>4, <1>5, <1>6, <1>7, <1>9, <1>10

\* The updates the executor makes of an attempt keep its type.
LEMMA TaskUpdates ==
    ASSUME NEW x \in Task
    PROVE  /\ NoTask \in Task
           /\ [NoTask EXCEPT !.phase = "chosen"] \in Task
           /\ \A p \in {"starting", "aborting"} : [x EXCEPT !.phase = p] \in Task
           /\ \A e \in Leases : [x EXCEPT !.phase = "found", !.ref = e] \in Task
           /\ \A r \in BOOLEAN : [x EXCEPT !.phase = "failing", !.retry = r] \in Task
           /\ [x EXCEPT !.phase = "started", !.started = TRUE] \in Task
  <1>1. NoTask \in Task /\ [NoTask EXCEPT !.phase = "chosen"] \in Task
    <2>1. 0 \in 0..AttemptBound /\ 0 \in 0..MaxStops /\ 0 \in 0..MaxLease
      BY CancellationAssumption DEF AttemptBound
    <2> QED BY <2>1 DEF NoTask, Task
  <1>2. \A p \in {"starting", "aborting"} : [x EXCEPT !.phase = p] \in Task
    BY DEF Task
  <1>3. \A e \in Leases : [x EXCEPT !.phase = "found", !.ref = e] \in Task
    <2>1. \A e \in Leases : e \in 0..MaxLease
      BY CancellationAssumption DEF Leases
    <2> QED BY <2>1 DEF Task
  <1>4. \A r \in BOOLEAN : [x EXCEPT !.phase = "failing", !.retry = r] \in Task
    BY DEF Task
  <1>5. [x EXCEPT !.phase = "started", !.started = TRUE] \in Task
    BY DEF Task
  <1> QED BY <1>1, <1>2, <1>3, <1>4, <1>5

\* An attempt that is past its lookup names an execution that exists.
LEMMA Remembered ==
    ASSUME Typed, NEW w \in Workers
    PROVE  /\ task[w] \in Task
           /\ OnLease(w) => task[w].ref \in Leases /\ exec[task[w].ref] \in Execution
           /\ Busy(w) => task[w].stop \in Stops
  <1>1. 1..epoch \subseteq Leases
    BY CancellationAssumption DEF Typed, TypeOK, Leases
  <1> QED BY <1>1 DEF Typed, TypeOK, Referenced

\* Every step of the control plane, the executor or a Worker keeps the types.
LEMMA TypeStep == ASSUME Typed, [Next]_vars PROVE TypeOK'
  <1> USE CancellationAssumption DEF Typed
  <1>1. ASSUME NEW s \in Stops, Accept(s)
        PROVE  TypeOK'
    <2>1. stop' \in [Stops -> StopRow]
      BY <1>1 DEF Accept, TypeOK, StopRow, Active, Outcome, AttemptBound
    <2> QED BY <1>1, <2>1 DEF Accept, TypeOK
  <1>2. ASSUME NEW s \in Stops, BecomesDue(s)
        PROVE  TypeOK'
    <2>1. stop' \in [Stops -> StopRow]
      BY <1>2 DEF BecomesDue, TypeOK, StopRow, Active, Outcome, AttemptBound
    <2> QED BY <1>2, <2>1 DEF BecomesDue, TypeOK
  <1>3. ASSUME NEW w \in Workers, Claim(w)
        PROVE  TypeOK'
    <2>1. run' \in RunRow /\ (run'.state = "queued" <=> run'.lease = 0)
      <3>1. run' = [run EXCEPT !.state = "running", !.lease = epoch + 1] /\ epoch + 1 \in Leases
        BY <1>3 DEF Claim
      <3>2. epoch + 1 \in 0..MaxLease /\ epoch + 1 # 0
        BY <3>1 DEF TypeOK, Leases
      <3> QED BY <3>1, <3>2 DEF TypeOK, RunRow
    <2>2. exec' \in [Leases -> Execution]
      <3>1. PICK g \in BOOLEAN :
              exec' = [exec EXCEPT ![epoch + 1] =
                         [NoExecution EXCEPT !.worker = w, !.phase = "opening", !.gate = g, !.held = g]]
        BY <1>3, Zenon DEF Claim
      <3>2. [NoExecution EXCEPT !.worker = w, !.phase = "opening", !.gate = g, !.held = g] \in Execution
        BY DEF NoExecution, Execution
      <3> QED BY <3>1, <3>2 DEF TypeOK
    <2> QED BY <1>3, <2>1, <2>2 DEF Claim, TypeOK, Leases
  <1>4. ASSUME NEW w \in Workers, Crash(w)
        PROVE  TypeOK'
    <2>1. exec' \in [Leases -> Execution]
      BY <1>4 DEF Crash, TypeOK, Execution, Outcome, NoTask
    <2>2. task' \in [Workers -> Task]
      BY <1>4 DEF Crash, TypeOK, Task, AttemptBound, NoTask
    <2> QED BY <1>4, <2>1, <2>2 DEF Crash, TypeOK
  <1>5. ASSUME NEW w \in Workers, Choose(w)
        PROVE  TypeOK'
    <2>1. task' \in [Workers -> Task]
      <3>1. task' = [task EXCEPT ![w] = [NoTask EXCEPT !.phase = "chosen"]]
        BY <1>5 DEF Choose, Fails
      <3>2. task[w] \in Task
        BY Remembered
      <3>3. NoTask \in Task /\ [NoTask EXCEPT !.phase = "chosen"] \in Task
            /\ [task[w] EXCEPT !.phase = "failing", !.retry = FALSE] \in Task
            /\ [task[w] EXCEPT !.phase = "starting"] \in Task
        BY <3>2, TaskUpdates
      <3> QED BY <3>1, <3>3 DEF TypeOK
    <2> QED BY <1>5, <2>1 DEF Choose, TypeOK
  <1>6. ASSUME NEW w \in Workers, ClaimAttempt(w)
        PROVE  TypeOK'
    <2>1. stop' \in [Stops -> StopRow]
      <3>1. CASE UNCHANGED stop
        BY <3>1 DEF TypeOK
      <3>2. ASSUME NEW s \in Stops, stop[s].attempts < AttemptBound,
                   stop' = [stop EXCEPT ![s] = [state |-> "dispatched", due |-> FALSE,
                                                attempts |-> @.attempts + 1]]
            PROVE  stop' \in [Stops -> StopRow]
        BY <3>2 DEF TypeOK, StopRow, Active, AttemptBound
      <3> QED BY <1>6, <3>1, <3>2 DEF ClaimAttempt
    <2>2. task' \in [Workers -> Task]
      <3>1. CASE task' = [task EXCEPT ![w] = NoTask]
        BY <3>1, TaskUpdates, Remembered DEF TypeOK
      <3>2. ASSUME NEW s \in Stops, stop[s].attempts < AttemptBound,
                   task' = [task EXCEPT ![w] = [NoTask EXCEPT
                              !.phase = "claimed", !.stop = s, !.on = run.lease,
                              !.attempt = stop[s].attempts + 1]]
            PROVE  task' \in [Workers -> Task]
        <4>1. run.lease \in 0..MaxLease /\ s \in 0..MaxStops
              /\ stop[s].attempts + 1 \in 0..AttemptBound
          BY <3>2 DEF TypeOK, RunRow, StopRow, AttemptBound, Stops
        <4>2. NoTask \in Task
          BY TaskUpdates, Remembered
        <4>3. \A m \in 0..MaxStops, o \in 0..MaxLease, n \in 0..AttemptBound :
                 [NoTask EXCEPT !.phase = "claimed", !.stop = m, !.on = o, !.attempt = n] \in Task
          BY <4>2 DEF Task
        <4> QED BY <3>2, <4>1, <4>3 DEF TypeOK
      <3> QED BY <1>6, <3>1, <3>2 DEF ClaimAttempt
    <2> QED BY <1>6, <2>1, <2>2 DEF ClaimAttempt, TypeOK
  <1>7. ASSUME NEW w \in Workers, Lookup(w)
        PROVE  TypeOK'
    <2>1. task' \in [Workers -> Task]
      <3>1. run.lease # 0 => run.lease \in Leases
        BY DEF TypeOK, RunRow, Leases
      <3>2. \/ run.lease # 0 /\ task' = [task EXCEPT ![w] = [task[w] EXCEPT !.phase = "found", !.ref = run.lease]]
            \/ task' = [task EXCEPT ![w] = [task[w] EXCEPT !.phase = "failing", !.retry = FALSE]]
            \/ task' = [task EXCEPT ![w] = [task[w] EXCEPT !.phase = "failing", !.retry = TRUE]]
        BY <1>7 DEF Lookup, Fails
      <3>3. task[w] \in Task
        BY Remembered
      <3>4. \A r \in BOOLEAN : [task[w] EXCEPT !.phase = "failing", !.retry = r] \in Task
        BY <3>3, TaskUpdates
      <3>5. \A e \in Leases : [task[w] EXCEPT !.phase = "found", !.ref = e] \in Task
        BY <3>3, TaskUpdates
      <3> QED BY <3>1, <3>2, <3>4, <3>5 DEF TypeOK
    <2> QED BY <1>7, <2>1 DEF Lookup, TypeOK
  <1>8. ASSUME NEW w \in Workers, Prepare(w)
        PROVE  TypeOK'
    <2>1. exec' \in [Leases -> Execution]
      <3>1. task[w].ref \in Leases /\ exec[task[w].ref] \in Execution
        BY <1>8, Remembered DEF Prepare, OnLease
      <3>2. \/ exec' = [exec EXCEPT ![task[w].ref] =
                         [exec[task[w].ref] EXCEPT !.gate = TRUE, !.starting = "pending"]]
            \/ exec' = exec
        BY <1>8 DEF Prepare
      <3> QED BY <3>1, <3>2, ExecutionUpdates DEF TypeOK
    <2>2. task' \in [Workers -> Task]
      <3>1. task' = [task EXCEPT ![w] = [task[w] EXCEPT !.phase = "starting"]] \/ task' = [task EXCEPT ![w] = [task[w] EXCEPT !.phase = "failing", !.retry = FALSE]]
        BY <1>8 DEF Prepare, Fails
      <3>2. task[w] \in Task
        BY Remembered
      <3>3. NoTask \in Task /\ [NoTask EXCEPT !.phase = "chosen"] \in Task
            /\ [task[w] EXCEPT !.phase = "failing", !.retry = FALSE] \in Task
            /\ [task[w] EXCEPT !.phase = "starting"] \in Task
        BY <3>2, TaskUpdates
      <3> QED BY <3>1, <3>3 DEF TypeOK
    <2> QED BY <1>8, <2>1, <2>2 DEF Prepare, TypeOK
  <1>9. ASSUME NEW w \in Workers, MarkStarted(w)
        PROVE  TypeOK'
    <2>1. run' \in RunRow /\ (run'.state = "queued" <=> run'.lease = 0)
      BY <1>9 DEF MarkStarted, TypeOK, RunRow, Outcome, Starting
    <2>2. stop' \in [Stops -> StopRow]
      BY ZenonT(30), <1>9 DEF MarkStarted, TypeOK, StopRow, Active, Outcome, AttemptBound, Starting
    <2>3. exec' \in [Leases -> Execution]
      <3> DEFINE e == task[w].ref
                 h == exec[e].held \/ exec[e].phase = "opening"
      <3>1. e \in Leases /\ exec[e] \in Execution
        BY <1>9, Remembered DEF MarkStarted, OnLease
      <3>2. exec' = [exec EXCEPT ![e] = [Starting(exec[e], "ok") EXCEPT !.acked = TRUE, !.held = h]]
        BY <1>9 DEF MarkStarted
      <3>3. h \in BOOLEAN
        BY Zenon
      <3> HIDE DEF e, h
      <3>4. [Starting(exec[e], "ok") EXCEPT !.acked = TRUE, !.held = h] \in Execution
        BY <3>1, <3>3, ExecutionUpdates
      <3> QED BY <3>1, <3>2, <3>4 DEF TypeOK
    <2>4. task' \in [Workers -> Task]
      BY ZenonT(30), <1>9 DEF MarkStarted, TypeOK, Task, AttemptBound, Starting
    <2> QED BY <1>9, <2>1, <2>2, <2>3, <2>4 DEF MarkStarted, TypeOK
  <1>10. ASSUME NEW w \in Workers, NotStarted(w)
        PROVE  TypeOK'
    <2>1. exec' \in [Leases -> Execution]
      <3>1. task[w].ref \in Leases /\ exec[task[w].ref] \in Execution
        BY <1>10, Remembered DEF NotStarted, OnLease
      <3>2. exec' = [exec EXCEPT ![task[w].ref] = Starting(exec[task[w].ref], "failed")]
        BY <1>10 DEF NotStarted
      <3> QED BY <3>1, <3>2, ExecutionUpdates DEF TypeOK
    <2>2. task' \in [Workers -> Task]
      <3>1. task' = [task EXCEPT ![w] = NoTask] \/ task' = [task EXCEPT ![w] = [task[w] EXCEPT !.phase = "failing", !.retry = FALSE]]
        BY <1>10 DEF NotStarted, Fails
      <3>2. task[w] \in Task
        BY Remembered
      <3>3. NoTask \in Task /\ [NoTask EXCEPT !.phase = "chosen"] \in Task
            /\ [task[w] EXCEPT !.phase = "failing", !.retry = FALSE] \in Task
            /\ [task[w] EXCEPT !.phase = "starting"] \in Task
        BY <3>2, TaskUpdates
      <3> QED BY <3>1, <3>3 DEF TypeOK
    <2> QED BY <1>10, <2>1, <2>2 DEF NotStarted, TypeOK
  <1>11. ASSUME NEW w \in Workers, Signal(w)
        PROVE  TypeOK'
    <2>1. exec' \in [Leases -> Execution]
      <3>1. task[w].ref \in Leases /\ exec[task[w].ref] \in Execution
        BY <1>11, Remembered DEF Signal, OnLease
      <3>2. exec' = [exec EXCEPT ![task[w].ref] = [exec[task[w].ref] EXCEPT !.abort = "user"]]
        BY <1>11 DEF Signal
      <3> QED BY <3>1, <3>2, ExecutionUpdates DEF TypeOK
    <2>2. task' \in [Workers -> Task]
      BY <1>11 DEF Signal, TypeOK, Task, AttemptBound
    <2> QED BY <1>11, <2>1, <2>2 DEF Signal, TypeOK
  <1>12. ASSUME NEW w \in Workers, SignalTooLate(w)
        PROVE  TypeOK'
    <2>1. task' \in [Workers -> Task]
      <3>1. task' = [task EXCEPT ![w] = NoTask] \/ task' = [task EXCEPT ![w] = [task[w] EXCEPT !.phase = "failing", !.retry = FALSE]]
        BY <1>12 DEF SignalTooLate, Fails
      <3>2. task[w] \in Task
        BY Remembered
      <3>3. NoTask \in Task /\ [NoTask EXCEPT !.phase = "chosen"] \in Task
            /\ [task[w] EXCEPT !.phase = "failing", !.retry = FALSE] \in Task
            /\ [task[w] EXCEPT !.phase = "starting"] \in Task
        BY <3>2, TaskUpdates
      <3> QED BY <3>1, <3>3 DEF TypeOK
    <2> QED BY <1>12, <2>1 DEF SignalTooLate, TypeOK
  <1>13. ASSUME NEW w \in Workers, Confirm(w)
        PROVE  TypeOK'
    <2>1. task' \in [Workers -> Task]
      <3>1. task' = [task EXCEPT ![w] = NoTask] \/ task' = [task EXCEPT ![w] = [task[w] EXCEPT !.phase = "failing", !.retry = FALSE]]
        BY <1>13 DEF Confirm, Fails
      <3>2. task[w] \in Task
        BY Remembered
      <3>3. NoTask \in Task /\ [NoTask EXCEPT !.phase = "chosen"] \in Task
            /\ [task[w] EXCEPT !.phase = "failing", !.retry = FALSE] \in Task
            /\ [task[w] EXCEPT !.phase = "starting"] \in Task
        BY <3>2, TaskUpdates
      <3> QED BY <3>1, <3>3 DEF TypeOK
    <2> QED BY <1>13, <2>1 DEF Confirm, TypeOK
  <1>14. ASSUME NEW w \in Workers, RecordUnstarted(w)
        PROVE  TypeOK'
    <2>1. stop' \in [Stops -> StopRow]
      BY ZenonT(60), <1>14 DEF RecordUnstarted, TypeOK, StopRow, Active, Outcome, AttemptBound, NoTask
    <2>2. task' \in [Workers -> Task]
      BY SMTT(20), <1>14 DEF RecordUnstarted, TypeOK, Task, AttemptBound, NoTask
    <2> QED BY <1>14, <2>1, <2>2 DEF RecordUnstarted, TypeOK
  <1>15. ASSUME NEW w \in Workers, RecordStarted(w)
        PROVE  TypeOK'
    <2>1. run' \in RunRow /\ (run'.state = "queued" <=> run'.lease = 0)
      BY ZenonT(60), <1>15 DEF RecordStarted, TypeOK, RunRow, Outcome, GivenUp, NoTask
    <2>2. stop' \in [Stops -> StopRow]
      BY SMTT(20), <1>15 DEF RecordStarted, TypeOK, StopRow, Active, Outcome, AttemptBound, GivenUp, NoTask
    <2>3. task' \in [Workers -> Task]
      BY SMTT(20), <1>15 DEF RecordStarted, TypeOK, Task, AttemptBound, GivenUp, NoTask
    <2> QED BY <1>15, <2>1, <2>2, <2>3 DEF RecordStarted, TypeOK
  <1>16. ASSUME NEW e \in Leases, Open(e)
        PROVE  TypeOK'
    <2>1. exec' \in [Leases -> Execution]
      <3>1. exec[e] \in Execution /\ exec' = [exec EXCEPT ![e] = [exec[e] EXCEPT !.phase = "live", !.starting = "no"]]
        BY <1>16 DEF Open, TypeOK
      <3> QED BY <3>1, ExecutionUpdates DEF TypeOK
    <2> QED BY <1>16, <2>1 DEF Open, TypeOK
  <1>17. ASSUME NEW e \in Leases, Effect(e)
        PROVE  TypeOK'
    <2>1. exec' \in [Leases -> Execution]
      <3>1. exec' = [exec EXCEPT ![e] = [exec[e] EXCEPT !.effects = TRUE]]
        BY <1>17 DEF Effect, Ends
      <3> QED BY <3>1, ExecutionUpdates DEF TypeOK
    <2> QED BY <1>17, <2>1 DEF Effect, TypeOK
  <1>18. ASSUME NEW e \in Leases, NEW o \in Outcome \cup {"recover"}, End(e, o)
        PROVE  TypeOK'
    <2>1. exec' \in [Leases -> Execution]
      <3>1. exec' = [exec EXCEPT ![e] = [exec[e] EXCEPT !.phase = "ended", !.result = o]]
        BY <1>18 DEF End, Ends
      <3> QED BY <3>1, ExecutionUpdates DEF TypeOK
    <2> QED BY <1>18, <2>1 DEF End, TypeOK
  <1>19. ASSUME NEW e \in Leases, Revoke(e)
        PROVE  TypeOK'
    <2>1. exec' \in [Leases -> Execution]
      <3>1. exec' = [exec EXCEPT ![e] = [exec[e] EXCEPT !.phase = "ended", !.result = "recover"]]
        BY <1>19 DEF Revoke, Ends
      <3> QED BY <3>1, ExecutionUpdates DEF TypeOK
    <2> QED BY <1>19, <2>1 DEF Revoke, TypeOK
  <1>20. ASSUME NEW e \in Leases, Publish(e)
        PROVE  TypeOK'
    <2>1. exec' \in [Leases -> Execution]
      <3>1. exec' = [exec EXCEPT ![e] = [exec[e] EXCEPT !.phase = "gone", !.published = exec[e].result]]
            /\ exec[e].result \in Outcome
        BY <1>20 DEF Publish, Ends
      <3> QED BY <3>1, ExecutionUpdates DEF TypeOK
    <2> QED BY <1>20, <2>1 DEF Publish, TypeOK
  <1>21. ASSUME NEW e \in Leases, RequestRecovery(e)
        PROVE  TypeOK'
    <2>1. exec' \in [Leases -> Execution]
      BY <1>21 DEF RequestRecovery, TypeOK, Execution, Outcome, GivenUp
    <2>2. run' \in RunRow /\ (run'.state = "queued" <=> run'.lease = 0)
      BY <1>21 DEF RequestRecovery, TypeOK, RunRow, Outcome, GivenUp
    <2> QED BY <1>21, <2>1, <2>2 DEF RequestRecovery, TypeOK
  <1>22. ASSUME NEW e \in Leases, NEW to \in {"idle", "failed"}, RecordFailure(e, to)
        PROVE  TypeOK'
    <2>1. exec' \in [Leases -> Execution]
      <3>1. exec[e] \in Execution /\ exec' = [exec EXCEPT ![e] = [exec[e] EXCEPT !.phase = "gone"]]
        BY <1>22 DEF RecordFailure, TypeOK
      <3> QED BY <3>1, ExecutionUpdates DEF TypeOK
    <2>2. run' \in RunRow /\ (run'.state = "queued" <=> run'.lease = 0)
      BY ZenonT(60), <1>22 DEF RecordFailure, TypeOK, RunRow, Outcome, GivenUp
    <2> QED BY <1>22, <2>1, <2>2 DEF RecordFailure, TypeOK
  <1>23. ASSUME NEW e \in Leases, Expire(e)
        PROVE  TypeOK'
    <2>1. run' \in RunRow /\ (run'.state = "queued" <=> run'.lease = 0)
      BY <1>23 DEF Expire, TypeOK, RunRow, Outcome
    <2> QED BY <1>23, <2>1 DEF Expire, TypeOK
  <1>24. ASSUME NEW e \in Leases, Reconcile(e)
        PROVE  TypeOK'
    <2>1. run' \in RunRow /\ (run'.state = "queued" <=> run'.lease = 0)
      BY <1>24 DEF Reconcile, TypeOK, RunRow, Outcome, GivenUp
    <2> QED BY <1>24, <2>1 DEF Reconcile, TypeOK
  <1>25. ASSUME NEW e \in Leases, ProjectFinish(e)
        PROVE  TypeOK'
    <2>1. run' \in RunRow /\ (run'.state = "queued" <=> run'.lease = 0)
      <3>1. exec[e].published \in Outcome
        BY <1>25 DEF ProjectFinish, Unprojected, TypeOK, Execution
      <3>2. run' = [run EXCEPT !.state = exec[e].published, !.released = TRUE, !.sealed = TRUE]
            /\ run.lease = e
        BY <1>25 DEF ProjectFinish, Unprojected
      <3>3. run.lease # 0 /\ exec[e].published # "queued"
        BY <3>1, <3>2, CancellationAssumption DEF Leases, Outcome
      <3> QED BY <3>1, <3>2, <3>3 DEF TypeOK, RunRow, Outcome
    <2>2. stop' \in [Stops -> StopRow]
      BY <1>25 DEF ProjectFinish, TypeOK, StopRow, Active, Outcome, AttemptBound, Unprojected, Execution
    <2> QED BY <1>25, <2>1, <2>2 DEF ProjectFinish, TypeOK
  <1>26. CASE SealTerminates
    <2>1. run' \in RunRow /\ (run'.state = "queued" <=> run'.lease = 0)
      BY <1>26 DEF SealTerminates, TypeOK, RunRow, Outcome
    <2> QED BY <1>26, <2>1 DEF SealTerminates, TypeOK
  <1>27. CASE SealRecovers
    <2>1. run' \in RunRow /\ (run'.state = "queued" <=> run'.lease = 0)
      <3>1. run' = [state |-> "queued", lease |-> 0, released |-> FALSE,
                     expired |-> FALSE, seal |-> "none", sealed |-> FALSE]
        BY <1>27 DEF SealRecovers
      <3> QED BY <3>1 DEF RunRow
    <2>2. stop' \in [Stops -> StopRow]
      BY <1>27 DEF SealRecovers, TypeOK, StopRow, Active, Outcome, AttemptBound
    <2> QED BY <1>27, <2>1, <2>2 DEF SealRecovers, TypeOK
  <1>29. ASSUME NEW w \in Workers, MarkStartedUnheard(w)
        PROVE  TypeOK'
    <2>1. run' \in RunRow /\ (run'.state = "queued" <=> run'.lease = 0)
      BY <1>29 DEF MarkStartedUnheard, TypeOK, RunRow, Outcome
    <2>2. stop' \in [Stops -> StopRow]
      BY ZenonT(30), <1>29 DEF MarkStartedUnheard, TypeOK, StopRow, Active, Outcome, AttemptBound
    <2>3. exec' \in [Leases -> Execution]
      <3> DEFINE e == task[w].ref
                 h == exec[e].held \/ exec[e].phase = "opening"
      <3>1. e \in Leases /\ exec[e] \in Execution
        BY <1>29, Remembered DEF MarkStartedUnheard, OnLease
      <3>2. exec' = [exec EXCEPT ![e] = [Starting(exec[e], "failed") EXCEPT !.acked = TRUE, !.held = h]]
        BY <1>29 DEF MarkStartedUnheard
      <3>3. h \in BOOLEAN
        BY Zenon
      <3> HIDE DEF e, h
      <3>4. [Starting(exec[e], "failed") EXCEPT !.acked = TRUE, !.held = h] \in Execution
        BY <3>1, <3>3, ExecutionUpdates
      <3> QED BY <3>1, <3>2, <3>4 DEF TypeOK
    <2>4. task' \in [Workers -> Task]
      BY <1>29, Remembered, TaskUpdates DEF MarkStartedUnheard, TypeOK
    <2> QED BY <1>29, <2>1, <2>2, <2>3, <2>4 DEF MarkStartedUnheard, TypeOK
  <1>30. ASSUME NEW w \in Workers, AttemptLost(w)
        PROVE  TypeOK'
    <2>1. task' \in [Workers -> Task]
      BY <1>30, Remembered, TaskUpdates DEF AttemptLost, TypeOK
    <2> QED BY <1>30, <2>1 DEF AttemptLost, TypeOK
  <1>28. CASE UNCHANGED vars
    BY <1>28 DEF TypeOK, vars
  <1> QED
    BY <1>1, <1>2, <1>3, <1>4, <1>5, <1>6, <1>7, <1>8, <1>9, <1>10, <1>11, <1>12, <1>13, <1>14, <1>15, <1>16, <1>17, <1>18, <1>19, <1>20, <1>21, <1>22, <1>23, <1>24, <1>25, <1>26, <1>27, <1>28, <1>29, <1>30
    DEF Next, Attempt, Runner, Projection

\* An attempt that goes on, or fails, keeps the request and lease it is about.
LEMMA ReferencedFrame ==
  ASSUME Typed, UNCHANGED <<run, epoch, stop>>, NEW w \in Workers, NEW t,
         task' = [task EXCEPT ![w] = t], Busy(w),
         t.stop = task[w].stop, t.attempt = task[w].attempt, t.ref = task[w].ref,
         t.started = task[w].started,
         t.phase \in {"found", "starting", "started", "aborting"} => OnLease(w)
  PROVE  Referenced'
  <1>1. task \in [Workers -> Task] /\ Referenced
    BY DEF Typed, TypeOK
  <1>2. task'[w] = t /\ \A v \in Workers \ {w} : task'[v] = task[v]
    BY <1>1
  <1>3. OnLease(w)' => OnLease(w)
    BY <1>2 DEF OnLease
  <1> QED BY <1>1, <1>2, <1>3 DEF Referenced, Busy, OnLease

\* Leases are issued in order, and rows and attempts name issued ones.
LEMMA ReferencedStep == ASSUME Typed, [Next]_vars PROVE Referenced'
  <1>1. ASSUME NEW s \in Stops, Accept(s)
        PROVE  Referenced'
    BY <1>1 DEF Accept, Typed, TypeOK, Referenced, Busy, OnLease, StopRow
  <1>2. ASSUME NEW s \in Stops, BecomesDue(s)
        PROVE  Referenced'
    BY <1>2 DEF BecomesDue, Typed, TypeOK, Referenced, Busy, OnLease, StopRow
  <1>3. ASSUME NEW w \in Workers, Claim(w)
        PROVE  Referenced'
    BY <1>3 DEF Claim, Typed, TypeOK, Referenced, Busy, OnLease, RunRow, GivenUp, Leases
  <1>4. ASSUME NEW w \in Workers, Crash(w)
        PROVE  Referenced'
    BY <1>4 DEF Crash, Typed, TypeOK, Referenced, Busy, OnLease, NoTask, Fails, Task
  <1>5. ASSUME NEW w \in Workers, Choose(w)
        PROVE  Referenced'
    BY <1>5 DEF Choose, Typed, TypeOK, Referenced, Busy, OnLease, NoTask, Fails, Task
  <1>6. ASSUME NEW w \in Workers, ClaimAttempt(w)
        PROVE  Referenced'
    <2>1. UNCHANGED <<run, epoch>>
      BY <1>6 DEF ClaimAttempt
    <2>2. CASE task' = [task EXCEPT ![w] = NoTask] /\ UNCHANGED stop
      BY <2>1, <2>2 DEF Typed, TypeOK, Referenced, Busy, OnLease, NoTask
    <2>3. ASSUME NEW s \in Stops,
                 stop' = [stop EXCEPT ![s] = [state |-> "dispatched", due |-> FALSE,
                                              attempts |-> @.attempts + 1]],
                 task' = [task EXCEPT ![w] = [NoTask EXCEPT
                            !.phase = "claimed", !.stop = s, !.on = run.lease,
                            !.attempt = stop[s].attempts + 1]]
          PROVE  Referenced'
      <3>1. \A u \in Stops : stop[u].attempts \in Nat /\ stop'[u].attempts \in Nat
                              /\ stop'[u].attempts >= stop[u].attempts
        BY <2>3, CancellationAssumption DEF Typed, TypeOK, StopRow, AttemptBound
      <3>2. /\ task'[w].phase = "claimed" /\ task'[w].stop = s /\ ~task'[w].started
            /\ task'[w].attempt = stop'[s].attempts
            /\ \A v \in Workers \ {w} : task'[v] = task[v]
        BY <2>3 DEF NoTask, Typed, TypeOK
      <3>3. \A v \in Workers : task[v].attempt \in Nat
        BY CancellationAssumption DEF Typed, TypeOK, Task, AttemptBound
      <3> QED BY <2>1, <3>1, <3>2, <3>3 DEF Referenced, Busy, OnLease, Typed
    <2> QED BY <1>6, <2>2, <2>3 DEF ClaimAttempt
  <1>7. ASSUME NEW w \in Workers, Lookup(w)
        PROVE  Referenced'
    <2>1. UNCHANGED <<run, epoch, stop>> /\ task[w].phase = "claimed"
      BY <1>7 DEF Lookup
    <2>2. ASSUME NEW r \in BOOLEAN,
                 task' = [task EXCEPT ![w] = [task[w] EXCEPT !.phase = "failing", !.retry = r]]
          PROVE  Referenced'
      BY <2>1, <2>2 DEF Typed, TypeOK, Referenced, Busy, OnLease, Task
    <2>3. ASSUME run.lease # 0,
                 task' = [task EXCEPT ![w] = [task[w] EXCEPT !.phase = "found", !.ref = run.lease]]
          PROVE  Referenced'
      <3>1. run.lease \in 1..epoch
        BY <2>3, CancellationAssumption DEF Typed, TypeOK, Referenced, RunRow
      <3> QED BY SMTT(20), <2>1, <2>3, <3>1 DEF Typed, TypeOK, Referenced, Busy, OnLease, Task
    <2> QED BY <1>7, <2>2, <2>3 DEF Lookup, Fails
  <1>8. ASSUME NEW w \in Workers, Prepare(w)
        PROVE  Referenced'
    <2>1. /\ UNCHANGED <<run, epoch, stop>> /\ Busy(w) /\ OnLease(w)
          /\ \/ task' = [task EXCEPT ![w] = [task[w] EXCEPT !.phase = "starting"]]
             \/ task' = [task EXCEPT ![w] = Fails(w, FALSE)]
      BY <1>8 DEF Prepare, Busy, OnLease
    <2>2. ASSUME NEW t, t \in {[task[w] EXCEPT !.phase = "starting"], Fails(w, FALSE)}
          PROVE  /\ t.stop = task[w].stop /\ t.attempt = task[w].attempt
                 /\ t.ref = task[w].ref /\ t.started = task[w].started
      BY <2>2 DEF Typed, TypeOK, Task, Fails
    <2>3. CASE task' = [task EXCEPT ![w] = [task[w] EXCEPT !.phase = "starting"]]
      BY <2>1, <2>2, <2>3, ReferencedFrame
    <2>4. CASE task' = [task EXCEPT ![w] = Fails(w, FALSE)]
      BY <2>1, <2>2, <2>4, ReferencedFrame
    <2> QED BY <2>1, <2>3, <2>4
  <1>9. ASSUME NEW w \in Workers, MarkStarted(w)
        PROVE  Referenced'
    BY <1>9 DEF MarkStarted, Typed, TypeOK, Referenced, Busy, OnLease, NoTask, Fails, Task, StopRow, RunRow, GivenUp, Leases
  <1>10. ASSUME NEW w \in Workers, NotStarted(w)
        PROVE  Referenced'
    <2>1. UNCHANGED <<run, epoch, stop>> /\ task[w].phase = "starting"
          /\ \/ task' = [task EXCEPT ![w] = NoTask]
             \/ task' = [task EXCEPT ![w] = [task[w] EXCEPT !.phase = "failing", !.retry = FALSE]]
      BY <1>10 DEF NotStarted, Fails
    <2>2. CASE task' = [task EXCEPT ![w] = NoTask]
      BY <2>1, <2>2 DEF Typed, TypeOK, Referenced, Busy, OnLease, NoTask
    <2>3. CASE task' = [task EXCEPT ![w] = [task[w] EXCEPT !.phase = "failing", !.retry = FALSE]]
      BY <2>1, <2>3 DEF Typed, TypeOK, Referenced, Busy, OnLease, Task
    <2> QED BY <2>1, <2>2, <2>3
  <1>11. ASSUME NEW w \in Workers, Signal(w)
        PROVE  Referenced'
    BY <1>11 DEF Signal, Typed, TypeOK, Referenced, Busy, OnLease, NoTask, Fails, Task
  <1>12. ASSUME NEW w \in Workers, SignalTooLate(w)
        PROVE  Referenced'
    BY <1>12 DEF SignalTooLate, Typed, TypeOK, Referenced, Busy, OnLease, NoTask, Fails, Task
  <1>13. ASSUME NEW w \in Workers, Confirm(w)
        PROVE  Referenced'
    BY <1>13 DEF Confirm, Typed, TypeOK, Referenced, Busy, OnLease, NoTask, Fails, Task
  <1>14. ASSUME NEW w \in Workers, RecordUnstarted(w)
        PROVE  Referenced'
    BY <1>14 DEF RecordUnstarted, Typed, TypeOK, Referenced, Busy, OnLease, NoTask, Fails, Task, StopRow
  <1>15. ASSUME NEW w \in Workers, RecordStarted(w)
        PROVE  Referenced'
    <2>1. \A s \in Stops : stop'[s].attempts = stop[s].attempts
      BY <1>15 DEF RecordStarted, Typed, TypeOK, StopRow
    <2>2. run'.lease = run.lease /\ task' = [task EXCEPT ![w] = NoTask] /\ epoch' = epoch
      BY <1>15 DEF RecordStarted, GivenUp, Typed, TypeOK, RunRow
    <2> QED BY <2>1, <2>2 DEF Typed, TypeOK, Referenced, Busy, OnLease, NoTask
  <1>16. ASSUME NEW e \in Leases, Open(e)
        PROVE  Referenced'
    BY <1>16 DEF Open, Typed, TypeOK, Referenced, Busy, OnLease
  <1>17. ASSUME NEW e \in Leases, Effect(e)
        PROVE  Referenced'
    BY <1>17 DEF Effect, Typed, TypeOK, Referenced, Busy, OnLease
  <1>18. ASSUME NEW e \in Leases, NEW o \in Outcome \cup {"recover"}, End(e, o)
        PROVE  Referenced'
    BY <1>18 DEF End, Typed, TypeOK, Referenced, Busy, OnLease
  <1>19. ASSUME NEW e \in Leases, Revoke(e)
        PROVE  Referenced'
    BY <1>19 DEF Revoke, Typed, TypeOK, Referenced, Busy, OnLease
  <1>20. ASSUME NEW e \in Leases, Publish(e)
        PROVE  Referenced'
    BY <1>20 DEF Publish, Typed, TypeOK, Referenced, Busy, OnLease
  <1>21. ASSUME NEW e \in Leases, RequestRecovery(e)
        PROVE  Referenced'
    BY <1>21 DEF RequestRecovery, Typed, TypeOK, Referenced, Busy, OnLease, RunRow, GivenUp, Leases
  <1>22. ASSUME NEW e \in Leases, NEW to \in {"idle", "failed"}, RecordFailure(e, to)
        PROVE  Referenced'
    BY <1>22 DEF RecordFailure, Typed, TypeOK, Referenced, Busy, OnLease, RunRow, GivenUp, Leases
  <1>23. ASSUME NEW e \in Leases, Expire(e)
        PROVE  Referenced'
    BY <1>23 DEF Expire, Typed, TypeOK, Referenced, Busy, OnLease, RunRow, GivenUp, Leases
  <1>24. ASSUME NEW e \in Leases, Reconcile(e)
        PROVE  Referenced'
    BY <1>24 DEF Reconcile, Typed, TypeOK, Referenced, Busy, OnLease, RunRow, GivenUp, Leases
  <1>25. ASSUME NEW e \in Leases, ProjectFinish(e)
        PROVE  Referenced'
    BY <1>25 DEF ProjectFinish, Typed, TypeOK, Referenced, Busy, OnLease, StopRow, RunRow, GivenUp, Leases
  <1>26. CASE SealTerminates
    BY <1>26 DEF SealTerminates, Typed, TypeOK, Referenced, Busy, OnLease, RunRow, GivenUp, Leases
  <1>27. CASE SealRecovers
    <2>1. \A s \in Stops : stop'[s].attempts = stop[s].attempts
      BY <1>27 DEF SealRecovers, Typed, TypeOK, StopRow
    <2>2. run'.lease = 0 /\ task' = task /\ epoch' = epoch
      BY <1>27 DEF SealRecovers
    <2> QED BY <2>1, <2>2 DEF Typed, TypeOK, Referenced, Busy, OnLease
  <1>29. ASSUME NEW w \in Workers, MarkStartedUnheard(w)
        PROVE  Referenced'
    <2>1. \A s \in Stops : stop'[s].attempts = stop[s].attempts
      BY <1>29 DEF MarkStartedUnheard, Typed, TypeOK, StopRow
    <2>2. run'.lease = run.lease /\ task' = [task EXCEPT ![w] = NoTask] /\ epoch' = epoch
      BY <1>29 DEF MarkStartedUnheard, Typed, TypeOK, RunRow
    <2> QED BY <2>1, <2>2 DEF Typed, TypeOK, Referenced, Busy, OnLease, NoTask
  <1>30. ASSUME NEW w \in Workers, AttemptLost(w)
        PROVE  Referenced'
    BY <1>30 DEF AttemptLost, Typed, TypeOK, Referenced, Busy, OnLease, NoTask
  <1>28. CASE UNCHANGED vars
    BY <1>28 DEF Typed, TypeOK, Referenced, Busy, OnLease, vars
  <1> QED
    BY <1>1, <1>2, <1>3, <1>4, <1>5, <1>6, <1>7, <1>8, <1>9, <1>10, <1>11, <1>12, <1>13, <1>14, <1>15, <1>16, <1>17, <1>18, <1>19, <1>20, <1>21, <1>22, <1>23, <1>24, <1>25, <1>26, <1>27, <1>28, <1>29, <1>30
    DEF Next, Attempt, Runner, Projection

\* Request, Run and scope change together, in one transaction.
LEMMA AgreeStep == ASSUME Typed, TablesAgree, [Next]_vars PROVE TablesAgree'
  <1>1. ASSUME NEW s \in Stops, Accept(s)
        PROVE  TablesAgree'
    BY <1>1 DEF Accept, TablesAgree, Outstanding, Active, Typed, TypeOK, RunRow, StopRow, GivenUp, Outcome
  <1>2. ASSUME NEW s \in Stops, BecomesDue(s)
        PROVE  TablesAgree'
    BY <1>2 DEF BecomesDue, TablesAgree, Outstanding, Active, Typed, TypeOK, RunRow, StopRow, GivenUp, Outcome
  <1>3. ASSUME NEW w \in Workers, Claim(w)
        PROVE  TablesAgree'
    BY <1>3 DEF Claim, TablesAgree, Outstanding, Active, Typed, TypeOK, RunRow, StopRow, GivenUp, Outcome
  <1>4. ASSUME NEW w \in Workers, Crash(w)
        PROVE  TablesAgree'
    BY <1>4 DEF Crash, TablesAgree, Outstanding, Active
  <1>5. ASSUME NEW w \in Workers, Choose(w)
        PROVE  TablesAgree'
    BY <1>5 DEF Choose, TablesAgree, Outstanding, Active
  <1>6. ASSUME NEW w \in Workers, ClaimAttempt(w)
        PROVE  TablesAgree'
    <2>1. UNCHANGED <<run, session>>
      BY <1>6 DEF ClaimAttempt
    <2>2. CASE UNCHANGED stop
      BY <2>1, <2>2 DEF TablesAgree, Outstanding
    <2>3. ASSUME NEW s \in Stops, stop[s].state \in {"pending", "dispatched"},
                 stop' = [stop EXCEPT ![s] = [state |-> "dispatched", due |-> FALSE,
                                              attempts |-> @.attempts + 1]]
          PROVE  TablesAgree'
      <3>1. \A u \in Stops : stop'[u].state = IF u = s THEN "dispatched" ELSE stop[u].state
        BY <2>3 DEF Typed, TypeOK
      <3> QED BY <2>1, <2>3, <3>1 DEF TablesAgree, Outstanding, Active
    <2> QED BY <1>6, <2>2, <2>3 DEF ClaimAttempt, Dispatchable
  <1>7. ASSUME NEW w \in Workers, Lookup(w)
        PROVE  TablesAgree'
    BY <1>7 DEF Lookup, TablesAgree, Outstanding, Active
  <1>8. ASSUME NEW w \in Workers, Prepare(w)
        PROVE  TablesAgree'
    BY <1>8 DEF Prepare, TablesAgree, Outstanding, Active
  <1>9. ASSUME NEW w \in Workers, MarkStarted(w)
        PROVE  TablesAgree'
    <2>1. run.state = "running" /\ session = "running" /\ stop[task[w].stop].state = "dispatched"
          /\ run'.state = "cancel_requested" /\ session' = "cancelling"
      BY <1>9 DEF MarkStarted, Typed, TypeOK, RunRow
    <2>2. task[w].stop \in Stops
      BY <1>9, Remembered DEF MarkStarted, Busy
    <2>3. \A u \in Stops : stop'[u].state = IF u = task[w].stop THEN "acknowledged" ELSE stop[u].state
      BY <1>9, <2>2 DEF MarkStarted, Typed, TypeOK, StopRow
    <2> QED BY <2>1, <2>2, <2>3 DEF TablesAgree, Outstanding, Active
  <1>10. ASSUME NEW w \in Workers, NotStarted(w)
        PROVE  TablesAgree'
    BY <1>10 DEF NotStarted, TablesAgree, Outstanding, Active
  <1>11. ASSUME NEW w \in Workers, Signal(w)
        PROVE  TablesAgree'
    BY <1>11 DEF Signal, TablesAgree, Outstanding, Active
  <1>12. ASSUME NEW w \in Workers, SignalTooLate(w)
        PROVE  TablesAgree'
    BY <1>12 DEF SignalTooLate, TablesAgree, Outstanding, Active
  <1>13. ASSUME NEW w \in Workers, Confirm(w)
        PROVE  TablesAgree'
    BY <1>13 DEF Confirm, TablesAgree, Outstanding, Active
  <1>14. ASSUME NEW w \in Workers, RecordUnstarted(w)
        PROVE  TablesAgree'
    BY <1>14 DEF RecordUnstarted, TablesAgree, Outstanding, Active, Typed, TypeOK, RunRow, StopRow, GivenUp, Outcome
  <1>15. ASSUME NEW w \in Workers, RecordStarted(w)
        PROVE  TablesAgree'
    <2>1. CASE UNCHANGED <<run, session, stop>>
      BY <2>1 DEF TablesAgree, Outstanding
    <2>2. CASE /\ stop[task[w].stop].state = "acknowledged"
               /\ run.state = "cancel_requested" /\ session = "cancelling"
               /\ run' = [GivenUp(run, "terminal") EXCEPT !.state = "failed"]
               /\ session' = "failed"
               /\ stop' = [stop EXCEPT ![task[w].stop].state = "failed"]
      <3>1. task[w].stop \in Stops
        BY <1>15, Remembered DEF RecordStarted, Busy
      <3>2. \A u \in Stops : stop'[u].state = IF u = task[w].stop THEN "failed" ELSE stop[u].state
        BY <2>2, <3>1 DEF Typed, TypeOK, StopRow
      <3>3. run'.state = "failed"
        BY <2>2 DEF GivenUp, Typed, TypeOK, RunRow
      <3> QED BY <2>2, <3>1, <3>2, <3>3 DEF TablesAgree, Outstanding, Active
    <2> QED BY <1>15, <2>1, <2>2 DEF RecordStarted
  <1>16. ASSUME NEW e \in Leases, Open(e)
        PROVE  TablesAgree'
    BY <1>16 DEF Open, TablesAgree, Outstanding, Active
  <1>17. ASSUME NEW e \in Leases, Effect(e)
        PROVE  TablesAgree'
    BY <1>17 DEF Effect, TablesAgree, Outstanding, Active
  <1>18. ASSUME NEW e \in Leases, NEW o \in Outcome \cup {"recover"}, End(e, o)
        PROVE  TablesAgree'
    BY <1>18 DEF End, TablesAgree, Outstanding, Active
  <1>19. ASSUME NEW e \in Leases, Revoke(e)
        PROVE  TablesAgree'
    BY <1>19 DEF Revoke, TablesAgree, Outstanding, Active
  <1>20. ASSUME NEW e \in Leases, Publish(e)
        PROVE  TablesAgree'
    BY <1>20 DEF Publish, TablesAgree, Outstanding, Active
  <1>21. ASSUME NEW e \in Leases, RequestRecovery(e)
        PROVE  TablesAgree'
    BY <1>21 DEF RequestRecovery, TablesAgree, Outstanding, Active, Typed, TypeOK, RunRow, StopRow, GivenUp, Outcome
  <1>22. ASSUME NEW e \in Leases, NEW to \in {"idle", "failed"}, RecordFailure(e, to)
        PROVE  TablesAgree'
    BY ZenonT(30), <1>22 DEF RecordFailure, TablesAgree, Outstanding, Active, Typed, TypeOK, RunRow, StopRow, GivenUp, Outcome
  <1>23. ASSUME NEW e \in Leases, Expire(e)
        PROVE  TablesAgree'
    BY <1>23 DEF Expire, TablesAgree, Outstanding, Active, Typed, TypeOK, RunRow, StopRow, GivenUp, Outcome
  <1>24. ASSUME NEW e \in Leases, Reconcile(e)
        PROVE  TablesAgree'
    BY <1>24 DEF Reconcile, TablesAgree, Outstanding, Active, Typed, TypeOK, RunRow, StopRow, GivenUp, Outcome
  <1>25. ASSUME NEW e \in Leases, ProjectFinish(e)
        PROVE  TablesAgree'
    BY <1>25 DEF ProjectFinish, TablesAgree, Outstanding, Active, Typed, TypeOK, RunRow, StopRow, GivenUp, Outcome, Unprojected, Execution, Leases
  <1>26. CASE SealTerminates
    BY <1>26 DEF SealTerminates, TablesAgree, Outstanding, Active, Typed, TypeOK, RunRow, StopRow, GivenUp, Outcome
  <1>27. CASE SealRecovers
    <2>1. run'.state = "queued" /\ session' = "idle"
      BY <1>27 DEF SealRecovers
    <2>2. \A s \in Stops : stop'[s].state = IF stop[s].state \in {"dispatched", "acknowledged"}
                                            THEN "pending" ELSE stop[s].state
      BY <1>27 DEF SealRecovers, Typed, TypeOK, StopRow
    <2> QED BY <2>1, <2>2 DEF TablesAgree, Outstanding, Active
  <1>29. ASSUME NEW w \in Workers, MarkStartedUnheard(w)
        PROVE  TablesAgree'
    <2>1. run.state = "running" /\ session = "running" /\ stop[task[w].stop].state = "dispatched"
          /\ run'.state = "cancel_requested" /\ session' = "cancelling"
      BY <1>29 DEF MarkStartedUnheard, Typed, TypeOK, RunRow
    <2>2. task[w].stop \in Stops
      BY <1>29, Remembered DEF MarkStartedUnheard, Busy
    <2>3. \A u \in Stops : stop'[u].state = IF u = task[w].stop THEN "acknowledged" ELSE stop[u].state
      BY <1>29, <2>2 DEF MarkStartedUnheard, Typed, TypeOK, StopRow
    <2> QED BY <2>1, <2>2, <2>3 DEF TablesAgree, Outstanding, Active
  <1>30. ASSUME NEW w \in Workers, AttemptLost(w)
        PROVE  TablesAgree'
    BY <1>30 DEF AttemptLost, TablesAgree, Outstanding, Active
  <1>28. CASE UNCHANGED vars
    BY <1>28 DEF TablesAgree, Outstanding, Active, vars
  <1> QED
    BY <1>1, <1>2, <1>3, <1>4, <1>5, <1>6, <1>7, <1>8, <1>9, <1>10, <1>11, <1>12, <1>13, <1>14, <1>15, <1>16, <1>17, <1>18, <1>19, <1>20, <1>21, <1>22, <1>23, <1>24, <1>25, <1>26, <1>27, <1>28, <1>29, <1>30
    DEF Next, Attempt, Runner, Projection

\* Whatever a task notes, it stays the attempt it is.
LEMMA TaskKeeps ==
    ASSUME NEW x \in Task
    PROVE  /\ \A r \in BOOLEAN : LET y == [x EXCEPT !.phase = "failing", !.retry = r]
                                IN  y.stop = x.stop /\ y.attempt = x.attempt /\ y.on = x.on
           /\ \A e \in Nat : LET y == [x EXCEPT !.phase = "found", !.ref = e]
                            IN  y.stop = x.stop /\ y.attempt = x.attempt /\ y.on = x.on
           /\ LET y == [x EXCEPT !.phase = "starting"]
              IN  y.stop = x.stop /\ y.attempt = x.attempt /\ y.on = x.on
  BY DEF Task

\* An attempt counts against the request as it was when the attempt was claimed.
LEMMA InTurnStep == ASSUME Typed, InTurn, [Next]_vars PROVE InTurn'
  <1>1. ASSUME NEW s \in Stops, Accept(s)
        PROVE  InTurn'
    BY <1>1 DEF Accept, InTurn, Busy, OwnAttempt, Typed, TypeOK, StopRow
  <1>2. ASSUME NEW s \in Stops, BecomesDue(s)
        PROVE  InTurn'
    BY <1>2 DEF BecomesDue, InTurn, Busy, OwnAttempt, Typed, TypeOK, StopRow
  <1>3. ASSUME NEW w \in Workers, Claim(w)
        PROVE  InTurn'
    <2>1. \A s \in Stops : stop'[s].state \notin {"dispatched", "acknowledged"}
      BY <1>3 DEF Claim, InTurn
    <2>2. \A v \in Workers : task'[v] = task[v]
      BY <1>3 DEF Claim
    <2> QED BY <2>1, <2>2, Remembered DEF InTurn, Busy
  <1>4. ASSUME NEW w \in Workers, Crash(w)
        PROVE  InTurn'
    BY <1>4 DEF Crash, InTurn, Busy, OwnAttempt, Typed, TypeOK, NoTask, Fails, Task
  <1>5. ASSUME NEW w \in Workers, Choose(w)
        PROVE  InTurn'
    BY <1>5 DEF Choose, InTurn, Busy, OwnAttempt, Typed, TypeOK, NoTask, Fails, Task
  <1>6. ASSUME NEW w \in Workers, ClaimAttempt(w)
        PROVE  InTurn'
    <2>1. UNCHANGED run
      BY <1>6 DEF ClaimAttempt
    <2>2. CASE task' = [task EXCEPT ![w] = NoTask] /\ UNCHANGED stop
      BY <2>1, <2>2 DEF Typed, TypeOK, InTurn, Busy, OwnAttempt, NoTask
    <2>3. ASSUME NEW s \in Stops, Dispatchable(s),
                 stop' = [stop EXCEPT ![s] = [state |-> "dispatched", due |-> FALSE,
                                              attempts |-> @.attempts + 1]],
                 task' = [task EXCEPT ![w] = [NoTask EXCEPT
                            !.phase = "claimed", !.stop = s, !.on = run.lease,
                            !.attempt = stop[s].attempts + 1]]
          PROVE  InTurn'
      <3>1. /\ stop'[s].attempts = stop[s].attempts + 1 /\ stop[s].attempts \in Nat
            /\ \A u \in Stops \ {s} : stop'[u] = stop[u]
        BY <2>3, CancellationAssumption DEF Typed, TypeOK, StopRow, AttemptBound
      <3>2. task'[w].on = run.lease /\ \A v \in Workers \ {w} : task'[v] = task[v]
        BY <2>3 DEF NoTask, Typed, TypeOK
      <3>3. run.state # "queued"
        BY <2>3 DEF Dispatchable
      <3>4. ASSUME NEW v \in Workers, Busy(v)', OwnAttempt(v)',
                   stop'[task'[v].stop].state \in {"dispatched", "acknowledged"}
            PROVE  run.lease = task'[v].on
        <4>1. CASE v = w
          BY <3>2, <4>1
        <4>2. CASE v # w
          <5>1. task'[v] = task[v] /\ Busy(v) /\ task[v].stop \in Stops
                /\ task[v].attempt <= stop[task[v].stop].attempts /\ task[v].attempt \in Nat
            BY <3>2, <3>4, <4>2, CancellationAssumption
               DEF Busy, Typed, TypeOK, Task, Referenced, AttemptBound
          <5>2. task[v].stop # s
            BY <3>1, <3>4, <5>1 DEF OwnAttempt
          <5> QED BY <3>1, <3>4, <5>1, <5>2 DEF InTurn, OwnAttempt
        <4> QED BY <4>1, <4>2
      <3> QED BY <2>1, <3>3, <3>4 DEF InTurn
    <2> QED BY <1>6, <2>2, <2>3 DEF ClaimAttempt
  <1>7. ASSUME NEW w \in Workers, Lookup(w)
        PROVE  InTurn'
    <2>1. UNCHANGED <<run, stop>> /\ Busy(w) /\ task[w] \in Task
      BY <1>7, Remembered DEF Lookup, Busy
    <2>2. \/ task' = [task EXCEPT ![w] = [task[w] EXCEPT !.phase = "found", !.ref = run.lease]]
          \/ task' = [task EXCEPT ![w] = [task[w] EXCEPT !.phase = "failing", !.retry = FALSE]]
          \/ task' = [task EXCEPT ![w] = [task[w] EXCEPT !.phase = "failing", !.retry = TRUE]]
      BY <1>7 DEF Lookup, Fails
    <2>3. /\ task'[w].stop = task[w].stop /\ task'[w].attempt = task[w].attempt /\ task'[w].on = task[w].on
          /\ \A v \in Workers \ {w} : task'[v] = task[v]
      <3>1. task \in [Workers -> Task]
        BY DEF Typed, TypeOK
      <3>2. /\ task'[w] \in {[task[w] EXCEPT !.phase = "found", !.ref = run.lease],
                            [task[w] EXCEPT !.phase = "failing", !.retry = FALSE],
                            [task[w] EXCEPT !.phase = "failing", !.retry = TRUE]}
            /\ \A v \in Workers \ {w} : task'[v] = task[v]
        BY <2>2, <3>1
      <3>3. run.lease \in Nat
        BY CancellationAssumption DEF Typed, TypeOK, RunRow
      <3>4. CASE task'[w] = [task[w] EXCEPT !.phase = "found", !.ref = run.lease]
        <4> DEFINE y == [task[w] EXCEPT !.phase = "found", !.ref = run.lease]
        <4>1. y.stop = task[w].stop /\ y.attempt = task[w].attempt /\ y.on = task[w].on
          BY <2>1, <3>3, TaskKeeps
        <4> QED BY <3>2, <3>4, <4>1
      <3>5. ASSUME NEW r \in BOOLEAN,
                   task'[w] = [task[w] EXCEPT !.phase = "failing", !.retry = r]
            PROVE  /\ task'[w].stop = task[w].stop /\ task'[w].attempt = task[w].attempt
                   /\ task'[w].on = task[w].on
        <4> DEFINE y == [task[w] EXCEPT !.phase = "failing", !.retry = r]
        <4>1. y.stop = task[w].stop /\ y.attempt = task[w].attempt /\ y.on = task[w].on
          BY <2>1, TaskKeeps
        <4> QED BY <3>5, <4>1
      <3> QED BY <3>2, <3>4, <3>5
    <2> QED BY <2>1, <2>3 DEF InTurn, Busy, OwnAttempt
  <1>8. ASSUME NEW w \in Workers, Prepare(w)
        PROVE  InTurn'
    <2>1. UNCHANGED <<run, stop>> /\ Busy(w) /\ task[w] \in Task
      BY <1>8, Remembered DEF Prepare, Busy
    <2>2. \/ task' = [task EXCEPT ![w] = [task[w] EXCEPT !.phase = "starting"]]
          \/ task' = [task EXCEPT ![w] = [task[w] EXCEPT !.phase = "failing", !.retry = FALSE]]
      BY <1>8 DEF Prepare, Fails
    <2>3. /\ task'[w].stop = task[w].stop /\ task'[w].attempt = task[w].attempt /\ task'[w].on = task[w].on
          /\ \A v \in Workers \ {w} : task'[v] = task[v]
      <3>1. task \in [Workers -> Task]
        BY DEF Typed, TypeOK
      <3>2. /\ task'[w] \in {[task[w] EXCEPT !.phase = "starting"],
                            [task[w] EXCEPT !.phase = "failing", !.retry = FALSE]}
            /\ \A v \in Workers \ {w} : task'[v] = task[v]
        BY <2>2, <3>1
      <3> QED BY <2>1, <3>2, TaskKeeps
    <2> QED BY <2>1, <2>3 DEF InTurn, Busy, OwnAttempt
  <1>9. ASSUME NEW w \in Workers, MarkStarted(w)
        PROVE  InTurn'
    <2>1. task[w].stop \in Stops
      BY <1>9, Remembered DEF MarkStarted, Busy
    <2>2. \A u \in Stops : /\ stop'[u].state = IF u = task[w].stop THEN "acknowledged" ELSE stop[u].state
                           /\ stop'[u].attempts = stop[u].attempts
      BY <1>9, <2>1 DEF MarkStarted, Typed, TypeOK, StopRow
    <2>3. \A v \in Workers : /\ task'[v].stop = task[v].stop /\ task'[v].attempt = task[v].attempt
                             /\ task'[v].on = task[v].on /\ (Busy(v)' => Busy(v))
      BY <1>9 DEF MarkStarted, Typed, TypeOK, Task, Busy
    <2>4. run'.state = "cancel_requested" /\ run'.lease = run.lease /\ stop[task[w].stop].state = "dispatched"
      BY <1>9 DEF MarkStarted, Typed, TypeOK, RunRow
    <2> QED BY <2>2, <2>3, <2>4, Remembered DEF InTurn, OwnAttempt
  <1>10. ASSUME NEW w \in Workers, NotStarted(w)
        PROVE  InTurn'
    <2>1. UNCHANGED <<run, stop>> /\ task[w].phase = "starting"
          /\ \/ task' = [task EXCEPT ![w] = NoTask]
             \/ task' = [task EXCEPT ![w] = [task[w] EXCEPT !.phase = "failing", !.retry = FALSE]]
      BY <1>10 DEF NotStarted, Fails
    <2>2. CASE task' = [task EXCEPT ![w] = NoTask]
      BY <2>1, <2>2 DEF Typed, TypeOK, InTurn, Busy, OwnAttempt, NoTask
    <2>3. CASE task' = [task EXCEPT ![w] = [task[w] EXCEPT !.phase = "failing", !.retry = FALSE]]
      BY <2>1, <2>3 DEF Typed, TypeOK, InTurn, Busy, OwnAttempt, Task
    <2> QED BY <2>1, <2>2, <2>3
  <1>11. ASSUME NEW w \in Workers, Signal(w)
        PROVE  InTurn'
    BY <1>11 DEF Signal, InTurn, Busy, OwnAttempt, Typed, TypeOK, NoTask, Fails, Task
  <1>12. ASSUME NEW w \in Workers, SignalTooLate(w)
        PROVE  InTurn'
    BY <1>12 DEF SignalTooLate, InTurn, Busy, OwnAttempt, Typed, TypeOK, NoTask, Fails, Task
  <1>13. ASSUME NEW w \in Workers, Confirm(w)
        PROVE  InTurn'
    BY <1>13 DEF Confirm, InTurn, Busy, OwnAttempt, Typed, TypeOK, NoTask, Fails, Task
  <1>14. ASSUME NEW w \in Workers, RecordUnstarted(w)
        PROVE  InTurn'
    BY <1>14 DEF RecordUnstarted, InTurn, Busy, OwnAttempt, Typed, TypeOK, StopRow, NoTask, Fails, Task
  <1>15. ASSUME NEW w \in Workers, RecordStarted(w)
        PROVE  InTurn'
    <2>1. \A u \in Stops : /\ stop'[u].attempts = stop[u].attempts
                           /\ stop'[u].state \in {stop[u].state, "failed"}
      BY <1>15 DEF RecordStarted, Typed, TypeOK, StopRow
    <2>2. run'.lease = run.lease /\ (run'.state = run.state \/ run'.state = "failed")
      BY <1>15 DEF RecordStarted, GivenUp, Typed, TypeOK, RunRow
    <2>3. task' = [task EXCEPT ![w] = NoTask]
      BY <1>15 DEF RecordStarted
    <2>4. \A v \in Workers : Busy(v)' => task'[v] = task[v] /\ Busy(v)
      BY <2>3 DEF Typed, TypeOK, Busy, NoTask
    <2> QED BY <2>1, <2>2, <2>4, Remembered DEF InTurn, OwnAttempt
  <1>16. ASSUME NEW e \in Leases, Open(e)
        PROVE  InTurn'
    BY <1>16 DEF Open, InTurn, Busy, OwnAttempt
  <1>17. ASSUME NEW e \in Leases, Effect(e)
        PROVE  InTurn'
    BY <1>17 DEF Effect, InTurn, Busy, OwnAttempt
  <1>18. ASSUME NEW e \in Leases, NEW o \in Outcome \cup {"recover"}, End(e, o)
        PROVE  InTurn'
    BY <1>18 DEF End, InTurn, Busy, OwnAttempt
  <1>19. ASSUME NEW e \in Leases, Revoke(e)
        PROVE  InTurn'
    BY <1>19 DEF Revoke, InTurn, Busy, OwnAttempt
  <1>20. ASSUME NEW e \in Leases, Publish(e)
        PROVE  InTurn'
    BY <1>20 DEF Publish, InTurn, Busy, OwnAttempt
  <1>21. ASSUME NEW e \in Leases, RequestRecovery(e)
        PROVE  InTurn'
    BY <1>21 DEF RequestRecovery, InTurn, Busy, OwnAttempt, Typed, TypeOK, RunRow, GivenUp, Outcome
  <1>22. ASSUME NEW e \in Leases, NEW to \in {"idle", "failed"}, RecordFailure(e, to)
        PROVE  InTurn'
    BY ZenonT(30), <1>22 DEF RecordFailure, InTurn, Busy, OwnAttempt, Typed, TypeOK, RunRow, GivenUp, Outcome
  <1>23. ASSUME NEW e \in Leases, Expire(e)
        PROVE  InTurn'
    BY <1>23 DEF Expire, InTurn, Busy, OwnAttempt, Typed, TypeOK, RunRow, GivenUp, Outcome
  <1>24. ASSUME NEW e \in Leases, Reconcile(e)
        PROVE  InTurn'
    BY <1>24 DEF Reconcile, InTurn, Busy, OwnAttempt, Typed, TypeOK, RunRow, GivenUp, Outcome
  <1>25. ASSUME NEW e \in Leases, ProjectFinish(e)
        PROVE  InTurn'
    <2>1. \A s \in Stops : stop'[s].state \notin {"dispatched", "acknowledged"}
      BY <1>25 DEF ProjectFinish, Typed, TypeOK, StopRow, Active
    <2>2. \A v \in Workers : task'[v] = task[v]
      BY <1>25 DEF ProjectFinish
    <2> QED BY <2>1, <2>2, Remembered DEF InTurn, Busy
  <1>26. CASE SealTerminates
    BY <1>26 DEF SealTerminates, InTurn, Busy, OwnAttempt, Typed, TypeOK, RunRow, GivenUp, Outcome
  <1>27. CASE SealRecovers
    <2>1. \A s \in Stops : stop'[s].state \notin {"dispatched", "acknowledged"}
      BY <1>27 DEF SealRecovers, Typed, TypeOK, StopRow
    <2>2. \A v \in Workers : task'[v] = task[v]
      BY <1>27 DEF SealRecovers
    <2> QED BY <2>1, <2>2, Remembered DEF InTurn, Busy
  <1>29. ASSUME NEW w \in Workers, MarkStartedUnheard(w)
        PROVE  InTurn'
    <2>1. \A u \in Stops : /\ stop'[u].attempts = stop[u].attempts
                           /\ stop'[u].state \in {stop[u].state, "acknowledged"}
      BY <1>29 DEF MarkStartedUnheard, Typed, TypeOK, StopRow
    <2>2. /\ run'.state = "cancel_requested" /\ run'.lease = run.lease
          /\ task[w].stop \in Stops /\ stop[task[w].stop].state = "dispatched"
          /\ \A u \in Stops \ {task[w].stop} : stop'[u] = stop[u]
      BY <1>29, Remembered DEF MarkStartedUnheard, Typed, TypeOK, RunRow, Busy
    <2>3. task' = [task EXCEPT ![w] = NoTask]
      BY <1>29 DEF MarkStartedUnheard
    <2>4. \A v \in Workers : Busy(v)' => task'[v] = task[v] /\ Busy(v)
      BY <2>3 DEF Typed, TypeOK, Busy, NoTask
    <2> QED BY <2>1, <2>2, <2>4, Remembered DEF InTurn, OwnAttempt
  <1>30. ASSUME NEW w \in Workers, AttemptLost(w)
        PROVE  InTurn'
    BY <1>30 DEF AttemptLost, Typed, TypeOK, InTurn, Busy, OwnAttempt, NoTask
  <1>28. CASE UNCHANGED vars
    BY <1>28 DEF InTurn, Busy, OwnAttempt, vars
  <1> QED
    BY <1>1, <1>2, <1>3, <1>4, <1>5, <1>6, <1>7, <1>8, <1>9, <1>10, <1>11, <1>12, <1>13, <1>14, <1>15, <1>16, <1>17, <1>18, <1>19, <1>20, <1>21, <1>22, <1>23, <1>24, <1>25, <1>26, <1>27, <1>28, <1>29, <1>30
    DEF Next, Attempt, Runner, Projection

\* A step of w that leaves an execution as it is, but for its gate and answer.
Kept(e) ==
    /\ exec'[e].phase = exec[e].phase /\ exec'[e].abort = exec[e].abort
    /\ exec'[e].effects = exec[e].effects /\ exec'[e].held = exec[e].held
    /\ exec'[e].acked = exec[e].acked /\ (exec[e].gate => exec'[e].gate)

\* A step that signals no execution and starts no attempt honours Stops.
LEMMA HonouredFrame ==
    ASSUME Typed, Honoured, \A e \in Leases : Kept(e), NEW w \in Workers,
           \A v \in Workers \ {w} : task'[v] = task[v],
           task'[w].phase # "started",
           task'[w].phase = "starting"
             => task'[w].ref \in Leases /\ exec'[task'[w].ref].gate
    PROVE  Honoured'
  <1>1. StopIsHonoured'
    BY DEF Honoured, StopIsHonoured, AbortIsAcknowledged, StoppedBeforeOpenIsIdle, Kept
  <1>2. /\ \A e \in Leases : exec'[e].held => exec'[e].gate
        /\ \A e \in Leases : exec'[e].phase \in {"none", "opening"} => ~exec'[e].effects
    BY DEF Honoured, Kept
  <1>3. ASSUME NEW v \in Workers
        PROVE  /\ task'[v].phase = "started" => exec'[task'[v].ref].acked
               /\ task'[v].phase = "starting" /\ exec'[task'[v].ref].phase = "opening"
                    => exec'[task'[v].ref].gate
    <2>1. CASE v = w
      BY <2>1
    <2>2. CASE v # w
      <3>1. task'[v] = task[v] /\ (OnLease(v) => task[v].ref \in Leases)
        BY <2>2, Remembered
      <3> QED BY <3>1 DEF Honoured, Kept, OnLease
    <2> QED BY <2>1, <2>2
  <1> QED BY <1>1, <1>2, <1>3, Zenon DEF Honoured

\* Only MarkStarted signals a live Run, and it signals what was acknowledged.
LEMMA HonouredStep == ASSUME Typed, Honoured, [Next]_vars PROVE Honoured'
  <1>1. ASSUME NEW s \in Stops, Accept(s)
        PROVE  Honoured'
    BY <1>1 DEF Accept, Honoured, StopIsHonoured, AbortIsAcknowledged, StoppedBeforeOpenIsIdle
  <1>2. ASSUME NEW s \in Stops, BecomesDue(s)
        PROVE  Honoured'
    BY <1>2 DEF BecomesDue, Honoured, StopIsHonoured, AbortIsAcknowledged, StoppedBeforeOpenIsIdle
  <1>3. ASSUME NEW w \in Workers, Claim(w)
        PROVE  Honoured'
    BY <1>3 DEF Claim, Honoured, StopIsHonoured, AbortIsAcknowledged, StoppedBeforeOpenIsIdle, Typed, TypeOK, Task, NoTask, Fails, Execution, NoExecution, Starting, Referenced, OnLease, Leases
  <1>4. ASSUME NEW w \in Workers, Crash(w)
        PROVE  Honoured'
    BY <1>4 DEF Crash, Honoured, StopIsHonoured, AbortIsAcknowledged, StoppedBeforeOpenIsIdle, Typed, TypeOK, Task, NoTask, Fails, Execution, NoExecution, Starting, Referenced, OnLease, Leases
  <1>5. ASSUME NEW w \in Workers, Choose(w)
        PROVE  Honoured'
    BY <1>5 DEF Choose, Honoured, StopIsHonoured, AbortIsAcknowledged, StoppedBeforeOpenIsIdle, Typed, TypeOK, Task, NoTask, Fails
  <1>6. ASSUME NEW w \in Workers, ClaimAttempt(w)
        PROVE  Honoured'
    <2>1. UNCHANGED exec
      BY <1>6 DEF ClaimAttempt
    <2>2. CASE task' = [task EXCEPT ![w] = NoTask]
      <3>1. task'[w].phase = "idle" /\ \A v \in Workers \ {w} : task'[v] = task[v]
        BY <2>2 DEF NoTask, Typed, TypeOK
      <3> QED BY <2>1, <3>1, HonouredFrame DEF Kept
    <2>3. ASSUME NEW s \in Stops,
                 task' = [task EXCEPT ![w] = [NoTask EXCEPT
                            !.phase = "claimed", !.stop = s, !.on = run.lease,
                            !.attempt = stop[s].attempts + 1]]
          PROVE  Honoured'
      <3>1. task'[w].phase = "claimed" /\ \A v \in Workers \ {w} : task'[v] = task[v]
        BY <2>3 DEF NoTask, Typed, TypeOK
      <3> QED BY <2>1, <3>1, HonouredFrame DEF Kept
    <2> QED BY <1>6, <2>2, <2>3 DEF ClaimAttempt
  <1>7. ASSUME NEW w \in Workers, Lookup(w)
        PROVE  Honoured'
    <2>1. UNCHANGED exec /\ task'[w].phase \notin {"starting", "started"}
          /\ \A v \in Workers \ {w} : task'[v] = task[v]
      BY ZenonT(120), <1>7 DEF Lookup, Fails, Typed, TypeOK, Task, NoTask
    <2> QED BY <2>1 DEF Honoured, StopIsHonoured, AbortIsAcknowledged, StoppedBeforeOpenIsIdle
  <1>8. ASSUME NEW w \in Workers, Prepare(w)
        PROVE  Honoured'
    <2> DEFINE e == task[w].ref
    <2>1. e \in Leases /\ exec[e] \in Execution /\ exec \in [Leases -> Execution]
          /\ task[w] \in Task /\ task \in [Workers -> Task]
      BY <1>8, Remembered DEF Prepare, OnLease, Typed, TypeOK
    <2>2. CASE /\ exec[e].phase = "opening"
               /\ exec' = [exec EXCEPT ![e] = [exec[e] EXCEPT !.gate = TRUE, !.starting = "pending"]]
               /\ task' = [task EXCEPT ![w].phase = "starting"]
      <3>1. /\ task'[w].phase = "starting" /\ task'[w].ref = e
            /\ \A v \in Workers \ {w} : task'[v] = task[v]
        BY <2>1, <2>2 DEF Task
      <3>2. /\ exec'[e] = [exec[e] EXCEPT !.gate = TRUE, !.starting = "pending"]
            /\ \A d \in Leases \ {e} : exec'[d] = exec[d]
        BY <2>1, <2>2
      <3>3. /\ exec'[e].phase = exec[e].phase /\ exec'[e].abort = exec[e].abort
            /\ exec'[e].acked = exec[e].acked /\ exec'[e].held = exec[e].held
            /\ exec'[e].effects = exec[e].effects /\ exec'[e].gate = TRUE
        BY <2>1, <3>2 DEF Execution
      <3>4. \A d \in Leases : Kept(d)
        BY <3>2, <3>3 DEF Kept
      <3> HIDE DEF e
      <3> QED BY <2>1, <3>1, <3>3, <3>4, HonouredFrame
    <2>3. CASE UNCHANGED exec /\ exec[e].phase # "opening"
               /\ \/ task' = [task EXCEPT ![w].phase = "starting"]
                  \/ task' = [task EXCEPT ![w] = Fails(w, FALSE)]
      <3>1. task'[w].phase \in {"starting", "failing"} /\ task'[w].ref = e
            /\ \A v \in Workers \ {w} : task'[v] = task[v]
        <4>1. CASE task' = [task EXCEPT ![w].phase = "starting"]
          BY <2>1, <4>1 DEF Task
        <4>2. CASE task' = [task EXCEPT ![w] = Fails(w, FALSE)]
          BY <2>1, <4>2 DEF Task, Fails
        <4> QED BY <2>3, <4>1, <4>2
      <3> HIDE DEF e
      <3> QED BY <2>3, <3>1 DEF Honoured, StopIsHonoured, AbortIsAcknowledged, StoppedBeforeOpenIsIdle
    <2>4. CASE UNCHANGED exec /\ task' = [task EXCEPT ![w] = Fails(w, FALSE)]
      <3>1. task'[w].phase = "failing" /\ \A v \in Workers \ {w} : task'[v] = task[v]
        BY <2>1, <2>4 DEF Task, Fails
      <3> QED BY <2>4, <3>1 DEF Honoured, StopIsHonoured, AbortIsAcknowledged, StoppedBeforeOpenIsIdle
    <2> QED BY <1>8, <2>2, <2>3, <2>4 DEF Prepare
  <1>9. ASSUME NEW w \in Workers, MarkStarted(w)
        PROVE  Honoured'
    BY <1>9 DEF MarkStarted, Honoured, StopIsHonoured, AbortIsAcknowledged, StoppedBeforeOpenIsIdle, Typed, TypeOK, Task, NoTask, Fails, Execution, NoExecution, Starting, Referenced, OnLease, Leases
  <1>10. ASSUME NEW w \in Workers, NotStarted(w)
        PROVE  Honoured'
    <2> DEFINE e == task[w].ref
    <2>1. e \in Leases /\ exec[e] \in Execution /\ exec \in [Leases -> Execution]
          /\ task[w] \in Task /\ task \in [Workers -> Task]
      BY <1>10, Remembered DEF NotStarted, OnLease, Typed, TypeOK
    <2>2. task'[w].phase \in {"idle", "failing"} /\ \A v \in Workers \ {w} : task'[v] = task[v]
      <3>1. CASE task' = [task EXCEPT ![w] = NoTask]
        BY <2>1, <3>1 DEF NoTask
      <3>2. CASE task' = [task EXCEPT ![w] = Fails(w, FALSE)]
        BY <2>1, <3>2 DEF Task, Fails
      <3> QED BY <1>10, <3>1, <3>2 DEF NotStarted
    <2>3. exec' = [exec EXCEPT ![e] = Starting(exec[e], "failed")]
      BY <1>10 DEF NotStarted
    <2>4. /\ exec'[e].phase = exec[e].phase /\ exec'[e].abort = exec[e].abort
          /\ exec'[e].acked = exec[e].acked /\ exec'[e].held = exec[e].held
          /\ exec'[e].effects = exec[e].effects /\ exec'[e].gate = exec[e].gate
          /\ \A d \in Leases \ {e} : exec'[d] = exec[d]
      BY <2>1, <2>3 DEF Starting, Execution
    <2>5. \A d \in Leases : Kept(d)
      BY <2>4 DEF Kept
    <2> QED BY <2>2, <2>5, HonouredFrame
  <1>11. ASSUME NEW w \in Workers, Signal(w)
        PROVE  Honoured'
    BY <1>11 DEF Signal, Honoured, StopIsHonoured, AbortIsAcknowledged, StoppedBeforeOpenIsIdle, Typed, TypeOK, Task, NoTask, Fails, Execution, NoExecution, Starting, Referenced, OnLease, Leases
  <1>12. ASSUME NEW w \in Workers, SignalTooLate(w)
        PROVE  Honoured'
    BY <1>12 DEF SignalTooLate, Honoured, StopIsHonoured, AbortIsAcknowledged, StoppedBeforeOpenIsIdle, Typed, TypeOK, Task, NoTask, Fails
  <1>13. ASSUME NEW w \in Workers, Confirm(w)
        PROVE  Honoured'
    BY <1>13 DEF Confirm, Honoured, StopIsHonoured, AbortIsAcknowledged, StoppedBeforeOpenIsIdle, Typed, TypeOK, Task, NoTask, Fails
  <1>14. ASSUME NEW w \in Workers, RecordUnstarted(w)
        PROVE  Honoured'
    BY <1>14 DEF RecordUnstarted, Honoured, StopIsHonoured, AbortIsAcknowledged, StoppedBeforeOpenIsIdle, Typed, TypeOK, Task, NoTask, Fails
  <1>15. ASSUME NEW w \in Workers, RecordStarted(w)
        PROVE  Honoured'
    BY <1>15 DEF RecordStarted, Honoured, StopIsHonoured, AbortIsAcknowledged, StoppedBeforeOpenIsIdle, Typed, TypeOK, Task, NoTask, Fails
  <1>16. ASSUME NEW e \in Leases, Open(e)
        PROVE  Honoured'
    BY <1>16 DEF Open, Honoured, StopIsHonoured, AbortIsAcknowledged, StoppedBeforeOpenIsIdle, Typed, TypeOK, Execution, Ends
  <1>17. ASSUME NEW e \in Leases, Effect(e)
        PROVE  Honoured'
    BY <1>17 DEF Effect, Honoured, StopIsHonoured, AbortIsAcknowledged, StoppedBeforeOpenIsIdle, Typed, TypeOK, Execution, Ends
  <1>18. ASSUME NEW e \in Leases, NEW o \in Outcome \cup {"recover"}, End(e, o)
        PROVE  Honoured'
    BY <1>18 DEF End, Honoured, StopIsHonoured, AbortIsAcknowledged, StoppedBeforeOpenIsIdle, Typed, TypeOK, Execution, Ends
  <1>19. ASSUME NEW e \in Leases, Revoke(e)
        PROVE  Honoured'
    BY <1>19 DEF Revoke, Honoured, StopIsHonoured, AbortIsAcknowledged, StoppedBeforeOpenIsIdle, Typed, TypeOK, Execution, Ends
  <1>20. ASSUME NEW e \in Leases, Publish(e)
        PROVE  Honoured'
    BY <1>20 DEF Publish, Honoured, StopIsHonoured, AbortIsAcknowledged, StoppedBeforeOpenIsIdle, Typed, TypeOK, Execution, Ends
  <1>21. ASSUME NEW e \in Leases, RequestRecovery(e)
        PROVE  Honoured'
    BY <1>21 DEF RequestRecovery, Honoured, StopIsHonoured, AbortIsAcknowledged, StoppedBeforeOpenIsIdle, Typed, TypeOK, Execution, Ends
  <1>22. ASSUME NEW e \in Leases, NEW to \in {"idle", "failed"}, RecordFailure(e, to)
        PROVE  Honoured'
    BY <1>22 DEF RecordFailure, Honoured, StopIsHonoured, AbortIsAcknowledged, StoppedBeforeOpenIsIdle, Typed, TypeOK, Execution, Ends
  <1>23. ASSUME NEW e \in Leases, Expire(e)
        PROVE  Honoured'
    BY <1>23 DEF Expire, Honoured, StopIsHonoured, AbortIsAcknowledged, StoppedBeforeOpenIsIdle
  <1>24. ASSUME NEW e \in Leases, Reconcile(e)
        PROVE  Honoured'
    BY <1>24 DEF Reconcile, Honoured, StopIsHonoured, AbortIsAcknowledged, StoppedBeforeOpenIsIdle
  <1>25. ASSUME NEW e \in Leases, ProjectFinish(e)
        PROVE  Honoured'
    BY <1>25 DEF ProjectFinish, Honoured, StopIsHonoured, AbortIsAcknowledged, StoppedBeforeOpenIsIdle
  <1>26. CASE SealTerminates
    BY <1>26 DEF SealTerminates, Honoured, StopIsHonoured, AbortIsAcknowledged, StoppedBeforeOpenIsIdle
  <1>27. CASE SealRecovers
    BY <1>27 DEF SealRecovers, Honoured, StopIsHonoured, AbortIsAcknowledged, StoppedBeforeOpenIsIdle
  <1>29. ASSUME NEW w \in Workers, MarkStartedUnheard(w)
        PROVE  Honoured'
    BY <1>29 DEF MarkStartedUnheard, Honoured, StopIsHonoured, AbortIsAcknowledged, StoppedBeforeOpenIsIdle, Typed, TypeOK, Task, NoTask, Fails, Execution, NoExecution, Starting, Referenced, OnLease, Leases
  <1>30. ASSUME NEW w \in Workers, AttemptLost(w)
        PROVE  Honoured'
    BY <1>30 DEF AttemptLost, Honoured, StopIsHonoured, AbortIsAcknowledged, StoppedBeforeOpenIsIdle, Typed, TypeOK, Task, NoTask, Fails
  <1>28. CASE UNCHANGED vars
    BY <1>28 DEF Honoured, StopIsHonoured, AbortIsAcknowledged, StoppedBeforeOpenIsIdle, vars
  <1> QED
    BY <1>1, <1>2, <1>3, <1>4, <1>5, <1>6, <1>7, <1>8, <1>9, <1>10, <1>11, <1>12, <1>13, <1>14, <1>15, <1>16, <1>17, <1>18, <1>19, <1>20, <1>21, <1>22, <1>23, <1>24, <1>25, <1>26, <1>27, <1>28, <1>29, <1>30
    DEF Next, Attempt, Runner, Projection

-----------------------------------------------------------------------------
Sound == Typed /\ TablesAgree /\ Honoured /\ InTurn

\* No request, no execution and no attempt: the invariant holds.
LEMMA Initially == Init => Sound
  <1> SUFFICES ASSUME Init PROVE Sound
    OBVIOUS
  <1>1. TypeOK
    <2>1. run \in RunRow /\ epoch \in 0..MaxLease /\ run.lease = 0 /\ run.state = "queued"
      BY CancellationAssumption DEF Init, RunRow
    <2>2. stop \in [Stops -> StopRow]
      BY CancellationAssumption DEF Init, NoStop, StopRow, AttemptBound
    <2>3. exec \in [Leases -> Execution]
      BY DEF Init, NoExecution, Execution
    <2>4. NoTask \in Task
      <3>1. 0 \in 0..AttemptBound /\ 0 \in 0..MaxStops /\ 0 \in 0..MaxLease
        BY CancellationAssumption DEF AttemptBound
      <3> QED BY <3>1 DEF NoTask, Task
    <2> QED BY <2>1, <2>2, <2>3, <2>4 DEF Init, TypeOK
  <1>2. Referenced
    BY CancellationAssumption DEF Init, Referenced, Busy, OnLease, NoTask
  <1>3. TablesAgree
    BY DEF Init, TablesAgree, Outstanding, Active, NoStop
  <1>4. Honoured
    BY DEF Init, Honoured, StopIsHonoured, AbortIsAcknowledged, StoppedBeforeOpenIsIdle,
           NoExecution, NoTask
  <1>5. InTurn
    BY DEF Init, InTurn, Busy, NoStop, NoTask
  <1> QED BY <1>1, <1>2, <1>3, <1>4, <1>5 DEF Sound, Typed

\* The rows agree, Stops are honoured and attempts keep their turn, for ever: the
\* invariant the theorems below are read off.
THEOREM SoundHolds == Spec => []Sound
  <1>1. Sound /\ [Next]_vars => Sound'
    BY TypeStep, ReferencedStep, AgreeStep, InTurnStep, HonouredStep DEF Sound, Typed
  <1> QED BY <1>1, Initially, PTL DEF Spec

\* Every variable keeps its type, a Run has a lease unless it is queued, and an
\* attempt names a Stop, an attempt of it and a lease that were issued.
THEOREM TypeCorrect == Spec => [](TypeOK /\ Referenced)
  <1>1. Sound => TypeOK /\ Referenced
    BY DEF Sound, Typed
  <1> QED BY <1>1, SoundHolds, PTL

\* A Runner is aborted only for a Stop that PostgreSQL recorded for this very
\* execution, and an execution its Stop came before never calls a model or a
\* Tool (#markStarted before prepared.run; stopOnResume and beforeEffect).
THEOREM StopIsHonouredHolds == Spec => []StopIsHonoured
  <1>1. Sound => StopIsHonoured
    BY DEF Sound, Honoured
  <1> QED BY <1>1, SoundHolds, PTL

\* The rows of runs, sessions and turn_control_requests never disagree about a
\* Stop: at most one is outstanding, it is acknowledged exactly while the Run is
\* cancel_requested and its Session cancelling (every transaction of both executors and the Projector).
THEOREM TablesAgreeHolds == Spec => []TablesAgree
  <1>1. Sound => TablesAgree
    BY DEF Sound
  <1> QED BY <1>1, SoundHolds, PTL

\* While its request is under way, the Run of a claimed attempt keeps its lease.
LEMMA OwnLease ==
    ASSUME Sound, NEW w \in Workers, Busy(w), OwnAttempt(w),
           stop[task[w].stop].state \in {"dispatched", "acknowledged"}
    PROVE  run.lease = task[w].on
  BY DEF Sound, InTurn

\* An attempt that outlived its execution changes nothing of the next one (the
\* attempt check of #lockLifecycleRows, and the seal that makes a Stop pending).
THEOREM StaleAttemptsAreInertHolds == Spec => StaleAttemptsAreInert
  <1>1. ASSUME Sound, [Next]_vars, NEW w \in Workers,
               task[w].phase \in {"starting", "failing"}, task'[w] # task[w]
        PROVE  run.lease = task[w].on \/ UNCHANGED <<run, session, stop>>
    <2>1. task \in [Workers -> Task] /\ Busy(w)
      BY <1>1 DEF Sound, Typed, TypeOK, Busy
    <2>2. ASSUME NEW v \in Workers, Attempt(v), v # w
          PROVE  task'[w] = task[w]
      BY <2>1, <2>2 DEF Attempt, Choose, ClaimAttempt, Lookup, Prepare, MarkStarted, NotStarted,
                        MarkStartedUnheard, AttemptLost, Signal, SignalTooLate, Confirm, RecordUnstarted, RecordStarted
    <2>3. ASSUME Attempt(w)
          PROVE  run.lease = task[w].on \/ UNCHANGED <<run, session, stop>>
      <3>1. CASE MarkStarted(w)
        BY <1>1, <2>1, <3>1, OwnLease DEF MarkStarted
      <3>2. CASE NotStarted(w)
        BY <3>2 DEF NotStarted
      <3>3. CASE RecordUnstarted(w)
        BY <1>1, <2>1, <3>3, OwnLease DEF RecordUnstarted
      <3>4. CASE RecordStarted(w)
        BY <1>1, <2>1, <3>4, OwnLease DEF RecordStarted
      <3>5. ~(\/ Choose(w) \/ ClaimAttempt(w) \/ Lookup(w) \/ Prepare(w)
              \/ Signal(w) \/ SignalTooLate(w) \/ Confirm(w))
        BY <1>1 DEF Choose, ClaimAttempt, Lookup, Prepare, Signal, SignalTooLate, Confirm
      <3>6. CASE MarkStartedUnheard(w)
        BY <1>1, <2>1, <3>6, OwnLease DEF MarkStartedUnheard
      <3>7. CASE AttemptLost(w)
        BY <3>7 DEF AttemptLost
      <3> QED BY <2>3, <3>1, <3>2, <3>3, <3>4, <3>5, <3>6, <3>7 DEF Attempt
    <2>4. ASSUME NEW v \in Workers, Crash(v)
          PROVE  UNCHANGED <<run, session, stop>>
      BY <2>4 DEF Crash
    <2>5. ASSUME NEW v \in Workers, Claim(v)
          PROVE  task' = task
      BY <2>5 DEF Claim
    <2>6. ASSUME NEW s \in Stops, Accept(s) \/ BecomesDue(s)
          PROVE  task' = task
      BY <2>6 DEF Accept, BecomesDue
    <2>7. ASSUME NEW e \in Leases, Runner(e) \/ Effect(e) \/ Expire(e) \/ Reconcile(e)
                                   \/ \E to \in {"idle", "failed"} : RecordFailure(e, to)
          PROVE  task' = task
      BY <2>7 DEF Runner, Open, End, Revoke, Publish, RequestRecovery, Effect, Expire, Reconcile,
                  RecordFailure
    <2>8. CASE Projection \/ UNCHANGED vars
      BY <1>1, <2>8 DEF Projection, ProjectFinish, SealTerminates, SealRecovers, vars
    <2> QED BY <1>1, <2>2, <2>3, <2>4, <2>5, <2>6, <2>7, <2>8 DEF Next
  <1>2. Sound /\ [Next]_vars
          => [\A w \in Workers :
                 task[w].phase \in {"starting", "failing"} /\ task'[w] # task[w]
                   => \/ run.lease = task[w].on
                      \/ UNCHANGED <<run, session, stop>>]_vars
    BY <1>1
  <1> QED BY <1>2, SoundHolds, PTL DEF Spec, StaleAttemptsAreInert

\* No step changes a Run that has ended (isTerminalRunState): what cancellation,
\* recovery and projection write depends on a state that is not terminal.
LEMMA RunOutcomeStays ==
    ASSUME Typed, Terminal, [Next]_vars
    PROVE  run'.state = run.state
  <1>1. run \in RunRow /\ run.state \notin {"queued", "running", "cancel_requested"}
    BY DEF Typed, TypeOK, Terminal, Outcome
  <1>2. ASSUME NEW s \in Stops, Accept(s) \/ BecomesDue(s)
        PROVE  run' = run
    BY <1>2 DEF Accept, BecomesDue
  <1>3. ASSUME NEW w \in Workers, Claim(w) \/ Crash(w) \/ Attempt(w)
        PROVE  run' = run
    BY <1>1, <1>3 DEF Claim, Crash, Attempt, Choose, ClaimAttempt, Lookup, Prepare, MarkStarted,
                      NotStarted, MarkStartedUnheard, AttemptLost, Signal, SignalTooLate, Confirm,
                      RecordUnstarted, RecordStarted
  <1>4. ASSUME NEW e \in Leases, Runner(e) \/ Effect(e) \/ Reconcile(e) \/ ProjectFinish(e)
                                 \/ \E to \in {"idle", "failed"} : RecordFailure(e, to)
        PROVE  run' = run
    BY <1>1, <1>4 DEF Terminal, Runner, Open, End, Revoke, Publish, RequestRecovery, Effect,
                      Reconcile, ProjectFinish, RecordFailure
  <1>5. ASSUME NEW e \in Leases, Expire(e)
        PROVE  run'.state = run.state
    BY <1>1, <1>5 DEF Expire, RunRow
  <1>6. CASE SealTerminates \/ SealRecovers \/ UNCHANGED vars
    BY <1>1, <1>6 DEF Terminal, SealTerminates, SealRecovers, vars, RunRow
  <1> QED BY <1>1, <1>2, <1>3, <1>4, <1>5, <1>6 DEF Next, Projection

\* Nor one of a Stop that is completed or failed (transitionTurnControlRequest).
LEMMA StopOutcomeStays ==
    ASSUME Typed, [Next]_vars, NEW s \in Stops, stop[s].state \in {"completed", "failed"}
    PROVE  stop'[s].state = stop[s].state
  <1>1. stop \in [Stops -> StopRow]
    BY DEF Typed, TypeOK
  <1>2. ASSUME NEW u \in Stops, Accept(u) \/ BecomesDue(u)
        PROVE  stop'[s] = stop[s]
    BY <1>1, <1>2 DEF Accept, BecomesDue
  <1>3. ASSUME NEW w \in Workers, Attempt(w)
        PROVE  stop'[s] = stop[s]
    <2>1. CASE ClaimAttempt(w)
      BY <1>1, <2>1 DEF ClaimAttempt, Dispatchable
    <2>2. CASE MarkStarted(w) \/ MarkStartedUnheard(w)
      BY <1>1, <2>2 DEF MarkStarted, MarkStartedUnheard
    <2>3. CASE RecordUnstarted(w)
      BY <1>1, <2>3 DEF RecordUnstarted
    <2>4. CASE RecordStarted(w)
      BY <1>1, <2>4 DEF RecordStarted
    <2>5. CASE \/ Choose(w) \/ Lookup(w) \/ Prepare(w) \/ NotStarted(w) \/ AttemptLost(w)
               \/ Signal(w) \/ SignalTooLate(w) \/ Confirm(w)
      BY <2>5 DEF Choose, Lookup, Prepare, NotStarted, AttemptLost, Signal, SignalTooLate, Confirm
    <2> QED BY <1>3, <2>1, <2>2, <2>3, <2>4, <2>5 DEF Attempt
  <1>4. ASSUME NEW w \in Workers, Claim(w) \/ Crash(w)
        PROVE  stop'[s] = stop[s]
    BY <1>4 DEF Claim, Crash
  <1>5. ASSUME NEW e \in Leases, Runner(e) \/ Effect(e) \/ Expire(e) \/ Reconcile(e)
                                 \/ \E to \in {"idle", "failed"} : RecordFailure(e, to)
        PROVE  stop'[s] = stop[s]
    BY <1>5 DEF Runner, Open, End, Revoke, Publish, RequestRecovery, Effect, Expire, Reconcile,
                RecordFailure
  <1>6. CASE Projection \/ UNCHANGED vars
    BY <1>1, <1>6 DEF Projection, ProjectFinish, SealTerminates, SealRecovers, vars, Active
  <1> QED BY <1>2, <1>3, <1>4, <1>5, <1>6 DEF Next

\* No Stop, no late attempt and no replay changes the outcome of a Run that has
\* ended or of a Stop that was settled.
THEOREM OutcomeIsFinalHolds == Spec => OutcomeIsFinal
  <1>1. Sound /\ [Next]_vars
          => [/\ Terminal => run'.state = run.state
              /\ \A s \in Stops : stop[s].state \in {"completed", "failed"}
                                    => stop'[s].state = stop[s].state]_vars
    BY RunOutcomeStays, StopOutcomeStays DEF Sound
  <1> QED BY <1>1, SoundHolds, PTL DEF Spec, OutcomeIsFinal

=============================================================================
