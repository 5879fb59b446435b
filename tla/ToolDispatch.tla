---------------------------- MODULE ToolDispatch ----------------------------
(***************************************************************************)
(* One fixed Tool command from the Worker that publishes it to the process *)
(* in a virtual machine, and its reply back.  Worker, Session Log,         *)
(* Projectors, Cube executor and reply mailbox are separate parties; every *)
(* hop between them may be slow, lost or overtaken.                        *)
(*                                                                         *)
(* The scope is one partition of the log and one machine.  The bindings    *)
(* 1..LastBinding are the successive owners of the machine, one Run each;  *)
(* command o belongs to binding BindingOf[o] and there is one log record   *)
(* per command, per cancellation, per retired binding and per finished     *)
(* Run.  A position is an index of the log.                                *)
(***************************************************************************)
EXTENDS Naturals, Sequences, FiniteSets, FiniteSetsExt, SequencesExt

CONSTANTS
  Ops,           \* Tool operation ids
  LastBinding,   \* the last binding of the machine
  BindingOf,     \* the binding each operation belongs to
  Projectors,    \* members of the Projector's consumer group
  Capacity,      \* maximumOutstanding of the executor
  Faults,        \* what may happen besides the normal course: see FaultKinds
  MaxFaults      \* bound on how often

FaultKinds == {"abort", "deadline", "retire", "worker", "handover", "crash", "commit",
               "loss", "slow", "reply", "scope", "retention", "close", "restart", "destroy"}

Bindings == 1..LastBinding

ASSUME OpsAssumption ==
  /\ LastBinding \in Nat \ {0}
  /\ IsFiniteSet(Ops)
  /\ BindingOf \in [Ops -> Bindings]
ASSUME BoundsAssumption == MaxFaults \in Nat /\ Capacity \in Nat \ {0}
ASSUME FaultsAssumption == Faults \subseteq FaultKinds

VARIABLES
  log,          \* the Session Log's partition
  stage,        \* per binding: "future", "live", "retired" (closed in PostgreSQL), "sealed"
  dead,         \* bindings whose Worker process is gone
  call,         \* per operation, the Worker's call: outcome, published, aborted, cancelled
  faults,       \* how many faults happened
  group,        \* the consumer group: the partition's owner, whether it has joined, the offset
  proj,         \* per Projector: its delivery loop and what it remembers
  routeClosed,  \* bindings whose dispatch_closed is set in PostgreSQL
  rpcs,         \* requests on their way to the executor
  cube,         \* the executor's manager: position, unsafe, closed, boot, present
  exec,         \* per operation: where it is in the executor
  result,       \* per operation: the result its execution ended with
  interrupted,  \* operations whose interrupt channel is closed
  replies,      \* replies on the Worker's reply topic, and those that were lost
  handed,       \* history: commands a Projector submitted
  ran,          \* history: operations whose process was started
  admitted,     \* history: positions in the order the machine admitted them
  fenced,       \* history: operations an accepted cancellation covers
  strays        \* history: processes nobody joined and nobody could stop

worker == <<stage, dead, call>>
projection == <<group, proj, routeClosed, rpcs, handed>>
executor == <<cube, exec, result, interrupted, ran, admitted, fenced, strays>>
vars == <<log, worker, faults, projection, executor, replies>>

Outcome == {"result", "not_started", "unknown"}
Record == [kind: {"command", "cancel"}, id: Ops] \cup [kind: {"retire", "seal"}, id: Bindings]
\* try: 0 for the one submit of a command, 1 and 2 for a cancellation's two.
Rpc == [kind: {"command"}, id: Ops, at: Nat, from: Projectors, try: 0..2]
         \cup [kind: {"cancel"}, id: Ops, at: Nat, from: Projectors, try: 0..2]
         \cup [kind: {"retire"}, id: Bindings, at: Nat, from: Projectors, try: 0..2]
Rejection == {"executor_replaced", "executor_capacity", "execution_unavailable",
              "runtime_quarantined", "capacity", "execution_position_stale",
              "runtime_retention_unavailable"}
Answer == Rejection \cup {"none", "accepted"}
Unfinished == {"admitted", "running"}
Held == Unfinished \cup {"finished"}   \* still in the manager's table

CallRow == [outcome: Outcome \cup {"none"}, published: BOOLEAN, aborted: BOOLEAN,
            cancelled: BOOLEAN]

\* The positions each of them knows are within a log of length n.
Group(n) == [owner: Projectors, joined: BOOLEAN, offset: 0..n]
Member(n) == [current: BOOLEAN, cursor: 0..n, seen: 0..n,
              pc: {"idle", "route", "submit", "cancel"}, tries: 0..2,
              answer: Answer, closed: SUBSET Bindings]
Machine(n) == [position: 0..n, unsafe: BOOLEAN, closed: BOOLEAN, replaced: BOOLEAN,
               present: BOOLEAN]

TypeOK ==
  /\ log \in Seq(Record)
  /\ stage \in [Bindings -> {"future", "live", "retired", "sealed"}]
  /\ dead \subseteq Bindings
  /\ call \in [Ops -> CallRow]
  /\ faults \in 0..MaxFaults
  /\ group \in Group(Len(log))
  /\ proj \in [Projectors -> Member(Len(log))]
  /\ routeClosed \subseteq Bindings
  /\ rpcs \subseteq Rpc
  /\ cube \in Machine(Len(log))
  /\ exec \in [Ops -> {"none", "gone"} \cup Held]
  /\ result \in [Ops -> Outcome \cup {"none"}]
  /\ interrupted \subseteq Ops
  /\ replies \subseteq Ops \X (Outcome \cup {"lost"})
  /\ handed \subseteq Ops
  /\ ran \subseteq Ops
  /\ admitted \in Seq(1..Len(log))
  /\ fenced \subseteq Ops
  /\ strays \subseteq Ops

\* A Projector without the partition: onReset forgot what it knew.
Unassigned == [current |-> FALSE, cursor |-> 0, seen |-> 0, pc |-> "idle", tries |-> 0,
               answer |-> "none", closed |-> {}]

Init ==
  /\ log = <<>>
  /\ stage = [b \in Bindings |-> IF b = 1 THEN "live" ELSE "future"]
  /\ dead = {}
  /\ faults = 0
  /\ call = [o \in Ops |-> [outcome |-> "none", published |-> FALSE,
                            aborted |-> FALSE, cancelled |-> FALSE]]
  /\ \E p \in Projectors :
       /\ group = [owner |-> p, joined |-> TRUE, offset |-> 0]
       /\ proj = [q \in Projectors |-> [Unassigned EXCEPT !.current = q = p]]
  /\ routeClosed = {}
  /\ rpcs = {}
  /\ cube = [position |-> 0, unsafe |-> FALSE, closed |-> FALSE,
             replaced |-> FALSE, present |-> TRUE]
  /\ exec = [o \in Ops |-> "none"]
  /\ result = [o \in Ops |-> "none"]
  /\ interrupted = {}
  /\ replies = {}
  /\ handed = {}
  /\ ran = {}
  /\ admitted = <<>>
  /\ fenced = {}
  /\ strays = {}

OpsOf(b) == {o \in Ops : BindingOf[o] = b}
Alive(o) == BindingOf[o] \notin dead
Pending(o) == call[o].published /\ call[o].outcome = "none"

\* One of the things the bound MaxFaults counts.
Fault(kind) == kind \in Faults /\ faults < MaxFaults /\ faults' = faults + 1

-----------------------------------------------------------------------------
(* The Worker: DurableRemoteTools and ToolReplyMailbox.                    *)

\* The mailbox waits before the command is published with the commit that
\* moves the native task to its execute phase; never twice, never once the
\* abort is requested.  A retired binding's Worker may not know yet.
Publish(o) ==
  /\ stage[BindingOf[o]] \in {"live", "retired"}
  /\ Alive(o)
  /\ ~call[o].published /\ ~call[o].aborted
  /\ call' = [call EXCEPT ![o].published = TRUE]
  /\ log' = Append(log, [kind |-> "command", id |-> o])
  /\ UNCHANGED <<stage, dead, faults, projection, executor, replies>>

\* Native abort of the task.
RequestAbort(o) ==
  /\ Fault("abort")
  /\ Alive(o) /\ call[o].published /\ ~call[o].aborted
  /\ call' = [call EXCEPT ![o].aborted = TRUE]
  /\ UNCHANGED <<log, stage, dead, projection, executor, replies>>

\* The commit that records the abort publishes one cancellation, unless the
\* operation is known to have ended (executionSettled).
PublishCancel(o) ==
  /\ Alive(o) /\ stage[BindingOf[o]] # "sealed"
  /\ call[o].aborted /\ ~call[o].cancelled
  /\ call[o].outcome \notin {"result", "not_started"}
  /\ call' = [call EXCEPT ![o].cancelled = TRUE]
  /\ log' = Append(log, [kind |-> "cancel", id |-> o])
  /\ UNCHANGED <<stage, dead, faults, projection, executor, replies>>

\* The wait ends without a reply: aborted, or past the reply deadline.
AbandonWait(o) ==
  /\ Alive(o) /\ Pending(o)
  /\ \/ call[o].aborted /\ UNCHANGED faults
     \/ Fault("deadline")
  /\ call' = [call EXCEPT ![o].outcome = "unknown"]
  /\ UNCHANGED <<log, stage, dead, projection, executor, replies>>

\* The first reply for a waiting operation ends the wait.  The mailbox keeps
\* nothing of an operation it no longer waits for.
Accept(o) ==
  /\ Alive(o) /\ Pending(o)
  /\ \E r \in replies : r[1] = o /\ r[2] # "lost" /\ call' = [call EXCEPT ![o].outcome = r[2]]
  /\ UNCHANGED <<log, stage, dead, faults, projection, executor, replies>>

WorkerDies(b) ==
  /\ Fault("worker")
  /\ stage[b] \in {"live", "retired"} /\ b \notin dead
  /\ dead' = dead \cup {b}
  /\ UNCHANGED <<log, stage, call, projection, executor, replies>>

\* A binding is closed in PostgreSQL and the change is appended to the log
\* with the target a cancellation needs.
Retire(b) ==
  /\ b \in dead \/ "retire" \in Faults
  /\ stage[b] = "live"
  /\ stage' = [stage EXCEPT ![b] = "retired"]
  /\ routeClosed' = routeClosed \cup {b}
  /\ log' = Append(log, [kind |-> "retire", id |-> b])
  /\ UNCHANGED <<dead, call, faults, group, proj, rpcs, handed, executor, replies>>

\* work_finished by a Worker that waits for nothing, or an execution_seal.
Seal(b) ==
  /\ \/ /\ stage[b] = "live" /\ b \notin dead
        /\ \A o \in OpsOf(b) : ~Pending(o)
     \/ stage[b] = "retired"
  /\ stage' = [stage EXCEPT ![b] = "sealed"]
  /\ log' = Append(log, [kind |-> "seal", id |-> b])
  /\ UNCHANGED <<dead, call, faults, projection, executor, replies>>

-----------------------------------------------------------------------------
(* The Projectors: KafkaLogConsumer, SessionProjector's handler and        *)
(* ToolCommandDispatcher.                                                  *)

Position(p) == proj[p].cursor + 1
At(p, kinds) == Position(p) <= Len(log) /\ log[Position(p)].kind \in kinds
RecordAt(p) == log[Position(p)]
\* What a Projector asks of the executor for the record it delivers.
Request(p, n) ==
  [kind |-> RecordAt(p).kind, id |-> RecordAt(p).id, at |-> Position(p), from |-> p, try |-> n]
Delivering(p, kinds) == proj[p].current /\ proj[p].pc = "idle" /\ At(p, kinds)

\* A handler that finds its assignment gone returns without its effect, and
\* what it knew is reset; one that ends in its assignment moves the cursor.
Advanced(q) ==
  IF q.current THEN [q EXCEPT !.pc = "idle", !.tries = 0, !.answer = "none",
                              !.cursor = @ + 1]
  ELSE Unassigned

\* A commit is accepted from the member that joined the current generation.
Holds(p) == group.owner = p /\ group.joined

\* The group assigns the partition to another member.  The old one learns of
\* it later.
Handover(p) ==
  /\ Fault("handover")
  /\ group.owner # p
  /\ group' = [group EXCEPT !.owner = p, !.joined = FALSE]
  /\ UNCHANGED <<log, worker, proj, routeClosed, rpcs, handed, executor, replies>>

\* onRevoked: the epoch changes; handlers in flight see it at their next check.
Notice(p) ==
  /\ proj[p].current /\ ~Holds(p)
  /\ proj' = [proj EXCEPT ![p] = IF proj[p].pc = "idle" THEN Unassigned
                                 ELSE [@ EXCEPT !.current = FALSE]]
  /\ UNCHANGED <<log, worker, faults, group, routeClosed, rpcs, handed, executor, replies>>

\* The new assignment waits for the old one's handlers, reads the binding rows
\* and the group's offset, and starts there or at the recovery floor below it.
Assign(p) ==
  /\ group.owner = p /\ ~proj[p].current /\ proj[p].pc = "idle"
  /\ group' = [group EXCEPT !.joined = TRUE]
  /\ \E floor \in {0, group.offset} :
       proj' = [proj EXCEPT ![p] = [Unassigned EXCEPT !.current = TRUE, !.cursor = floor,
                                    !.seen = group.offset, !.closed = routeClosed]]
  /\ UNCHANGED <<log, worker, faults, routeClosed, rpcs, handed, executor, replies>>

\* The process dies and comes back as an unassigned member.
CrashProjector(p) ==
  /\ Fault("crash")
  /\ proj[p].current \/ proj[p].pc # "idle"
  /\ group' = [group EXCEPT !.joined = @ /\ group.owner # p]
  /\ proj' = [proj EXCEPT ![p] = Unassigned]
  /\ UNCHANGED <<log, worker, routeClosed, rpcs, handed, executor, replies>>

\* The timer's progress commit of what was processed.
Progress(p) ==
  /\ proj[p].current /\ Holds(p)
  /\ proj[p].cursor > proj[p].seen
  /\ group' = [group EXCEPT !.offset = proj[p].cursor]
  /\ proj' = [proj EXCEPT ![p].seen = proj[p].cursor]
  /\ UNCHANGED <<log, worker, faults, routeClosed, rpcs, handed, executor, replies>>

\* Mutant: the effect is admitted without looking at what was committed.
CommitEffectAlways(p) ==
  /\ Delivering(p, {"command"})
  /\ Holds(p)
  /\ group' = [group EXCEPT !.offset = Max({@, Position(p)})]
  /\ proj' = [proj EXCEPT ![p].seen = Max({@, Position(p)}), ![p].pc = "route"]
  /\ UNCHANGED <<log, worker, faults, routeClosed, rpcs, handed, executor, replies>>

\* commitBeforeEffect.  The command is dispatched by the one delivery whose
\* commit moves the group past it; any later delivery only projects.
CommitEffect(p) ==
  /\ Delivering(p, {"command"})
  /\ Holds(p)
  /\ Position(p) > proj[p].seen
  /\ group' = [group EXCEPT !.offset = Position(p)]
  /\ proj' = [proj EXCEPT ![p].seen = Position(p), ![p].pc = "route"]
  /\ UNCHANGED <<log, worker, faults, routeClosed, rpcs, handed, executor, replies>>

\* The commit reached the broker and its acknowledgement did not come back:
\* the consumer fails and starts again as a new member.
CommitLost(p) ==
  /\ Fault("commit")
  /\ Delivering(p, {"command"})
  /\ Holds(p)
  /\ Position(p) > proj[p].seen
  /\ group' = [group EXCEPT !.offset = Position(p), !.joined = FALSE]
  /\ proj' = [proj EXCEPT ![p] = Unassigned]
  /\ UNCHANGED <<log, worker, routeClosed, rpcs, handed, executor, replies>>

SkipDispatched(p) ==
  /\ Delivering(p, {"command"})
  /\ Position(p) <= proj[p].seen
  /\ proj' = [proj EXCEPT ![p] = Advanced(@)]
  /\ UNCHANGED <<log, worker, faults, group, routeClosed, rpcs, handed, executor, replies>>

\* publishReply, which "reply" may make fail: the Projector's #fail only logs it
\* and the delivery goes on; the executor gives up after its 30 s.
Reply(o, outcome) ==
  \/ replies' = replies \cup {<<o, outcome>>} /\ UNCHANGED faults
  \/ Fault("reply") /\ replies' = replies \cup {<<o, "lost">>}

\* Mutant: the closed binding is looked up and not refused.
DispatchToClosed(p) ==
  LET o == RecordAt(p).id IN
  /\ proj[p].pc = "route"
  /\ \/ /\ ~proj[p].current
        /\ proj' = [proj EXCEPT ![p] = Unassigned]
        /\ UNCHANGED <<rpcs, handed>>
     \/ /\ proj[p].current
        /\ rpcs' = rpcs \cup {Request(p, 0)}
        /\ handed' = handed \cup {o}
        /\ proj' = [proj EXCEPT ![p].pc = "submit"]
  /\ UNCHANGED <<log, worker, faults, group, routeClosed, executor, replies>>

\* The route is read, the assignment checked, and only then is the one submit
\* of this command sent.  A closed binding is answered at once.
Dispatch(p) ==
  LET o == RecordAt(p).id IN
  /\ proj[p].pc = "route"
  /\ \/ /\ ~proj[p].current
        /\ proj' = [proj EXCEPT ![p] = Unassigned]
        /\ UNCHANGED <<faults, rpcs, handed, replies>>
     \/ /\ proj[p].current /\ BindingOf[o] \in proj[p].closed
        /\ Reply(o, "not_started")
        /\ proj' = [proj EXCEPT ![p] = Advanced(@)]
        /\ UNCHANGED <<rpcs, handed>>
     \/ /\ proj[p].current /\ BindingOf[o] \notin proj[p].closed
        /\ rpcs' = rpcs \cup {Request(p, 0)}
        /\ handed' = handed \cup {o}
        /\ proj' = [proj EXCEPT ![p].pc = "submit"]
        /\ UNCHANGED <<faults, replies>>
  /\ UNCHANGED <<log, worker, group, routeClosed, executor>>

\* Mutant: a handoff nobody confirmed is taken for one that did not happen.
EffectOfSilence(answer) ==
  IF answer \in {"execution_unavailable", "executor_capacity", "capacity",
                 "runtime_retention_unavailable", "none"}
  THEN "not_started" ELSE "unknown"

\* handoffFailure: what a refusal proves.  A stale position may describe an
\* earlier effect.
Effect(answer) ==
  IF answer \in {"execution_unavailable", "executor_capacity", "capacity",
                 "runtime_retention_unavailable"}
  THEN "not_started" ELSE "unknown"

Quarantines(answer) == answer \in {"executor_replaced", "runtime_quarantined"}

\* quarantineExecutionTarget closes every binding of the condemned machine and
\* publishes the closures; later bindings get another machine.
Quarantine ==
  LET open == {b \in Bindings : stage[b] = "live"} IN
  /\ routeClosed' = Bindings
  /\ stage' = [b \in Bindings |-> IF b \in open THEN "retired" ELSE stage[b]]
  /\ log' = log \o SetToSeq([kind : {"retire"}, id : open])

\* Mutant: only a refusal known to have had no effect is reported.
SettleQuietly(p, answer) ==
  LET o == RecordAt(p).id IN
  /\ IF Effect(answer) = "unknown" THEN UNCHANGED <<replies, faults>>
     ELSE Reply(o, Effect(answer))
  /\ IF Quarantines(answer) THEN Quarantine ELSE UNCHANGED <<routeClosed, stage, log>>
  /\ proj' = [proj EXCEPT ![p] = Advanced(@)]
  /\ UNCHANGED <<dead, call, group, rpcs, handed, executor>>

\* The executor's answer, or none of it in time: then the command may have
\* been admitted or may still be.  The command is not sent again.
Settle(p, answer) ==
  LET o == RecordAt(p).id IN
  /\ IF answer = "accepted" THEN UNCHANGED <<replies, faults>> ELSE Reply(o, Effect(answer))
  /\ IF Quarantines(answer) THEN Quarantine ELSE UNCHANGED <<routeClosed, stage, log>>
  /\ proj' = [proj EXCEPT ![p] = Advanced(@)]
  /\ UNCHANGED <<dead, call, group, rpcs, handed, executor>>

\* The request of the current try is on its way.
Travelling(p) ==
  \E r \in rpcs : r.from = p /\ r.at = Position(p) /\ r.try = proj[p].tries

\* The request or its answer is lost, or takes too long.
Silence(p) ==
  \/ "slow" \in Faults
  \/ proj[p].answer = "none" /\ ~Travelling(p)

SubmitAnswered(p) ==
  proj[p].pc = "submit" /\ proj[p].answer # "none" /\ Settle(p, proj[p].answer)

SubmitUnanswered(p) == proj[p].pc = "submit" /\ Silence(p) /\ Settle(p, "none")

\* Mutant: a closed binding is looked up as a route and has none any more.
SendCancelOfRoute(p) ==
  /\ Delivering(p, {"cancel", "retire"})
  /\ IF At(p, {"retire"})
     THEN /\ proj' = [proj EXCEPT
                       ![p] = [Advanced(proj[p]) EXCEPT !.closed = @ \cup {RecordAt(p).id}]]
          /\ UNCHANGED rpcs
     ELSE /\ rpcs' = rpcs \cup {Request(p, 1)}
          /\ proj' = [proj EXCEPT ![p].pc = "cancel", ![p].tries = 1]
  /\ UNCHANGED <<log, worker, faults, group, routeClosed, handed, executor, replies>>

\* Where a cancellation record points: the route of the operation's binding,
\* which closing does not remove, or the target the closed binding's change
\* carries.
SendCancel(p) ==
  /\ Delivering(p, {"cancel", "retire"})
  /\ rpcs' = rpcs \cup {Request(p, 1)}
  /\ proj' = [proj EXCEPT ![p].pc = "cancel", ![p].tries = 1,
                 ![p].closed = IF At(p, {"retire"}) THEN @ \cup {RecordAt(p).id} ELSE @]
  /\ UNCHANGED <<log, worker, faults, group, routeClosed, handed, executor, replies>>

\* #cancel: a refusal ends it, silence is tried once more while assigned.
CancelAnswered(p) ==
  /\ proj[p].pc = "cancel" /\ proj[p].answer # "none"
  /\ proj' = [proj EXCEPT ![p] = Advanced(@)]
  /\ UNCHANGED <<log, worker, faults, group, routeClosed, rpcs, handed, executor, replies>>

CancelUnanswered(p) ==
  /\ proj[p].pc = "cancel" /\ Silence(p)
  /\ IF proj[p].tries < 2 /\ proj[p].current
     THEN /\ rpcs' = rpcs \cup {Request(p, 2)}
          /\ proj' = [proj EXCEPT ![p].tries = 2, ![p].answer = "none"]
     ELSE proj' = [proj EXCEPT ![p] = Advanced(@)] /\ UNCHANGED rpcs
  /\ UNCHANGED <<log, worker, faults, group, routeClosed, handed, executor, replies>>

\* closeWriter, then the projection that lets the next binding in.
ConsumeSeal(p) ==
  LET b == RecordAt(p).id IN
  /\ Delivering(p, {"seal"})
  /\ routeClosed' = routeClosed \cup {b}
  /\ proj' = [proj EXCEPT ![p] = [Advanced(proj[p]) EXCEPT !.closed = @ \cup {b}]]
  /\ stage' = IF b < LastBinding /\ stage[b + 1] = "future" /\ b + 1 \notin routeClosed
              THEN [stage EXCEPT ![b + 1] = "live"] ELSE stage
  /\ UNCHANGED <<log, dead, call, faults, group, rpcs, handed, executor, replies>>

-----------------------------------------------------------------------------
(* The executor: execution.Manager of the machine's node.                  *)

\* advance: fresh commands are strictly newer, cancellations may repeat.
NewPosition(at) == Max({cube.position, at})

Active == Cardinality({o \in Ops : exec[o] \in Held})

\* What the machine itself is asked once the executor is the right one.
MachineVerdict(r, fresh) ==
  CASE cube.closed            -> "executor_capacity"
    [] ~cube.present          -> "execution_unavailable"
    [] cube.unsafe            -> "runtime_quarantined"
    [] exec[r.id] \in Held    -> "accepted"
    [] Active >= Capacity     -> "capacity"
    [] ~fresh                 -> "execution_position_stale"
    [] OTHER                  -> "admit"

\* Mutant: the position is remembered and not compared.
VerdictAnyPosition(r) ==
  IF cube.replaced THEN "executor_replaced" ELSE MachineVerdict(r, TRUE)

\* The order of Submit's checks.  The target carries the boot the machine was
\* created under; a fresh command is strictly newer than every other.
Verdict(r) ==
  IF cube.replaced THEN "executor_replaced"
  ELSE MachineVerdict(r, r.at > cube.position)

\* The answer goes back to a Projector that still waits for this try.
Answered(r, answer) ==
  IF proj[r.from].pc = (IF r.kind = "command" THEN "submit" ELSE "cancel")
       /\ Position(r.from) = r.at /\ proj[r.from].tries = r.try
  THEN [proj EXCEPT ![r.from].answer = answer] ELSE proj

Admit(r) ==
  /\ Verdict(r) = "admit"
  /\ cube' = [cube EXCEPT !.position = NewPosition(r.at)]
  /\ exec' = [exec EXCEPT ![r.id] = "admitted"]
  /\ admitted' = Append(admitted, r.at)
  /\ proj' = Answered(r, "accepted")
  /\ UNCHANGED faults

\* RuntimeActivity comes after advance: when the machine cannot be kept from
\* expiring the command is refused, and nothing older is admitted after it.
Refuse(r, answer) ==
  /\ \/ answer = Verdict(r) /\ UNCHANGED <<faults, cube>>
     \/ /\ answer = "runtime_retention_unavailable"
        /\ Verdict(r) = "admit" /\ Fault("retention")
        /\ cube' = [cube EXCEPT !.position = NewPosition(r.at)]
  /\ proj' = Answered(r, answer)
  /\ UNCHANGED <<exec, admitted>>

Submit(r) ==
  /\ r \in rpcs /\ r.kind = "command"
  /\ rpcs' = rpcs \ {r}
  /\ Admit(r) \/ \E answer \in Answer : Refuse(r, answer)
  /\ UNCHANGED <<log, worker, group, routeClosed, handed, result, interrupted, ran,
                 fenced, strays, replies>>

\* The unfinished operations a cancellation covers.
Covered(r) == IF r.kind = "retire" THEN OpsOf(r.id) ELSE {r.id}

CancelVerdict ==
  CASE cube.replaced -> "executor_replaced"
    [] cube.closed \/ ~cube.present -> "execution_unavailable"
    [] OTHER -> "accepted"

Cancel(r) ==
  /\ r \in rpcs /\ r.kind \in {"cancel", "retire"}
  /\ rpcs' = rpcs \ {r}
  /\ proj' = Answered(r, CancelVerdict)
  /\ IF CancelVerdict = "accepted"
     THEN /\ cube' = [cube EXCEPT !.position = NewPosition(r.at)]
          /\ interrupted' = interrupted \cup {o \in Covered(r) : exec[o] \in Unfinished}
          /\ fenced' = fenced \cup Covered(r)
     ELSE UNCHANGED <<cube, interrupted, fenced>>
  /\ UNCHANGED <<log, worker, faults, group, routeClosed, handed, exec, result, ran,
                 admitted, strays, replies>>

\* The request never arrives.
LoseRpc(r) ==
  /\ Fault("loss")
  /\ r \in rpcs
  /\ rpcs' = rpcs \ {r}
  /\ UNCHANGED <<log, worker, group, proj, routeClosed, handed, executor, replies>>

\* Run starts the process.  An interrupt may be accepted between its last
\* check (unstartedFailure) and the start.
StartTool(o) ==
  /\ exec[o] = "admitted" /\ cube.present
  /\ exec' = [exec EXCEPT ![o] = "running"]
  /\ ran' = ran \cup {o}
  /\ UNCHANGED <<log, worker, faults, projection, cube, result, interrupted, admitted,
                 fenced, strays, replies>>

Finish(o, outcome, quarantine) ==
  /\ exec' = [exec EXCEPT ![o] = "finished"]
  /\ result' = [result EXCEPT ![o] = outcome]
  /\ cube' = [cube EXCEPT !.unsafe = @ \/ quarantine]
  /\ UNCHANGED <<log, worker, projection, interrupted, ran, admitted, fenced, replies>>

\* Interrupted or shut down before the start: not_started.  Any other failure
\* to prepare the process is unknown, and an Exec without an answer condemns
\* the machine too.
Unstarted(o) ==
  /\ exec[o] = "admitted"
  /\ \/ /\ o \in interrupted \/ cube.closed
        /\ Finish(o, "not_started", FALSE)
        /\ UNCHANGED faults
     \/ Fault("scope") /\ \E q \in BOOLEAN : Finish(o, "unknown", q)
  /\ UNCHANGED strays

\* The process ended with a valid result frame.
Complete(o) ==
  /\ exec[o] = "running"
  /\ Finish(o, "result", FALSE)
  /\ UNCHANGED <<strays, faults>>

\* It timed out, was cancelled by the shutdown or broke the protocol: its scope
\* is stopped, or the machine is condemned because that cannot be confirmed.
Fail(o) ==
  /\ exec[o] = "running"
  /\ \/ /\ \/ cube.closed /\ UNCHANGED faults
           \/ Fault("scope")
        /\ Finish(o, "unknown", FALSE)
        /\ UNCHANGED strays
     \/ /\ Fault("scope")
        /\ Finish(o, "unknown", TRUE)
        /\ strays' = strays \cup {o}

\* The same result is delivered until it is taken or the 30 s are over; then
\* the operation's identity is dropped.
Deliver(o) ==
  /\ exec[o] = "finished"
  /\ exec' = [exec EXCEPT ![o] = "gone"]
  /\ Reply(o, result[o])
  /\ UNCHANGED <<log, worker, projection, cube, result, interrupted, ran, admitted, fenced,
                 strays>>

\* RetireIdleRuntime: nothing unfinished, so expiry closes the machine.
RetireIdleRuntime ==
  /\ Fault("destroy")
  /\ cube.present /\ ~cube.replaced /\ ~cube.unsafe
  /\ \A o \in Ops : exec[o] \notin Unfinished
  /\ cube' = [cube EXCEPT !.unsafe = TRUE]
  /\ UNCHANGED <<log, worker, projection, exec, result, interrupted, ran, admitted, fenced,
                 strays, replies>>

\* The machine is destroyed and forgotten: its unfinished operations end
\* unknown, its position and its quarantine go with it.
ForgetRuntime ==
  /\ Fault("destroy")
  /\ cube.present
  /\ cube' = [cube EXCEPT !.present = FALSE, !.position = 0, !.unsafe = FALSE]
  /\ exec' = [o \in Ops |-> IF exec[o] \in Unfinished THEN "finished" ELSE exec[o]]
  /\ result' = [o \in Ops |-> IF exec[o] \in Unfinished THEN "unknown" ELSE result[o]]
  /\ strays' = {}
  /\ UNCHANGED <<log, worker, projection, interrupted, ran, admitted, fenced, replies>>

\* Manager.Close: nothing more is admitted and what runs is cancelled.
CloseExecutor ==
  /\ Fault("close")
  /\ ~cube.closed /\ ~cube.replaced
  /\ cube' = [cube EXCEPT !.closed = TRUE]
  /\ UNCHANGED <<log, worker, projection, exec, result, interrupted, ran, admitted, fenced,
                 strays, replies>>

\* The executor's process restarts under a new BootID and remembers nothing;
\* what ran in the machine may still be running.
RestartExecutor ==
  /\ Fault("restart")
  /\ ~cube.replaced
  /\ cube' = [cube EXCEPT !.position = 0, !.unsafe = FALSE, !.closed = FALSE,
                          !.replaced = TRUE]
  /\ strays' = strays \cup {o \in Ops : exec[o] = "running"}
  /\ exec' = [o \in Ops |-> IF exec[o] \in Held THEN "gone" ELSE exec[o]]
  /\ UNCHANGED <<log, worker, projection, result, interrupted, ran, admitted, fenced,
                 replies>>

-----------------------------------------------------------------------------
WorkerStep ==
  \/ \E o \in Ops : Publish(o) \/ RequestAbort(o) \/ PublishCancel(o) \/ AbandonWait(o)
                      \/ Accept(o)
  \/ \E b \in Bindings : WorkerDies(b) \/ Retire(b) \/ Seal(b)

AssignmentStep ==
  \E p \in Projectors : Handover(p) \/ Notice(p) \/ Assign(p) \/ CrashProjector(p)
                          \/ Progress(p)

Delivery(p) ==
  \/ CommitEffect(p) \/ SkipDispatched(p) \/ Dispatch(p)
  \/ SubmitAnswered(p) \/ SubmitUnanswered(p)
  \/ SendCancel(p) \/ CancelAnswered(p) \/ CancelUnanswered(p)
  \/ ConsumeSeal(p)

ProjectorStep == \E p \in Projectors : Delivery(p) \/ CommitLost(p)

Admission == \E r \in rpcs : Submit(r) \/ Cancel(r)

ExecutorStep ==
  \/ Admission
  \/ \E r \in rpcs : LoseRpc(r)
  \/ \E o \in Ops : StartTool(o) \/ Unstarted(o) \/ Complete(o) \/ Fail(o) \/ Deliver(o)
  \/ RetireIdleRuntime \/ ForgetRuntime \/ CloseExecutor \/ RestartExecutor

Next == WorkerStep \/ AssignmentStep \/ ProjectorStep \/ ExecutorStep

Spec == Init /\ [][Next]_vars

\* What runs by itself: assignments settle, deliveries go on, requests arrive
\* or are lost, admitted commands start, results are delivered and read.
\* Nothing makes a Worker publish or a fault happen.
Progressing ==
  /\ \A p \in Projectors :
       WF_vars(Notice(p)) /\ WF_vars(Assign(p)) /\ WF_vars(Delivery(p))
  /\ WF_vars(Admission)
  /\ \A o \in Ops :
       WF_vars(StartTool(o) \/ Unstarted(o)) /\ WF_vars(Deliver(o)) /\ WF_vars(Accept(o))

\* Close cancels the processes and joins them.
Closing == \A o \in Ops : WF_vars(cube.closed /\ (Complete(o) \/ Fail(o)))

FairSpec == Spec /\ Progressing /\ Closing

-----------------------------------------------------------------------------
\* The machine admits commands in the order of the log, each at most once,
\* whatever an old Projector's delayed request, a redelivery or a restarted
\* executor brings (ADR-0219: advance, the boot check and ForgetRuntime).
AdmittedInLogOrder ==
  \A i, j \in DOMAIN admitted : i < j => admitted[i] < admitted[j]

\* What the Worker is told is true and stays true: a command answered
\* not_started never runs, an answered result is what its own execution ended
\* with.  The dispatcher, the executor and a closed route answer
\* independently, and a handed over command may still be on its way.
OutcomesAreHonest ==
  \A r \in replies :
    /\ r[2] = "not_started" => r[1] \notin ran
    /\ r[2] = "result" => r[1] \in ran /\ result[r[1]] = "result"

\* A command leaves a Projector once, in any assignment (commitBeforeEffect):
\* uncertain work is not handed off again.
HandedOffOnce ==
  [][\A p \in Projectors :
       proj[p].pc = "route" /\ proj'[p].pc = "submit" => RecordAt(p).id \notin handed]_vars

\* A cancellation the executor accepted also holds for what it has not seen:
\* a covered command that arrives later is not admitted (ADR-0221).
CancelFences ==
  [][\A o \in fenced : exec[o] = "none" => exec'[o] = "none"]_vars

\* A condemned machine (a process nobody could stop, an answer that did not come
\* or expiry; unsafeRuntimes) admits nothing, and neither does an executor that
\* restarted and forgot about it.  It stops being condemned only with the machine
\* or the executor itself.
QuarantineAdmitsNothing ==
  [][/\ admitted' # admitted => strays = {} /\ ~cube.unsafe /\ ~cube.replaced
     /\ cube.unsafe /\ ~cube'.unsafe => ~cube'.present \/ cube'.replaced]_vars

\* A tool that runs when its binding is retired is interrupted although the
\* Projector that carries the change crashes, loses the partition or the answer to
\* its commit, or one request is lost or slow (#cancel's second try, and the
\* offset that has not passed the change).  Bound: when both requests are lost the
\* code gives up and the tool runs to its own end; with MaxFaults = 1 one is.
RetiredToolsAreInterrupted ==
  \A o \in Ops :
    (stage[BindingOf[o]] = "retired" /\ exec[o] \in Unfinished)
      ~> (exec[o] \notin Unfinished \/ o \in interrupted)

\* As long as one Projector keeps the partition, a Worker that waits is answered
\* whatever happens to its machine, or its tool runs; the reply deadline is for
\* the rest.
EveryCommandIsAnswered ==
  [](group.joined /\ proj[group.owner].current /\ ~cube.replaced)
  => \A o \in Ops : Pending(o) ~> \/ ~Pending(o) \/ ~Alive(o) \/ exec[o] = "running"
                                  \/ <<o, "lost">> \in replies
=============================================================================
