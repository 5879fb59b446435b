------------------------- MODULE BindingRevocation -------------------------
(***************************************************************************)
(* One sandbox binding, from the row that registers it to the routing view *)
(* of the Session partition's owner. Every change of the row commits with  *)
(* an outbox row. Relays and the callers that made the change publish it   *)
(* through the partition's owner, which reads the row again (prepare)      *)
(* before the record enters the log, and applies it (consume) when the     *)
(* record comes back. Owners change by rebalance; a member that has not    *)
(* noticed goes on with its old assignment.                                *)
(***************************************************************************)
EXTENDS BindingView, FiniteSets, SequencesExt

CONSTANTS Instances,      \* Session runtimes: Projector and relay each
          Callers,        \* controllers and Projectors that change the binding
          Nobody,
          MaxRequests,    \* publications under way at once
          MaxGeneration,  \* generations of the consumer group
          MaxFaults

ASSUME BindingAssumption ==
    /\ MaxVersion \in Nat /\ MaxEntries \in Nat \ {0}
    /\ MaxGeneration \in Nat \ {0} /\ MaxFaults \in Nat
    /\ Instances \cap Callers = {} /\ Nobody \notin Instances \cup Callers

VARIABLES
    status,       \* sandbox_tool_bindings row; its revision is Len(outbox)
    outbox,       \* control_change rows of the binding, by version
    unpublished,  \* versions with published_at null, in the order of created_at
    requests,     \* publications under way
    caller,       \* calls that flush their changes
    generation, holder, log, delivered,     \* Kafka: group and partition
    assigned,     \* instance -> generation it holds the partition for, 0 none
    view, pos, consumer,                    \* memory of an instance
    faults

database == <<status, outbox, unpublished>>
delivery == <<requests, caller>>
broker == <<generation, holder, log, delivered>>
owners == <<assigned, view, pos, consumer>>
vars == <<database, delivery, broker, owners, faults>>

Publishers == Callers \cup Instances

Stages == {"sent", "read", "append", "acked"}

Request == [by : Publishers \cup {Nobody}, v : Versions, stage : Stages,
            at : Instances \cup {Nobody}, gen : 0..MaxGeneration,
            row : Row, entry : 0..MaxEntries]

\* claimant stands for the attempts counter: a relay never claims a row it is
\* delivering, so its claim is the last one as long as it is named here. A
\* published row is not claimed again, whatever its columns say.
OutboxRow == [closed : BOOLEAN, claimant : Instances \cup {Nobody}, due : BOOLEAN]
WithClaim(row, claimant, due) == [row EXCEPT !.claimant = claimant, !.due = due]

Caller == [call : {"none", "register", "close"},
           pc : {"idle", "select", "publish"}, todo : SUBSET Versions]
Idle == [call |-> "none", pc |-> "idle", todo |-> {}]
Calling(call) == [Idle EXCEPT !.call = call, !.pc = "select"]

Consumer == [stage : {"idle", "read"}, row : Row, entry : 0..MaxEntries]
IdleConsumer == [stage |-> "idle", row |-> Absent, entry |-> 0]

\* The next record an instance consumes names this version.
Next1(i) == log[pos[i] + 1]

TypeOK ==
    /\ status \in {"none", "open", "closed", "cancelled", "gone"}
    /\ outbox \in Seq(OutboxRow) /\ Len(outbox) <= MaxVersion
    /\ unpublished \in Seq(DOMAIN outbox) /\ IsInjective(unpublished)
    /\ requests \subseteq Request
    /\ caller \in [Callers -> Caller]
    /\ generation \in 1..MaxGeneration /\ holder \in Instances
    /\ log \in Seq(Versions) /\ delivered \in 0..Len(log)
    /\ assigned \in [Instances -> 0..generation]
    /\ view \in [Instances -> View]
    /\ pos \in [Instances -> 0..Len(log)]
    /\ consumer \in [Instances -> Consumer]
    /\ faults \in 0..MaxFaults

Init ==
    /\ status = "none" /\ outbox = <<>> /\ unpublished = <<>>
    /\ requests = {} /\ caller = [c \in Callers |-> Idle]
    /\ generation = 1 /\ holder \in Instances /\ log = <<>> /\ delivered = 0
    /\ assigned = [i \in Instances |-> 0]
    /\ view = [i \in Instances |-> EmptyView]
    /\ pos = [i \in Instances |-> 0]
    /\ consumer = [i \in Instances |-> IdleConsumer]
    /\ faults = 0

Fault == faults < MaxFaults /\ faults' = faults + 1

-----------------------------------------------------------------------------
(* Transactions on the binding. pi_cloud_binding_change gives every change  *)
(* a new revision and commits the control row with it. created_at is the   *)
(* start of the transaction, so a row may be dated before an older version. *)

Exists == status \notin {"none", "gone"}

CurrentRow ==
    IF Exists THEN [revision |-> Len(outbox), route |-> IF status = "open" THEN "open" ELSE "closed"]
    ELSE Absent

Change(new) ==
    /\ Len(outbox) < MaxVersion
    /\ status' = new
    /\ outbox' = Append(outbox, [closed |-> new # "open", claimant |-> Nobody, due |-> TRUE])
    /\ \E k \in 1..(Len(unpublished) + 1) :
         /\ ~(k = 1 /\ Contains(unpublished, 1))   \* later ones find the first row committed
         /\ unpublished' = InsertAt(unpublished, k, Len(outbox) + 1)

\* register inserts the row, then publishes.
Register(c) ==
    /\ caller[c].call = "none" /\ status = "none"
    /\ Change("open")
    /\ caller' = [caller EXCEPT ![c] = Calling("register")]
    /\ UNCHANGED <<requests, broker, owners, faults>>

\* adopt moves the row to another controller; the relay publishes it.
Adopt ==
    /\ Exists
    /\ Change(status)
    /\ UNCHANGED <<delivery, broker, owners, faults>>

\* Closing the allocation revokes its bindings; the relay publishes it.
RevokeAllocation ==
    /\ status = "open"
    /\ Change("closed")
    /\ UNCHANGED <<delivery, broker, owners, faults>>

Closed(cancelOutstanding) ==
    IF cancelOutstanding \/ status = "cancelled" THEN "cancelled" ELSE "closed"

\* closeBinding and closeWriter: the row is closed, or was; then they publish
\* what is not published yet. With the row gone there is nothing to do.
Close(c, cancelOutstanding) ==
    /\ Exists
    /\ caller[c].pc = "idle" /\ caller[c].call # "close"
    /\ IF status # Closed(cancelOutstanding)
         THEN Change(Closed(cancelOutstanding))
         ELSE UNCHANGED database
    /\ caller' = [caller EXCEPT ![c] = Calling("close")]
    /\ UNCHANGED <<requests, broker, owners, faults>>

\* The sandbox is confirmed absent: its rows go, closed or not.  release, which
\* deletes a closed row, does nothing else.
ReleaseAfterPhysicalAbsence ==
    /\ Exists
    /\ Change("gone")
    /\ UNCHANGED <<delivery, broker, owners, faults>>

-----------------------------------------------------------------------------
(* Publishers: the relays and the callers.                                   *)

Sending(by, v) ==
    [by |-> by, v |-> v, stage |-> "sent", at |-> Nobody, gen |-> 0, row |-> Absent, entry |-> 0]

Published(v) == v \in DOMAIN outbox /\ ~Contains(unpublished, v)

\* No unpublished row of the binding was created before this one.
HeadOfLine(v) == unpublished # <<>> /\ Head(unpublished) = v

\* A relay claims a row that is due and that it is not delivering already.
Claim(i, v) ==
    /\ Cardinality(requests) < MaxRequests
    /\ HeadOfLine(v) /\ outbox[v].due
    /\ ~ \E q \in requests : q.by = i /\ q.v = v
    /\ outbox' = [outbox EXCEPT ![v] = WithClaim(@, i, FALSE)]
    /\ requests' = requests \cup {Sending(i, v)}
    /\ UNCHANGED <<status, unpublished, caller, broker, owners, faults>>

\* Mutant: a claim has no deadline, only an answer gives the row back.
LapsesNever(v) == FALSE

\* A claim runs out once its relay is gone, or under a relay that is slow.
Lapses(v) ==
    /\ Contains(unpublished, v) /\ ~outbox[v].due
    /\ outbox' = [outbox EXCEPT ![v] = WithClaim(@, @.claimant, TRUE)]
    /\ UNCHANGED <<status, unpublished, delivery, broker, owners>>

Claimed(v) == \E q \in requests : q.by = outbox[v].claimant /\ q.v = v

ClaimLapses(v) == Lapses(v) /\ ~Claimed(v) /\ UNCHANGED faults
ClaimOvertaken(v) == Lapses(v) /\ Claimed(v) /\ Fault

\* Mutant: rows a relay has claimed are left to it.
PendingUnclaimed == {v \in ToSet(unpublished) : outbox[v].due}

\* What flushEntities selects; it returns when that is nothing.
Pending == ToSet(unpublished)

FlushSelect(c) ==
    /\ caller[c].pc = "select"
    /\ caller' = [caller EXCEPT ![c] =
                    [@ EXCEPT !.pc = IF Pending = {} THEN "idle" ELSE "publish", !.todo = Pending]]
    /\ UNCHANGED <<database, requests, broker, owners, faults>>

FlushSend(c) ==
    /\ caller[c].pc = "publish"
    /\ Cardinality(requests) < MaxRequests
    /\ ~ \E q \in requests : q.by = c
    /\ \E v \in caller[c].todo :
         /\ \A w \in caller[c].todo : v <= w
         /\ requests' = requests \cup {Sending(c, v)}
    /\ UNCHANGED <<database, caller, broker, owners, faults>>

Publish(v) ==
    /\ IF Contains(unpublished, v)
         THEN \E k \in DOMAIN unpublished :
                unpublished[k] = v /\ unpublished' = RemoveAt(unpublished, k)
         ELSE UNCHANGED unpublished
    /\ outbox' = [outbox EXCEPT ![v] = WithClaim(@, Nobody, TRUE)]

\* What a publisher makes of the answer. A relay that was overtaken by another
\* claim changes nothing; a failed call may be made again; nobody is left to
\* take an abandoned answer.
RelaySettles(q, receipt) ==
    /\ IF ~Contains(unpublished, q.v) \/ outbox[q.v].claimant # q.by
         THEN UNCHANGED <<outbox, unpublished>>
       ELSE IF receipt THEN Publish(q.v)
       ELSE outbox' = [outbox EXCEPT ![q.v] = WithClaim(@, @.claimant, TRUE)] /\ UNCHANGED unpublished
    /\ UNCHANGED caller

CallerSettles(q, receipt) ==
    LET left == caller[q.by].todo \ {q.v} IN
    /\ IF receipt THEN Publish(q.v) ELSE UNCHANGED <<outbox, unpublished>>
    /\ caller' = [caller EXCEPT ![q.by] =
                    IF ~receipt THEN Idle
                    ELSE [@ EXCEPT !.pc = IF left = {} THEN "select" ELSE "publish", !.todo = left]]

Settles(q, receipt) ==
    CASE q.by \in Instances -> RelaySettles(q, receipt)
      [] q.by \in Callers -> CallerSettles(q, receipt)
      [] q.by = Nobody -> UNCHANGED <<outbox, unpublished, caller>>

Advance(q, new) == requests' = (requests \ {q}) \cup {new}

Refused(q) == requests' = requests \ {q} /\ Settles(q, FALSE)

Confirmed(q) ==
    /\ q.stage = "acked"
    /\ requests' = requests \ {q} /\ Settles(q, TRUE)
    /\ UNCHANGED <<status, broker, owners, faults>>

\* The publisher times out, or a relay's process dies; the owner may still be
\* working on the publication.
Abandon(q) ==
    /\ q.by # Nobody /\ q.stage # "acked"
    /\ Fault
    /\ Advance(q, [q EXCEPT !.by = Nobody])
    /\ \/ Settles(q, FALSE)
       \/ q.by \in Instances /\ UNCHANGED <<outbox, unpublished, caller>>
    /\ UNCHANGED <<status, broker, owners>>

-----------------------------------------------------------------------------
(* Publication at the owner: publishControl, acceptControl, prepare, append. *)

\* The instance holds a publication partition and its view has recovered.
Accepting(i) == assigned[i] # 0 /\ view[i].ready

\* The owner's read, with the assignment and the entry it is for.
AtOwner(q, i, n) ==
    [by |-> q.by, v |-> q.v, stage |-> "read", at |-> i, gen |-> assigned[i],
     row |-> CurrentRow, entry |-> n]

\* Accepting the change, the owner finds its entry and reads the row.
Accept(q, i) ==
    /\ q.stage = "sent" /\ Accepting(i)
    /\ view' = [view EXCEPT ![i] = WithEntry(@)]
    /\ Advance(q, AtOwner(q, i, view'[i].slot))
    /\ UNCHANGED <<database, caller, broker, assigned, pos, consumer, faults>>

\* Nobody owns the partition at the moment.
Reject(q) ==
    /\ q.stage = "sent" /\ \A i \in Instances : ~Accepting(i)
    /\ Refused(q)
    /\ UNCHANGED <<status, broker, owners, faults>>

\* The assignment under which the row was read still holds in this process.
Current(q) == assigned[q.at] = q.gen

\* The record may be appended; the read is over.
Appending(q) == [q EXCEPT !.stage = "append", !.row = Absent, !.entry = 0]

\* prepare installs a closure, and nothing but a closure, before the append.
Prepare(q) ==
    /\ q.stage = "read"
    /\ Current(q) /\ ~RowBehind(q.row, q.v)
    /\ view' = IF q.row.route = "open" THEN view
               ELSE [view EXCEPT ![q.at] = Apply(@, q.entry, q.row, ReadVersion(q.row, q.v))]
    /\ Advance(q, Appending(q))
    /\ UNCHANGED <<database, caller, broker, assigned, pos, consumer, faults>>

\* The assignment ended during the read.
PrepareRefused(q) ==
    /\ q.stage = "read"
    /\ ~Current(q) \/ RowBehind(q.row, q.v)
    /\ Refused(q)
    /\ UNCHANGED <<status, broker, owners, faults>>

\* An owner that has lost the partition says so; the client looks for the new
\* one until its deadline.
Rerouted(q) ==
    /\ q.stage \in {"read", "append"} /\ q.by # Nobody
    /\ ~Current(q)
    /\ Advance(q, Sending(q.by, q.v))
    /\ UNCHANGED <<database, caller, broker, owners, faults>>

\* Mutant: the publication is not coupled to the consumer group.
FencedLocally(q) == ~Current(q)

\* The group transaction commits only for the current generation.
Fenced(q) == q.gen # generation

AppendRecord(q) ==
    /\ q.stage = "append" /\ ~Fenced(q)
    /\ log' = Append(log, q.v)
    /\ Advance(q, [q EXCEPT !.stage = "acked"])
    /\ UNCHANGED <<database, caller, generation, holder, delivered, owners, faults>>

AppendFenced(q) ==
    /\ q.stage = "append" /\ Fenced(q)
    /\ Refused(q)
    /\ UNCHANGED <<status, broker, owners, faults>>

\* The record is in the log, and its publisher is told that it is not.
AppendInDoubt(q) ==
    /\ q.stage = "append" /\ ~Fenced(q)
    /\ Fault
    /\ log' = Append(log, q.v)
    /\ Refused(q)
    /\ UNCHANGED <<status, generation, holder, delivered, owners>>

-----------------------------------------------------------------------------
(* Group membership and the view's life on an instance.                      *)

\* The member the group takes the partition's publications from.
Owner(i) == assigned[i] = generation /\ view[i].ready

Rebalance(i) ==
    /\ generation < MaxGeneration
    /\ generation' = generation + 1 /\ holder' = i
    /\ UNCHANGED <<database, delivery, log, delivered, owners, faults>>

Forgets(i, gen, from) ==
    /\ assigned' = [assigned EXCEPT ![i] = gen]
    /\ view' = [view EXCEPT ![i] = EmptyView]
    /\ pos' = [pos EXCEPT ![i] = from]
    /\ consumer' = [consumer EXCEPT ![i] = IdleConsumer]

\* A member learns that its assignment is over.
Revoked(i) ==
    /\ assigned[i] \notin {0, generation}
    /\ Forgets(i, 0, 0)
    /\ UNCHANGED <<database, delivery, broker, faults>>

\* Mutant: a new assignment starts at the end of the log.
AssignLatest(i) ==
    /\ holder = i /\ assigned[i] # generation
    /\ Forgets(i, generation, Len(log))
    /\ UNCHANGED <<database, delivery, broker, faults>>

\* A member is assigned the partition. The group's offset is committed now and
\* then: it is some position the group has been through.
Assign(i) ==
    /\ holder = i /\ assigned[i] # generation
    /\ \E p \in 0..delivered : Forgets(i, generation, p)
    /\ UNCHANGED <<database, delivery, broker, faults>>

\* Then it loads the view.
Load(i) ==
    /\ assigned[i] # 0 /\ ~view[i].ready
    /\ LET loaded == [view[i] EXCEPT !.ready = TRUE] IN
       view' = [view EXCEPT ![i] =
                  IF Exists THEN Apply(WithEntry(loaded), 1, CurrentRow, CurrentRow.revision)
                  ELSE loaded]
    /\ UNCHANGED <<database, delivery, broker, assigned, pos, consumer, faults>>

\* Reads under way that hold an entry.
Reading(i, n) ==
    \/ \E q \in requests : q.stage = "read" /\ q.at = i /\ Current(q) /\ q.entry = n
    \/ consumer[i].stage = "read" /\ consumer[i].entry = n

\* Mutant: readers do not protect an entry.
DisposableUnread(i, n) == view[i].entries[n].row.route = "absent"

\* The view is full and another binding takes the place of this one.
Disposable(i, n) == view[i].entries[n].row.route = "absent" /\ ~Reading(i, n)

Evict(i) ==
    /\ view[i].ready /\ view[i].slot # 0 /\ Len(view[i].entries) < MaxEntries
    /\ Disposable(i, view[i].slot)
    /\ view' = [view EXCEPT ![i].slot = 0]
    /\ UNCHANGED <<database, delivery, broker, assigned, pos, consumer, faults>>

-----------------------------------------------------------------------------
(* The Projector's handler of a control_change record: consume, then, for a  *)
(* closing change, the effect closure() admits. A member that has lost the   *)
(* partition may go on reading; that changes only the view it will discard.  *)

Deliverable(i) == Owner(i) /\ pos[i] < Len(log)

Processed(i) ==
    /\ outbox[Next1(i)].closed => ~ClosureBehind(view'[i], Next1(i))
    /\ pos' = [pos EXCEPT ![i] = @ + 1]
    /\ delivered' = IF pos'[i] > delivered THEN pos'[i] ELSE delivered
    /\ consumer' = [consumer EXCEPT ![i] = IdleConsumer]

Known(i) == view[i].slot # 0 /\ Next1(i) <= view[i].entries[view[i].slot].version

\* A version the entry has is skipped.
ConsumeKnown(i) ==
    /\ Deliverable(i) /\ consumer[i].stage = "idle" /\ Known(i)
    /\ UNCHANGED view
    /\ Processed(i)
    /\ UNCHANGED <<database, delivery, generation, holder, log, assigned, faults>>

ConsumeRead(i) ==
    /\ Deliverable(i) /\ consumer[i].stage = "idle" /\ ~Known(i)
    /\ view' = [view EXCEPT ![i] = WithEntry(@)]
    /\ consumer' = [consumer EXCEPT ![i] =
                      [stage |-> "read", row |-> CurrentRow, entry |-> view'[i].slot]]
    /\ UNCHANGED <<database, delivery, broker, assigned, pos, faults>>

Consumed(i) ==
    LET row == consumer[i].row IN
    Apply(view[i], consumer[i].entry, row, ReadVersion(row, Next1(i)))

ConsumeApply(i) ==
    /\ Deliverable(i) /\ consumer[i].stage = "read"
    /\ ~RowBehind(consumer[i].row, Next1(i))
    /\ view' = [view EXCEPT ![i] = Consumed(i)]
    /\ Processed(i)
    /\ UNCHANGED <<database, delivery, generation, holder, log, assigned, faults>>

-----------------------------------------------------------------------------
Transactions ==
    \/ \E c \in Callers :
         Register(c) \/ \E cancelOutstanding \in BOOLEAN : Close(c, cancelOutstanding)
    \/ Adopt \/ RevokeAllocation
    \/ ReleaseAfterPhysicalAbsence

Publication ==
    \/ \E i \in Instances, v \in Versions : Claim(i, v)
    \/ \E v \in Versions : ClaimLapses(v) \/ ClaimOvertaken(v)
    \/ \E c \in Callers : FlushSelect(c) \/ FlushSend(c)
    \/ \E q \in requests :
         \/ \E i \in Instances : Accept(q, i)
         \/ Reject(q) \/ Prepare(q) \/ PrepareRefused(q) \/ Rerouted(q)
         \/ AppendRecord(q) \/ AppendFenced(q) \/ AppendInDoubt(q)
         \/ Confirmed(q) \/ Abandon(q)

Ownership ==
    \E i \in Instances :
        \/ Rebalance(i) \/ Revoked(i) \/ Assign(i) \/ Load(i) \/ Evict(i)
        \/ ConsumeKnown(i) \/ ConsumeRead(i) \/ ConsumeApply(i)

Next == Transactions \/ Publication \/ Ownership

Spec == Init /\ [][Next]_vars

\* A publication goes on, whoever waits for it.
Proceeds(v, p) ==
    \E q \in requests :
        /\ q.v = v /\ q.by = p
        /\ \/ Reject(q) \/ Prepare(q) \/ PrepareRefused(q)
           \/ AppendRecord(q) \/ AppendFenced(q) \/ Confirmed(q)
           \/ \E i \in Instances : Accept(q, i)

(***************************************************************************)
(* Relays, callers, owners and the group go on by themselves: polling      *)
(* loops, awaited calls with a timeout, callbacks. Nobody is obliged to    *)
(* change the binding, to rebalance or to fail.                            *)
(***************************************************************************)
Fairness ==
    /\ \A v \in Versions : WF_vars(\E i \in Instances : Claim(i, v))
    /\ \A v \in Versions : WF_vars(ClaimLapses(v))
    /\ \A c \in Callers : WF_vars(FlushSelect(c)) /\ WF_vars(FlushSend(c))
    /\ \A v \in Versions, p \in Publishers \cup {Nobody} : WF_vars(Proceeds(v, p))
    /\ \A i \in Instances :
         /\ WF_vars(Revoked(i)) /\ WF_vars(Assign(i)) /\ WF_vars(Load(i))
         /\ WF_vars(ConsumeKnown(i)) /\ WF_vars(ConsumeRead(i)) /\ WF_vars(ConsumeApply(i))

FairSpec == Spec /\ Fairness

-----------------------------------------------------------------------------
(* Properties.                                                               *)

\* Once a closing change counts as published, the partition's owner hands
\* out no open route to the binding, whoever owns it by then, whatever late
\* reads are under way and whichever of several publications confirmed it.
RevocationInstalled ==
    \A v \in DOMAIN outbox :
        outbox[v].closed /\ Published(v) =>
            \A i \in Instances : Owner(i) => ~Routes(view[i])

\* closeBinding or closeWriter returns without an error only after revocation
\* is installed at the owner, though other publishers compete for its rows:
\* the writer's seal may follow.
CloseConfirmed ==
    \A c \in Callers :
        caller[c].call = "close" /\ caller[c].pc = "idle" => \A i \in Instances : Owner(i) => ~Routes(view[i])

\* A view that has seen the binding closed or gone never hands out its route
\* again, neither by get nor by binding: not through a read that began
\* before, an old notification, or an entry that was forgotten meanwhile.
RevokedForGood ==
    \A i \in Instances : SawClosure(view[i]) => ~Routes(view[i])

\* Every committed change is published in the end: when its row was created after
\* that of a later change, when a relay overtakes another one's claim or the call
\* that flushes, and when the partition changes hands meanwhile.
ChangesPublished ==
    \A v \in Versions : v \in DOMAIN outbox ~> Published(v)

\* Every record is consumed in the end, closing effects included: the group
\* goes on past it.
ChangesConsumed ==
    \A n \in 1..MaxVersion : Len(log) >= n ~> delivered >= n

=============================================================================
