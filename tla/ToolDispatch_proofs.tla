------------------------- MODULE ToolDispatch_proofs -------------------------
(***************************************************************************)
(* Tool dispatch for any number of operations, bindings and Projectors and *)
(* any faults.  Each property has a part of its own; all rest on the types *)
(* and on where a record's parties stand.                                  *)
(***************************************************************************)
EXTENDS ToolDispatch, FiniteSetTheorems, TLAPS

IsCommand(i, o) == log[i].kind = "command" /\ log[i].id = o

\* A handler and a request refer to a record of their kind; what ended has an
\* outcome.
Located ==
    /\ \A p \in Projectors : proj[p].pc \in {"route", "submit"} => At(p, {"command"})
    /\ \A p \in Projectors : proj[p].pc = "cancel" => At(p, {"cancel", "retire"})
    /\ \A r \in rpcs : r.at \in DOMAIN log /\ log[r.at] = [kind |-> r.kind, id |-> r.id]
    /\ \A o \in Ops : exec[o] = "finished" => result[o] \in Outcome

Grounded == TypeOK /\ Located

\* The log only grows.
Extended ==
    /\ log' \in Seq(Record)
    /\ Len(log) <= Len(log')
    /\ \A i \in DOMAIN log : i \in DOMAIN log' /\ log'[i] = log[i]

-----------------------------------------------------------------------------
(* The log.                                                                  *)

\* An append leaves what the log holds in place.
LEMMA AppendExtends ==
    ASSUME log \in Seq(Record), NEW r \in Record, log' = Append(log, r)
    PROVE  /\ Extended
           /\ Len(log') = Len(log) + 1
           /\ log'[Len(log) + 1] = r
           /\ DOMAIN log' = DOMAIN log \cup {Len(log) + 1}
  BY DEF Extended

\* So does a step that leaves the log alone.
LEMMA SameExtends ==
    ASSUME log \in Seq(Record), log' = log
    PROVE  Extended
  BY DEF Extended

\* The three kinds of record the actions append.
LEMMA RecordKinds ==
    /\ \A o \in Ops : /\ [kind |-> "command", id |-> o] \in Record
                      /\ [kind |-> "cancel", id |-> o] \in Record
    /\ \A b \in Bindings : /\ [kind |-> "retire", id |-> b] \in Record
                           /\ [kind |-> "seal", id |-> b] \in Record
    /\ \A r \in Record :
         /\ r.kind \in {"command", "cancel", "retire", "seal"}
         /\ r.kind \in {"command", "cancel"} => r.id \in Ops
         /\ r.kind \in {"retire", "seal"} => r.id \in Bindings
         /\ r = [kind |-> r.kind, id |-> r.id]
  BY DEF Record

\* SetToSeq of the closures of a set of bindings.
LEMMA ClosuresInSequence ==
    ASSUME NEW open \in SUBSET Bindings
    PROVE  SetToSeq([kind : {"retire"}, id : open]) \in Seq([kind : {"retire"}, id : open])
  <1> DEFINE S == [kind : {"retire"}, id : open]
  <1>1. IsFiniteSet(Bindings)
    BY OpsAssumption, FS_Interval DEF Bindings
  <1>2. IsFiniteSet(open)
    BY <1>1, FS_Subset
  <1>3. PICK n \in Nat : ExistsBijection(1..n, open)
    BY <1>2, FS_NatBijection
  <1>4. PICK f \in Bijection(1..n, open) : TRUE
    BY <1>3 DEF ExistsBijection
  <1> DEFINE g == [i \in 1..n |-> [kind |-> "retire", id |-> f[i]]]
  <1>5. f \in [1..n -> open] /\ (\A i, j \in 1..n : f[i] = f[j] => i = j)
        /\ (\A b \in open : \E i \in 1..n : f[i] = b)
    BY <1>4 DEF Bijection, Injection, Surjection, IsInjective
  <1>6. g \in Bijection(1..n, S)
    <2>1. g \in [1..n -> S]
      BY <1>5
    <2>2. \A i, j \in 1..n : g[i] = g[j] => i = j
      BY <1>5
    <2>3. \A r \in S : \E i \in 1..n : g[i] = r
      <3> SUFFICES ASSUME NEW r \in S PROVE \E i \in 1..n : g[i] = r
        OBVIOUS
      <3>1. r.id \in open /\ r = [kind |-> "retire", id |-> r.id]
        OBVIOUS
      <3>2. PICK i \in 1..n : f[i] = r.id
        BY <1>5, <3>1
      <3> QED BY <3>1, <3>2
    <2>4. g \in Injection(1..n, S)
      BY <2>1, <2>2 DEF Injection, IsInjective
    <2>5. g \in Surjection(1..n, S)
      BY <2>1, <2>3 DEF Surjection
    <2> QED BY <2>4, <2>5 DEF Bijection
  <1>7. Cardinality(S) = n
    <2>1. ExistsBijection(1..n, S)
      BY <1>6 DEF ExistsBijection
    <2> QED BY <2>1, FS_CountingElements
  <1>8. g \in [1..Cardinality(S) -> S] /\ IsInjective(g)
    BY <1>6, <1>7 DEF Bijection, Injection
  <1>9. SetToSeq(S) \in [1..Cardinality(S) -> S]
    BY <1>8 DEF SetToSeq
  <1> HIDE DEF S
  <1>10. SetToSeq(S) \in Seq(S)
    BY <1>7, <1>9
  <1> QED BY <1>10 DEF S

\* What a quarantine appends.
LEMMA QuarantineExtends ==
    ASSUME log \in Seq(Record), Quarantine
    PROVE  /\ Extended
           /\ \A i \in DOMAIN log' : i \notin DOMAIN log =>
                log'[i].kind = "retire" /\ log'[i].id \in Bindings
  <1> DEFINE open == {b \in Bindings : stage[b] = "live"}
             closures == SetToSeq([kind : {"retire"}, id : open])
  <1>1. closures \in Seq([kind : {"retire"}, id : open])
    BY ClosuresInSequence
  <1>2. closures \in Seq(Record)
    <2> DEFINE S == [kind : {"retire"}, id : open]
    <2>1. S \subseteq Record
      BY DEF Record
    <2> HIDE DEF S, closures
    <2>2. closures \in Seq(S)
      BY <1>1 DEF S
    <2> QED BY <2>1, <2>2
  <1>3. log' = log \o closures
    BY DEF Quarantine
  <1> HIDE DEF closures
  <1>4. Extended
    BY <1>2, <1>3 DEF Extended
  <1>5. ASSUME NEW i \in DOMAIN log', i \notin DOMAIN log
        PROVE  log'[i].kind = "retire" /\ log'[i].id \in Bindings
    <2>1. i - Len(log) \in DOMAIN closures /\ log'[i] = closures[i - Len(log)]
      BY <1>2, <1>3, <1>5
    <2> DEFINE S == [kind : {"retire"}, id : open]
    <2>2. closures[i - Len(log)] \in S
      <3> HIDE DEF S
      <3>1. closures \in Seq(S)
        BY <1>1 DEF S
      <3> QED BY <3>1, <2>1
    <2> QED BY <2>1, <2>2
  <1> QED BY <1>4, <1>5
-----------------------------------------------------------------------------
(* Type correctness and Located.                                             *)

\* What has its type for a log has it for a longer one.
LEMMA RowsGrow ==
    ASSUME NEW m \in Nat, NEW n \in Nat, m <= n
    PROVE  /\ Group(m) \subseteq Group(n)
           /\ Member(m) \subseteq Member(n)
           /\ Machine(m) \subseteq Machine(n)
           /\ Seq(1..m) \subseteq Seq(1..n)
  <1>1. 0..m \subseteq 0..n
    OBVIOUS
  <1>2. \A s \in Seq(1..m) : s \in Seq(1..n)
    OBVIOUS
  <1>3. \A q \in Member(m) : q \in Member(n)
    BY <1>1 DEF Member
  <1>4. \A q \in Group(m) : q \in Group(n)
    BY <1>1 DEF Group
  <1>5. \A q \in Machine(m) : q \in Machine(n)
    BY <1>1 DEF Machine
  <1> QED BY <1>2, <1>3, <1>4, <1>5

\* What holds of a state holds for the longer log.
LEMMA LongerLog ==
    ASSUME TypeOK, Extended
    PROVE  /\ group \in Group(Len(log'))
           /\ proj \in [Projectors -> Member(Len(log'))]
           /\ cube \in Machine(Len(log'))
           /\ admitted \in Seq(1..Len(log'))
           /\ log' \in Seq(Record)
  <1>1. Len(log) \in Nat /\ Len(log') \in Nat /\ Len(log) <= Len(log')
    BY DEF TypeOK, Extended
  <1>2. /\ Group(Len(log)) \subseteq Group(Len(log'))
        /\ Member(Len(log)) \subseteq Member(Len(log'))
        /\ Machine(Len(log)) \subseteq Machine(Len(log'))
        /\ Seq(1..Len(log)) \subseteq Seq(1..Len(log'))
    BY <1>1, RowsGrow
  <1>3. proj \in [Projectors -> Member(Len(log'))]
    BY <1>2 DEF TypeOK
  <1> QED BY <1>2, <1>3 DEF TypeOK, Extended

\* A Projector without the partition has its type.
LEMMA UnassignedType ==
    ASSUME NEW n \in Nat
    PROVE  Unassigned \in Member(n)
  BY DEF Unassigned, Member, Answer

\* So does one that goes on to the next record.
LEMMA AdvancedType ==
    ASSUME NEW n \in Nat, NEW q \in Member(n), q.cursor < n
    PROVE  Advanced(q) \in Member(n)
  <1>1. q.cursor + 1 \in 0..n /\ 0 \in 0..2 /\ "none" \in Answer
    BY DEF Answer, Member
  <1>2. [q EXCEPT !.pc = "idle", !.tries = 0, !.answer = "none", !.cursor = @ + 1] \in Member(n)
    BY <1>1 DEF Member
  <1> QED BY <1>2, UnassignedType DEF Advanced

\* So does one that goes on behind a retirement.
LEMMA ClosedType ==
    ASSUME NEW n \in Nat, NEW q \in Member(n), q.cursor < n, NEW b \in Bindings
    PROVE  [Advanced(q) EXCEPT !.closed = @ \cup {b}] \in Member(n)
  <1> DEFINE a == Advanced(q)
  <1>1. a \in Member(n)
    BY AdvancedType
  <1> HIDE DEF a
  <1>2. a.closed \cup {b} \in SUBSET Bindings
    BY <1>1 DEF Member
  <1>3. [a EXCEPT !.closed = @ \cup {b}] \in Member(n)
    BY <1>1, <1>2 DEF Member
  <1> QED BY <1>3 DEF a

\* The moves of a record's handler keep its type.
LEMMA HandlerMoves ==
    ASSUME NEW n \in Nat, NEW q \in Member(n)
    PROVE  /\ \A s \in 0..n : [q EXCEPT !.seen = s, !.pc = "route"] \in Member(n)
           /\ [q EXCEPT !.pc = "submit"] \in Member(n)
           /\ [q EXCEPT !.tries = 2, !.answer = "none"] \in Member(n)
           /\ \A c \in SUBSET Bindings :
                [q EXCEPT !.pc = "cancel", !.tries = 1, !.closed = c] \in Member(n)
  <1>1. 1 \in 0..2 /\ 2 \in 0..2
    OBVIOUS
  <1> QED BY <1>1 DEF Member, Answer

\* The moves of a Worker's call keep its type.
LEMMA CallMoves ==
    ASSUME TypeOK, NEW o \in Ops
    PROVE  /\ [call[o] EXCEPT !.published = TRUE] \in CallRow
           /\ [call[o] EXCEPT !.aborted = TRUE] \in CallRow
           /\ [call[o] EXCEPT !.cancelled = TRUE] \in CallRow
  <1>1. call[o] \in CallRow
    BY DEF TypeOK
  <1> QED BY <1>1 DEF CallRow

\* Steps of the Worker keep the types and the log.
LEMMA WorkerTypes ==
    ASSUME TypeOK, WorkerStep
    PROVE  TypeOK' /\ Extended
  <1>1. ASSUME NEW o \in Ops, Publish(o) PROVE TypeOK' /\ Extended
    <2>1. Extended
      BY <1>1, AppendExtends, RecordKinds DEF Publish, TypeOK
    <2>2. call' \in [Ops -> CallRow]
      BY <1>1, CallMoves DEF Publish, TypeOK
    <2> QED BY <1>1, <2>1, <2>2, LongerLog DEF Publish, TypeOK, projection, executor
  <1>2. ASSUME NEW o \in Ops, RequestAbort(o) PROVE TypeOK' /\ Extended
    <2>1. call' \in [Ops -> CallRow]
      BY <1>2, CallMoves DEF RequestAbort, TypeOK
    <2>2. faults' \in 0..MaxFaults
      BY <1>2, BoundsAssumption DEF RequestAbort, Fault, TypeOK
    <2> QED BY <1>2, <2>1, <2>2, SameExtends DEF RequestAbort, TypeOK, projection, executor
  <1>3. ASSUME NEW o \in Ops, PublishCancel(o) PROVE TypeOK' /\ Extended
    <2>1. Extended
      BY <1>3, AppendExtends, RecordKinds DEF PublishCancel, TypeOK
    <2>2. call' \in [Ops -> CallRow]
      BY <1>3, CallMoves DEF PublishCancel, TypeOK
    <2> QED BY <1>3, <2>1, <2>2, LongerLog DEF PublishCancel, TypeOK, projection, executor
  <1>4. ASSUME NEW o \in Ops, AbandonWait(o) PROVE TypeOK' /\ Extended
    <2>1. call' \in [Ops -> CallRow]
      BY <1>4 DEF AbandonWait, TypeOK, CallRow, Outcome
    <2>2. faults' \in 0..MaxFaults
      BY <1>4, BoundsAssumption DEF AbandonWait, Fault, TypeOK
    <2> QED BY <1>4, <2>1, <2>2, SameExtends DEF AbandonWait, TypeOK, projection, executor
  <1>5. ASSUME NEW o \in Ops, Accept(o) PROVE TypeOK' /\ Extended
    <2>1. call' \in [Ops -> CallRow]
      BY <1>5 DEF Accept, TypeOK, CallRow
    <2> QED BY <1>5, <2>1, SameExtends, SMTT(30) DEF Accept, TypeOK, projection, executor
  <1>6. ASSUME NEW b \in Bindings, WorkerDies(b) PROVE TypeOK' /\ Extended
    <2>1. faults' \in 0..MaxFaults
      BY <1>6, BoundsAssumption DEF WorkerDies, Fault, TypeOK
    <2> QED BY <1>6, <2>1, SameExtends DEF WorkerDies, TypeOK, projection, executor
  <1>7. ASSUME NEW b \in Bindings, Retire(b) PROVE TypeOK' /\ Extended
    <2>1. Extended
      BY <1>7, AppendExtends, RecordKinds DEF Retire, TypeOK
    <2>2. faults' \in 0..MaxFaults
      BY <1>7, BoundsAssumption DEF Retire, Fault, TypeOK
    <2>3. stage' \in [Bindings -> {"future", "live", "retired", "sealed"}]
      BY <1>7 DEF Retire, TypeOK
    <2> QED BY <1>7, <2>1, <2>2, <2>3, LongerLog DEF Retire, TypeOK, executor
  <1>8. ASSUME NEW b \in Bindings, Seal(b) PROVE TypeOK' /\ Extended
    <2>1. Extended
      BY <1>8, AppendExtends, RecordKinds DEF Seal, TypeOK
    <2>2. stage' \in [Bindings -> {"future", "live", "retired", "sealed"}]
      BY <1>8 DEF Seal, TypeOK
    <2> QED BY <1>8, <2>1, <2>2, LongerLog DEF Seal, TypeOK, projection, executor
  <1> QED BY <1>1, <1>2, <1>3, <1>4, <1>5, <1>6, <1>7, <1>8 DEF WorkerStep

\* What a step of the group or of a Projector leaves alone.
LEMMA AssignmentTypes ==
    ASSUME TypeOK, AssignmentStep
    PROVE  TypeOK' /\ Extended
  <1> DEFINE n == Len(log)
  <1>0. n \in Nat /\ group \in Group(n) /\ proj \in [Projectors -> Member(n)]
        /\ group.offset \in 0..n /\ 0 \in 0..n
    BY DEF TypeOK, Group
  <1>1. ASSUME NEW p \in Projectors, Handover(p) PROVE TypeOK' /\ Extended
    <2>1. group' \in Group(n)
      BY <1>0, <1>1 DEF Handover, Group
    <2>2. faults' \in 0..MaxFaults
      BY <1>1, BoundsAssumption DEF Handover, Fault, TypeOK
    <2> QED BY <1>1, <2>1, <2>2, SameExtends DEF Handover, TypeOK, worker, executor
  <1>2. ASSUME NEW p \in Projectors, Notice(p) PROVE TypeOK' /\ Extended
    <2>1. [proj[p] EXCEPT !.current = FALSE] \in Member(n)
      BY <1>0 DEF Member
    <2>2. proj' \in [Projectors -> Member(n)]
      BY <1>0, <1>2, <2>1, UnassignedType DEF Notice
    <2> QED BY <1>2, <2>2, SameExtends DEF Notice, TypeOK, worker, executor
  <1>3. ASSUME NEW p \in Projectors, Assign(p) PROVE TypeOK' /\ Extended
    <2>1. group' \in Group(n)
      BY <1>0, <1>3 DEF Assign, Group
    <2>2. \A floor \in {0, group.offset} :
            [Unassigned EXCEPT !.current = TRUE, !.cursor = floor, !.seen = group.offset,
                               !.closed = routeClosed] \in Member(n)
      <3>1. routeClosed \in SUBSET Bindings
        BY DEF TypeOK
      <3> QED BY <1>0, <3>1, UnassignedType DEF Member
    <2>3. proj' \in [Projectors -> Member(n)]
      BY <1>0, <1>3, <2>2 DEF Assign
    <2> QED BY <1>3, <2>1, <2>3, SameExtends DEF Assign, TypeOK, worker, executor
  <1>4. ASSUME NEW p \in Projectors, CrashProjector(p) PROVE TypeOK' /\ Extended
    <2>1. group' \in Group(n)
      BY <1>0, <1>4 DEF CrashProjector, Group
    <2>2. proj' \in [Projectors -> Member(n)]
      BY <1>0, <1>4, UnassignedType DEF CrashProjector
    <2>3. faults' \in 0..MaxFaults
      BY <1>4, BoundsAssumption DEF CrashProjector, Fault, TypeOK
    <2> QED BY <1>4, <2>1, <2>2, <2>3, SameExtends DEF CrashProjector, TypeOK, worker, executor
  <1>5. ASSUME NEW p \in Projectors, Progress(p) PROVE TypeOK' /\ Extended
    <2>1. proj[p].cursor \in 0..n
      BY <1>0 DEF Member
    <2>2. group' \in Group(n)
      BY <1>0, <1>5, <2>1 DEF Progress, Group
    <2>3. [proj[p] EXCEPT !.seen = proj[p].cursor] \in Member(n)
      BY <1>0, <2>1 DEF Member
    <2>4. proj' \in [Projectors -> Member(n)]
      BY <1>0, <1>5, <2>3 DEF Progress
    <2> QED BY <1>5, <2>2, <2>4, SameExtends DEF Progress, TypeOK, worker, executor
  <1> QED BY <1>1, <1>2, <1>3, <1>4, <1>5 DEF AssignmentStep

\* Settling a record keeps the types and the log.
LEMMA SettleTypes ==
    ASSUME Grounded, NEW p \in Projectors, NEW answer \in Answer,
           proj[p].pc = "submit", Settle(p, answer)
    PROVE  TypeOK' /\ Extended
  <1> DEFINE n == Len(log)
  <1>0. n \in Nat /\ proj \in [Projectors -> Member(n)] /\ TypeOK
    BY DEF Grounded, TypeOK
  <1>1. proj[p].cursor < n /\ RecordAt(p).id \in Ops
    <2>1. At(p, {"command"})
      BY DEF Grounded, Located
    <2>2. proj[p].cursor \in 0..n
      BY <1>0 DEF Member
    <2>3. log[Position(p)] \in Record
      BY <1>0, <2>1, <2>2 DEF At, Position, TypeOK
    <2> QED BY <2>1, <2>2, <2>3, RecordKinds DEF At, Position, RecordAt
  <1>2. proj' \in [Projectors -> Member(n)]
    BY <1>0, <1>1, AdvancedType DEF Settle
  <1>3. faults' \in 0..MaxFaults /\ replies' \subseteq Ops \X (Outcome \cup {"lost"})
    <2>1. Effect(answer) \in Outcome
      BY DEF Effect, Outcome
    <2>2. <<RecordAt(p).id, Effect(answer)>> \in Ops \X Outcome
      BY <1>1, <2>1
    <2> QED BY <1>0, <2>2, BoundsAssumption DEF Settle, Reply, Fault, TypeOK
  <1>4. Extended
    BY <1>0, QuarantineExtends, SameExtends DEF Settle, TypeOK
  <1>5. /\ stage' \in [Bindings -> {"future", "live", "retired", "sealed"}]
        /\ routeClosed' \subseteq Bindings
    BY <1>0 DEF Settle, Quarantine, TypeOK
  <1>6. /\ group \in Group(Len(log')) /\ cube \in Machine(Len(log'))
        /\ admitted \in Seq(1..Len(log')) /\ log' \in Seq(Record)
    BY <1>0, <1>4, LongerLog
  <1>7. proj' \in [Projectors -> Member(Len(log'))]
    <2>1. Len(log') \in Nat /\ n <= Len(log')
      BY <1>4 DEF Extended
    <2>2. Member(n) \subseteq Member(Len(log'))
      BY <1>0, <2>1, RowsGrow
    <2> QED BY <1>2, <2>2
  <1> QED BY <1>0, <1>3, <1>4, <1>5, <1>6, <1>7 DEF Settle, TypeOK, executor

\* A Projector at a record of one of the kinds.
LEMMA RecordRead ==
    ASSUME TypeOK, NEW p \in Projectors,
           NEW kinds \in SUBSET {"command", "cancel", "retire", "seal"}, At(p, kinds)
    PROVE  /\ Len(log) \in Nat /\ proj[p] \in Member(Len(log))
           /\ proj[p].cursor \in Nat /\ proj[p].cursor < Len(log)
           /\ Position(p) \in DOMAIN log /\ Position(p) \in 0..Len(log)
           /\ RecordAt(p) \in Record /\ RecordAt(p).kind \in kinds
           /\ RecordAt(p).kind \in {"command", "cancel"} => RecordAt(p).id \in Ops
           /\ RecordAt(p).kind \in {"retire", "seal"} => RecordAt(p).id \in Bindings
  <1>1. Len(log) \in Nat /\ proj[p] \in Member(Len(log))
    BY DEF TypeOK
  <1>2. proj[p].cursor \in 0..Len(log)
    BY <1>1 DEF Member
  <1>3. Position(p) \in DOMAIN log /\ Position(p) \in 0..Len(log)
    BY <1>1, <1>2 DEF At, Position, TypeOK
  <1>4. RecordAt(p) \in Record
    BY <1>3 DEF RecordAt, TypeOK
  <1> QED BY <1>1, <1>2, <1>3, <1>4, RecordKinds DEF At, Position, RecordAt

\* Steps of a Projector keep the types and the log.
LEMMA DeliveryTypes ==
    ASSUME Grounded, ProjectorStep
    PROVE  TypeOK' /\ Extended
  <1> DEFINE n == Len(log)
  <1>0. n \in Nat /\ proj \in [Projectors -> Member(n)] /\ TypeOK /\ group \in Group(n)
    BY DEF Grounded, TypeOK
  <1>1. ASSUME NEW p \in Projectors, CommitEffect(p) PROVE TypeOK' /\ Extended
    <2>1. At(p, {"command"})
      BY <1>1 DEF CommitEffect, Delivering
    <2>2. proj[p] \in Member(n) /\ proj[p].cursor < n /\ Position(p) \in 0..n
      BY <1>0, <2>1, RecordRead
    <2>4. proj' \in [Projectors -> Member(n)]
      BY <1>0, <1>1, <2>2, HandlerMoves DEF CommitEffect
    <2>5. group' \in Group(n)
      BY <1>0, <1>1, <2>2 DEF CommitEffect, Group
    <2> QED BY <1>0, <1>1, <2>4, <2>5, SameExtends DEF CommitEffect, TypeOK, worker, executor
  <1>2. ASSUME NEW p \in Projectors, CommitLost(p) PROVE TypeOK' /\ Extended
    <2>1. At(p, {"command"})
      BY <1>2 DEF CommitLost, Delivering
    <2>2. Position(p) \in 0..n
      BY <1>0, <2>1, RecordRead
    <2>3. proj' \in [Projectors -> Member(n)]
      BY <1>0, <1>2, UnassignedType DEF CommitLost
    <2>4. group' \in Group(n)
      BY <1>0, <1>2, <2>2 DEF CommitLost, Group
    <2>5. faults' \in 0..MaxFaults
      BY <1>0, <1>2, BoundsAssumption DEF CommitLost, Fault, TypeOK
    <2> QED BY <1>0, <1>2, <2>3, <2>4, <2>5, SameExtends DEF CommitLost, TypeOK, worker, executor
  <1>3. ASSUME NEW p \in Projectors, SkipDispatched(p) PROVE TypeOK' /\ Extended
    <2>1. At(p, {"command"})
      BY <1>3 DEF SkipDispatched, Delivering
    <2>2. proj[p] \in Member(n) /\ proj[p].cursor < n
      BY <1>0, <2>1, RecordRead
    <2>3. proj' \in [Projectors -> Member(n)]
      BY <1>0, <1>3, <2>2, AdvancedType DEF SkipDispatched
    <2> QED BY <1>0, <1>3, <2>3, SameExtends DEF SkipDispatched, TypeOK, worker, executor
  <1>4. ASSUME NEW p \in Projectors, Dispatch(p) PROVE TypeOK' /\ Extended
    <2>1. At(p, {"command"})
      BY <1>4 DEF Dispatch, Grounded, Located
    <2>2. proj[p] \in Member(n) /\ proj[p].cursor < n /\ RecordAt(p).id \in Ops
          /\ Position(p) \in Nat
      BY <1>0, <2>1, RecordRead
    <2>3. proj' \in [Projectors -> Member(n)]
      BY <1>0, <1>4, <2>2, AdvancedType, UnassignedType, HandlerMoves DEF Dispatch
    <2>4. rpcs' \subseteq Rpc /\ handed' \subseteq Ops
      BY <1>0, <1>4, <2>1, <2>2 DEF Dispatch, Request, At, RecordAt, Rpc, TypeOK
    <2>5. faults' \in 0..MaxFaults /\ replies' \subseteq Ops \X (Outcome \cup {"lost"})
      <3>1. <<RecordAt(p).id, "not_started">> \in Ops \X Outcome
        BY <2>2 DEF Outcome
      <3> QED BY <1>0, <1>4, <3>1, BoundsAssumption DEF Dispatch, Reply, Fault, TypeOK
    <2> QED BY <1>0, <1>4, <2>3, <2>4, <2>5, SameExtends DEF Dispatch, TypeOK, worker, executor
  <1>5. ASSUME NEW p \in Projectors, SubmitAnswered(p) PROVE TypeOK' /\ Extended
    <2>1. proj[p].answer \in Answer
      BY <1>0 DEF Member
    <2> QED BY <1>5, <2>1, SettleTypes DEF SubmitAnswered
  <1>6. ASSUME NEW p \in Projectors, SubmitUnanswered(p) PROVE TypeOK' /\ Extended
    <2>1. "none" \in Answer
      BY DEF Answer
    <2> QED BY <1>6, <2>1, SettleTypes DEF SubmitUnanswered
  <1>7. ASSUME NEW p \in Projectors, SendCancel(p) PROVE TypeOK' /\ Extended
    <2>1. At(p, {"cancel", "retire"})
      BY <1>7 DEF SendCancel, Delivering
    <2>2. /\ proj[p] \in Member(n) /\ proj[p].cursor < n /\ Position(p) \in Nat
          /\ RecordAt(p).kind \in {"cancel", "retire"}
          /\ RecordAt(p).kind = "cancel" => RecordAt(p).id \in Ops
          /\ RecordAt(p).kind = "retire" => RecordAt(p).id \in Bindings
      BY <1>0, <2>1, RecordRead
    <2>3. At(p, {"retire"}) => RecordAt(p).id \in Bindings
      BY <2>2 DEF At, RecordAt
    <2>4. proj[p].closed \in SUBSET Bindings
      BY <2>2 DEF Member
    <2>5. (IF At(p, {"retire"}) THEN proj[p].closed \cup {RecordAt(p).id} ELSE proj[p].closed)
             \in SUBSET Bindings
      BY <2>3, <2>4
    <2>6. proj' = [proj EXCEPT ![p] =
                     [proj[p] EXCEPT !.pc = "cancel", !.tries = 1, !.closed =
                        IF At(p, {"retire"}) THEN proj[p].closed \cup {RecordAt(p).id}
                        ELSE proj[p].closed]]
      BY <1>7 DEF SendCancel
    <2>7. proj' \in [Projectors -> Member(n)]
      BY <1>0, <2>2, <2>5, <2>6, HandlerMoves
    <2>8. rpcs' \subseteq Rpc
      BY <1>0, <1>7, <2>2 DEF SendCancel, Request, Rpc, TypeOK
    <2> QED BY <1>0, <1>7, <2>7, <2>8, SameExtends DEF SendCancel, TypeOK, worker, executor
  <1>8. ASSUME NEW p \in Projectors, CancelAnswered(p) PROVE TypeOK' /\ Extended
    <2>1. At(p, {"cancel", "retire"})
      BY <1>8 DEF CancelAnswered, Grounded, Located
    <2>2. proj[p] \in Member(n) /\ proj[p].cursor < n
      BY <1>0, <2>1, RecordRead
    <2>3. proj' \in [Projectors -> Member(n)]
      BY <1>0, <1>8, <2>2, AdvancedType DEF CancelAnswered
    <2> QED BY <1>0, <1>8, <2>3, SameExtends DEF CancelAnswered, TypeOK, worker, executor
  <1>9. ASSUME NEW p \in Projectors, CancelUnanswered(p) PROVE TypeOK' /\ Extended
    <2>1. At(p, {"cancel", "retire"})
      BY <1>9 DEF CancelUnanswered, Grounded, Located
    <2>2. /\ proj[p] \in Member(n) /\ proj[p].cursor < n /\ Position(p) \in Nat
          /\ RecordAt(p).kind \in {"cancel", "retire"}
          /\ RecordAt(p).kind = "cancel" => RecordAt(p).id \in Ops
          /\ RecordAt(p).kind = "retire" => RecordAt(p).id \in Bindings
      BY <1>0, <2>1, RecordRead
    <2>3. proj' \in [Projectors -> Member(n)]
      <3>1. Advanced(proj[p]) \in Member(n)
        BY <1>0, <2>2, AdvancedType
      <3>2. [proj[p] EXCEPT !.tries = 2, !.answer = "none"] \in Member(n)
        BY <1>0, <2>2, HandlerMoves
      <3> QED BY <1>0, <1>9, <3>1, <3>2 DEF CancelUnanswered
    <2>4. rpcs' \subseteq Rpc
      BY <1>0, <1>9, <2>2 DEF CancelUnanswered, Request, Rpc, TypeOK
    <2> QED BY <1>0, <1>9, <2>3, <2>4, SameExtends DEF CancelUnanswered, TypeOK, worker, executor
  <1>10. ASSUME NEW p \in Projectors, ConsumeSeal(p) PROVE TypeOK' /\ Extended
    <2>1. At(p, {"seal"})
      BY <1>10 DEF ConsumeSeal, Delivering
    <2>2. proj[p] \in Member(n) /\ proj[p].cursor < n /\ RecordAt(p).id \in Bindings
      BY <1>0, <2>1, RecordRead
    <2>3. proj' \in [Projectors -> Member(n)]
      <3>1. [Advanced(proj[p]) EXCEPT !.closed = @ \cup {RecordAt(p).id}] \in Member(n)
        BY <1>0, <2>2, ClosedType
      <3> QED BY <1>0, <1>10, <3>1 DEF ConsumeSeal
    <2>4. /\ stage' \in [Bindings -> {"future", "live", "retired", "sealed"}]
          /\ routeClosed' \subseteq Bindings
      BY <1>0, <1>10, <2>2 DEF ConsumeSeal, TypeOK
    <2> QED BY <1>0, <1>10, <2>3, <2>4, SameExtends DEF ConsumeSeal, TypeOK, executor
  <1> QED BY <1>1, <1>2, <1>3, <1>4, <1>5, <1>6, <1>7, <1>8, <1>9, <1>10
          DEF ProjectorStep, Delivery

\* An answer given to the Projector that waits keeps its type.
LEMMA AnsweredType ==
    ASSUME TypeOK, NEW r \in rpcs, NEW a \in Answer
    PROVE  Answered(r, a) \in [Projectors -> Member(Len(log))]
  <1>1. r.from \in Projectors
    BY DEF TypeOK, Rpc
  <1>2. proj[r.from] \in Member(Len(log))
    BY <1>1 DEF TypeOK
  <1>3. [proj[r.from] EXCEPT !.answer = a] \in Member(Len(log))
    BY <1>2 DEF Member
  <1> QED BY <1>3 DEF Answered, TypeOK

\* The greater of two positions.
LEMMA MaxOfTwo ==
    ASSUME NEW a \in Nat, NEW b \in Nat
    PROVE  Max({a, b}) = IF a >= b THEN a ELSE b
  <1> DEFINE P(x) == \A y \in {a, b} : x >= y
  <1>1. Max({a, b}) = CHOOSE x \in {a, b} : P(x)
    BY DEF Max
  <1>2. \E x \in {a, b} : P(x)
    OBVIOUS
  <1>3. Max({a, b}) \in {a, b} /\ P(Max({a, b}))
    BY <1>1, <1>2
  <1> QED BY <1>3

\* The position a request moves the executor to.
LEMMA NewPositionAt ==
    ASSUME TypeOK, NEW at \in DOMAIN log
    PROVE  /\ NewPosition(at) \in 0..Len(log)
           /\ NewPosition(at) >= at /\ NewPosition(at) >= cube.position
           /\ cube.position \in 0..Len(log)
           /\ at > cube.position => NewPosition(at) = at
           /\ at <= cube.position => NewPosition(at) = cube.position
  <1>1. cube.position \in 0..Len(log) /\ at \in 1..Len(log)
    BY DEF TypeOK, Machine
  <1> QED BY <1>1, MaxOfTwo DEF NewPosition

\* Steps of the executor keep the types and the log.
LEMMA ExecutorTypes ==
    ASSUME Grounded, ExecutorStep
    PROVE  TypeOK' /\ Extended
  <1> DEFINE n == Len(log)
  <1>0. n \in Nat /\ proj \in [Projectors -> Member(n)] /\ TypeOK /\ cube \in Machine(n)
        /\ exec \in [Ops -> {"none", "gone"} \cup Held]
        /\ result \in [Ops -> Outcome \cup {"none"}]
    BY DEF Grounded, TypeOK
  <1>1. ASSUME NEW r \in rpcs, Submit(r) PROVE TypeOK' /\ Extended
    <2>1. r.at \in DOMAIN log /\ r.id \in Ops
      BY <1>0, <1>1 DEF Submit, Grounded, Located, TypeOK, Rpc
    <2>2. PICK a \in Answer : proj' = Answered(r, a)
      BY <1>1 DEF Submit, Admit, Refuse, Answer
    <2>3. proj' \in [Projectors -> Member(n)]
      BY <1>0, <1>1, <2>2, AnsweredType
    <2>4. cube' \in Machine(n) /\ faults' \in 0..MaxFaults
      <3>1. NewPosition(r.at) \in 0..n
        BY <1>0, <2>1, NewPositionAt
      <3>2. cube' = cube \/ cube' = [cube EXCEPT !.position = NewPosition(r.at)]
        BY <1>1 DEF Submit, Admit, Refuse
      <3>3. faults' \in 0..MaxFaults
        BY <1>0, <1>1, BoundsAssumption DEF Submit, Admit, Refuse, Fault, TypeOK
      <3> QED BY <1>0, <3>1, <3>2, <3>3 DEF Machine
    <2>5. exec' \in [Ops -> {"none", "gone"} \cup Held]
      BY <1>0, <1>1, <2>1 DEF Submit, Admit, Refuse, Held, Unfinished
    <2>6. admitted' \in Seq(1..n)
      <3>1. r.at \in 1..n /\ admitted \in Seq(1..n)
        BY <1>0, <2>1 DEF TypeOK
      <3>2. Append(admitted, r.at) \in Seq(1..n)
        BY <3>1
      <3>3. admitted' = admitted \/ admitted' = Append(admitted, r.at)
        BY <1>1 DEF Submit, Admit, Refuse
      <3> QED BY <3>1, <3>2, <3>3
    <2>7. rpcs' \subseteq Rpc
      BY <1>0, <1>1 DEF Submit, TypeOK
    <2> QED BY <1>0, <1>1, <2>3, <2>4, <2>5, <2>6, <2>7, SameExtends DEF Submit, TypeOK, worker
  <1>2. ASSUME NEW r \in rpcs, Cancel(r) PROVE TypeOK' /\ Extended
    <2>1. r.at \in DOMAIN log
      BY <1>0, <1>2 DEF Grounded, Located
    <2>2. CancelVerdict \in Answer
      BY DEF CancelVerdict, Answer, Rejection
    <2>3. proj' \in [Projectors -> Member(n)]
      BY <1>0, <1>2, <2>2, AnsweredType DEF Cancel
    <2>4. cube' \in Machine(n)
      <3>1. NewPosition(r.at) \in 0..n
        BY <1>0, <2>1, NewPositionAt
      <3> QED BY <1>0, <1>2, <3>1 DEF Cancel, Machine
    <2>5. interrupted' \subseteq Ops /\ fenced' \subseteq Ops
      <3>1. Covered(r) \subseteq Ops
        BY <1>0, <1>2 DEF Cancel, Covered, OpsOf, TypeOK, Rpc
      <3> QED BY <1>0, <1>2, <3>1 DEF Cancel, TypeOK
    <2>6. rpcs' \subseteq Rpc
      BY <1>0, <1>2 DEF Cancel, TypeOK
    <2> QED BY <1>0, <1>2, <2>3, <2>4, <2>5, <2>6, SameExtends DEF Cancel, TypeOK, worker
  <1>3. ASSUME NEW r \in rpcs, LoseRpc(r) PROVE TypeOK' /\ Extended
    <2>1. faults' \in 0..MaxFaults
      BY <1>0, <1>3, BoundsAssumption DEF LoseRpc, Fault, TypeOK
    <2>2. rpcs' \subseteq Rpc
      BY <1>0, <1>3 DEF LoseRpc, TypeOK
    <2> QED BY <1>0, <1>3, <2>1, <2>2, SameExtends DEF LoseRpc, TypeOK, worker, executor
  <1>4. ASSUME NEW o \in Ops, StartTool(o) PROVE TypeOK' /\ Extended
    <2>1. exec' \in [Ops -> {"none", "gone"} \cup Held] /\ ran' \subseteq Ops
      BY <1>0, <1>4 DEF StartTool, Held, Unfinished, TypeOK
    <2> QED BY <1>0, <1>4, <2>1, SameExtends DEF StartTool, TypeOK, worker, projection
  <1>5. ASSUME NEW o \in Ops, NEW outcome \in Outcome, NEW q \in BOOLEAN,
               Finish(o, outcome, q), strays' \subseteq Ops, faults' \in 0..MaxFaults
        PROVE  TypeOK' /\ Extended
    <2>1. exec' \in [Ops -> {"none", "gone"} \cup Held]
      BY <1>0, <1>5 DEF Finish, Held
    <2>2. result' \in [Ops -> Outcome \cup {"none"}]
      BY <1>0, <1>5 DEF Finish
    <2>3. cube' \in Machine(n)
      BY <1>0, <1>5 DEF Finish, Machine
    <2> QED BY <1>0, <1>5, <2>1, <2>2, <2>3, SameExtends DEF Finish, TypeOK, worker, projection
  <1>6. ASSUME NEW o \in Ops, Unstarted(o) PROVE TypeOK' /\ Extended
    <2>1. faults' \in 0..MaxFaults /\ strays' \subseteq Ops
      <3>1. strays' \subseteq Ops
        BY <1>0, <1>6 DEF Unstarted, TypeOK
      <3>2. UNCHANGED faults \/ Fault("scope")
        BY <1>6 DEF Unstarted
      <3>3. faults' \in 0..MaxFaults
        BY <1>0, <3>2, BoundsAssumption DEF Fault, TypeOK
      <3> QED BY <3>1, <3>3
    <2>2. \E outcome \in Outcome, q \in BOOLEAN : Finish(o, outcome, q)
      BY <1>6 DEF Unstarted, Outcome
    <2> QED BY <1>5, <2>1, <2>2
  <1>7. ASSUME NEW o \in Ops, Complete(o) PROVE TypeOK' /\ Extended
    <2>1. faults' \in 0..MaxFaults /\ strays' \subseteq Ops
      BY <1>0, <1>7 DEF Complete, TypeOK
    <2>2. \E outcome \in Outcome, q \in BOOLEAN : Finish(o, outcome, q)
      BY <1>7 DEF Complete, Outcome
    <2> QED BY <1>5, <2>1, <2>2
  <1>8. ASSUME NEW o \in Ops, Fail(o) PROVE TypeOK' /\ Extended
    <2>1. faults' \in 0..MaxFaults /\ strays' \subseteq Ops
      <3>1. strays' \subseteq Ops
        BY <1>0, <1>8 DEF Fail, TypeOK
      <3>2. UNCHANGED faults \/ Fault("scope")
        BY <1>8 DEF Fail
      <3>3. faults' \in 0..MaxFaults
        BY <1>0, <3>2, BoundsAssumption DEF Fault, TypeOK
      <3> QED BY <3>1, <3>3
    <2>2. \E outcome \in Outcome, q \in BOOLEAN : Finish(o, outcome, q)
      BY <1>8 DEF Fail, Outcome
    <2> QED BY <1>5, <2>1, <2>2
  <1>9. ASSUME NEW o \in Ops, Deliver(o) PROVE TypeOK' /\ Extended
    <2>1. exec' \in [Ops -> {"none", "gone"} \cup Held]
      BY <1>0, <1>9 DEF Deliver
    <2>2. faults' \in 0..MaxFaults /\ replies' \subseteq Ops \X (Outcome \cup {"lost"})
      <3>1. result[o] \in Outcome
        BY <1>9 DEF Deliver, Grounded, Located
      <3> QED BY <1>0, <1>9, <3>1, BoundsAssumption DEF Deliver, Reply, Fault, TypeOK
    <2> QED BY <1>0, <1>9, <2>1, <2>2, SameExtends DEF Deliver, TypeOK, worker, projection
  <1>10. CASE RetireIdleRuntime
    <2>1. cube' \in Machine(n)
      BY <1>0, <1>10 DEF RetireIdleRuntime, Machine
    <2>2. faults' \in 0..MaxFaults
      BY <1>0, <1>10, BoundsAssumption DEF RetireIdleRuntime, Fault, TypeOK
    <2> QED BY <1>0, <1>10, <2>1, <2>2, SameExtends DEF RetireIdleRuntime, TypeOK, worker, projection
  <1>11. CASE ForgetRuntime
    <2>1. cube' \in Machine(n)
      <3>1. 0 \in 0..n
        BY <1>0
      <3> QED BY <1>0, <1>11, <3>1 DEF ForgetRuntime, Machine
    <2>2. faults' \in 0..MaxFaults
      BY <1>0, <1>11, BoundsAssumption DEF ForgetRuntime, Fault, TypeOK
    <2>3. exec' \in [Ops -> {"none", "gone"} \cup Held]
      BY <1>0, <1>11 DEF ForgetRuntime, Held
    <2>4. result' \in [Ops -> Outcome \cup {"none"}]
      BY <1>0, <1>11 DEF ForgetRuntime, Outcome
    <2> QED BY <1>0, <1>11, <2>1, <2>2, <2>3, <2>4, SameExtends
            DEF ForgetRuntime, TypeOK, worker, projection
  <1>12. CASE CloseExecutor
    <2>1. cube' \in Machine(n)
      BY <1>0, <1>12 DEF CloseExecutor, Machine
    <2>2. faults' \in 0..MaxFaults
      BY <1>0, <1>12, BoundsAssumption DEF CloseExecutor, Fault, TypeOK
    <2> QED BY <1>0, <1>12, <2>1, <2>2, SameExtends DEF CloseExecutor, TypeOK, worker, projection
  <1>13. CASE RestartExecutor
    <2>1. cube' \in Machine(n)
      <3>1. 0 \in 0..n
        BY <1>0
      <3> QED BY <1>0, <1>13, <3>1 DEF RestartExecutor, Machine
    <2>2. faults' \in 0..MaxFaults
      BY <1>0, <1>13, BoundsAssumption DEF RestartExecutor, Fault, TypeOK
    <2>3. exec' \in [Ops -> {"none", "gone"} \cup Held] /\ strays' \subseteq Ops
      BY <1>0, <1>13 DEF RestartExecutor, TypeOK
    <2> QED BY <1>0, <1>13, <2>1, <2>2, <2>3, SameExtends
            DEF RestartExecutor, TypeOK, worker, projection
  <1> QED BY <1>1, <1>2, <1>3, <1>4, <1>6, <1>7, <1>8, <1>9, <1>10, <1>11, <1>12, <1>13
          DEF ExecutorStep, Admission

\* A handler that does not move is still at the record it read.
LEMMA HandlerStays ==
    ASSUME Grounded, Extended, NEW q \in Projectors,
           \/ proj'[q].pc = "idle"
           \/ proj'[q].pc = proj[q].pc /\ proj'[q].cursor = proj[q].cursor
    PROVE  /\ proj'[q].pc \in {"route", "submit"} => At(q, {"command"})'
           /\ proj'[q].pc = "cancel" => At(q, {"cancel", "retire"})'
  <1>1. CASE proj'[q].pc = "idle"
    BY <1>1
  <1>2. CASE proj'[q].pc = proj[q].pc /\ proj'[q].cursor = proj[q].cursor
    <2>1. ASSUME NEW kinds \in SUBSET {"command", "cancel", "retire", "seal"}, At(q, kinds)
          PROVE  At(q, kinds)'
      <3>1. Position(q) \in DOMAIN log
        BY <2>1, RecordRead DEF Grounded
      <3>2. Position(q)' = Position(q)
        BY <1>2 DEF Position
      <3>3. Position(q) \in DOMAIN log' /\ log'[Position(q)] = log[Position(q)]
        BY <3>1 DEF Extended
      <3>4. Position(q) <= Len(log')
        BY <3>3 DEF Extended
      <3> QED BY <2>1, <3>2, <3>3, <3>4 DEF At
    <2> QED BY <1>2, <2>1 DEF Grounded, Located
  <1> QED BY <1>1, <1>2

\* A request under way still names the record it was sent for.
LEMMA RequestsStay ==
    ASSUME Grounded, Extended
    PROVE  \A r \in rpcs : r.at \in DOMAIN log' /\ log'[r.at] = [kind |-> r.kind, id |-> r.id]
  BY DEF Grounded, Located, Extended

\* Requests and handlers keep naming the record they are about.
LEMMA LocatedStep ==
    ASSUME Grounded, [Next]_vars, TypeOK', Extended
    PROVE  Located'
  <1> DEFINE Handlers == \A q \in Projectors : \/ proj'[q].pc = "idle"
                                               \/ /\ proj'[q].pc = proj[q].pc
                                                  /\ proj'[q].cursor = proj[q].cursor
             Results == \A o \in Ops : exec'[o] = "finished" => result'[o] \in Outcome
  <1>0. proj \in [Projectors -> Member(Len(log))] /\ TypeOK
    BY DEF Grounded, TypeOK
  <1>a. ASSUME Handlers, rpcs' \subseteq rpcs, Results PROVE Located'
    BY <1>a, HandlerStays, RequestsStay DEF Located
  <1>b. ASSUME UNCHANGED executor PROVE Results
    BY <1>b DEF executor, Grounded, Located
  <1>1. CASE WorkerStep
    <2>1. UNCHANGED <<proj, rpcs, executor>>
      BY <1>1 DEF WorkerStep, Publish, RequestAbort, PublishCancel, AbandonWait, Accept,
                  WorkerDies, Retire, Seal, projection
    <2> QED BY <1>a, <1>b, <2>1
  <1>2. CASE AssignmentStep
    <2>1. UNCHANGED <<rpcs, executor>>
      BY <1>2 DEF AssignmentStep, Handover, Notice, Assign, CrashProjector, Progress
    <2>2. ASSUME NEW p \in Projectors,
                 \/ Handover(p) \/ Notice(p) \/ Assign(p) \/ CrashProjector(p) \/ Progress(p)
          PROVE  Handlers
      <3>1. CASE Handover(p)
        BY <3>1 DEF Handover
      <3>2. CASE Notice(p)
        BY <1>0, <3>2 DEF Notice, Unassigned, Member
      <3>3. CASE Assign(p)
        BY <1>0, <3>3 DEF Assign, Unassigned
      <3>4. CASE CrashProjector(p)
        BY <1>0, <3>4 DEF CrashProjector, Unassigned
      <3>5. CASE Progress(p)
        BY <1>0, <3>5 DEF Progress, Member
      <3> QED BY <2>2, <3>1, <3>2, <3>3, <3>4, <3>5
    <2> QED BY <1>2, <1>a, <1>b, <2>1, <2>2 DEF AssignmentStep
  <1>3. CASE ProjectorStep
    <2>1. UNCHANGED executor
      BY <1>3 DEF ProjectorStep, Delivery, CommitEffect, SkipDispatched, Dispatch,
                  SubmitAnswered, SubmitUnanswered, Settle, SendCancel, CancelAnswered,
                  CancelUnanswered, ConsumeSeal, CommitLost
    <2>2. \A p \in Projectors : Advanced(proj[p]).pc = "idle" /\ Unassigned.pc = "idle"
                                 /\ \A c \in SUBSET Bindings :
                                      [Advanced(proj[p]) EXCEPT !.closed = c].pc = "idle"
      <3>1. ASSUME NEW p \in Projectors
            PROVE  /\ [proj[p] EXCEPT !.pc = "idle", !.tries = 0, !.answer = "none",
                                      !.cursor = @ + 1].pc = "idle"
                   /\ [proj[p] EXCEPT !.pc = "idle", !.tries = 0, !.answer = "none",
                                      !.cursor = @ + 1] \in Member(Len(log) + 1)
        <4>1. proj[p] \in Member(Len(log)) /\ Len(log) \in Nat
          BY <1>0 DEF TypeOK
        <4>2. proj[p].cursor + 1 \in 0..(Len(log) + 1) /\ 0 \in 0..2 /\ "none" \in Answer
              /\ proj[p].seen \in 0..(Len(log) + 1)
          BY <4>1 DEF Member, Answer
        <4> QED BY <4>1, <4>2 DEF Member
      <3>2. ASSUME NEW p \in Projectors
            PROVE  Advanced(proj[p]).pc = "idle" /\ Advanced(proj[p]) \in Member(Len(log) + 1)
        <4>1. Unassigned \in Member(Len(log) + 1)
          BY <1>0, UnassignedType DEF TypeOK
        <4> QED BY <3>1, <4>1 DEF Advanced, Unassigned
      <3> QED BY <3>2 DEF Unassigned, Member
    <2>3. ASSUME NEW p \in Projectors, SkipDispatched(p) \/ CancelAnswered(p) \/ CommitLost(p)
                                       \/ \E a \in Answer : Settle(p, a)
          PROVE  Handlers /\ rpcs' = rpcs
      BY <1>0, <2>2, <2>3 DEF SkipDispatched, CancelAnswered, CommitLost, Settle
    <2>4. ASSUME NEW p \in Projectors, ConsumeSeal(p) PROVE Handlers /\ rpcs' = rpcs
      <3>1. Advanced(proj[p]).closed \cup {RecordAt(p).id} \in SUBSET Bindings
        <4>1. At(p, {"seal"})
          BY <2>4 DEF ConsumeSeal, Delivering
        <4>2. RecordAt(p).id \in Bindings /\ proj[p] \in Member(Len(log))
              /\ proj[p].cursor < Len(log) /\ Len(log) \in Nat
          BY <1>0, <4>1, RecordRead
        <4>3. Advanced(proj[p]) \in Member(Len(log))
          BY <4>2, AdvancedType
        <4> QED BY <4>2, <4>3 DEF Member
      <3>2. [Advanced(proj[p]) EXCEPT !.closed = @ \cup {RecordAt(p).id}].pc = "idle"
        BY <2>2, <3>1
      <3> QED BY <1>0, <2>4, <3>2 DEF ConsumeSeal
    <2>5. ASSUME NEW p \in Projectors, CommitEffect(p) PROVE Located'
      <3>1. At(p, {"command"})
        BY <2>5 DEF CommitEffect, Delivering
      <3>2. /\ proj'[p].pc = "route" /\ proj'[p].cursor = proj[p].cursor
            /\ \A q \in Projectors \ {p} : proj'[q] = proj[q]
            /\ log' = log /\ rpcs' = rpcs
        <4>1. proj[p] \in Member(Len(log))
          BY <1>0
        <4>2. proj'[p] = [proj[p] EXCEPT !.seen = Position(p), !.pc = "route"]
          BY <1>0, <2>5 DEF CommitEffect
        <4>3. proj'[p].pc = "route" /\ proj'[p].cursor = proj[p].cursor
          BY <4>1, <4>2 DEF Member
        <4> QED BY <1>0, <2>5, <4>3 DEF CommitEffect
      <3>3. At(p, {"command"})'
        BY <3>1, <3>2 DEF At, Position
      <3>4. \A q \in Projectors :
              /\ proj'[q].pc \in {"route", "submit"} => At(q, {"command"})'
              /\ proj'[q].pc = "cancel" => At(q, {"cancel", "retire"})'
        BY <3>2, <3>3, HandlerStays
      <3>5. Results
        BY <1>b, <2>1
      <3>6. \A r \in rpcs' : r.at \in DOMAIN log' /\ log'[r.at] = [kind |-> r.kind, id |-> r.id]
        BY <3>2, RequestsStay
      <3> QED BY <3>4, <3>5, <3>6 DEF Located
    <2>6. ASSUME NEW p \in Projectors, Dispatch(p) PROVE Located'
      <3>1. At(p, {"command"})
        BY <2>6 DEF Dispatch, Grounded, Located
      <3>2. /\ \/ proj'[p].pc = "idle"
               \/ proj'[p].pc = "submit" /\ proj'[p].cursor = proj[p].cursor
            /\ \A q \in Projectors \ {p} : proj'[q] = proj[q]
            /\ log' = log
        BY <1>0, <2>2, <2>6 DEF Dispatch, Member
      <3>3. proj'[p].pc # "idle" => At(p, {"command"})'
        BY <3>1, <3>2 DEF At, Position
      <3>4. \A r \in rpcs' : r.at \in DOMAIN log' /\ log'[r.at] = [kind |-> r.kind, id |-> r.id]
        <4>1. /\ Position(p) \in DOMAIN log /\ RecordAt(p).kind = "command"
              /\ RecordAt(p) \in Record
          BY <1>0, <3>1, RecordRead
        <4>2. log[Position(p)] = [kind |-> "command", id |-> RecordAt(p).id]
          BY <4>1, RecordKinds DEF RecordAt
        <4>3. \A r \in rpcs' : r \in rpcs \/ r = Request(p, 0)
          BY <2>6 DEF Dispatch
        <4>4. ASSUME NEW r \in rpcs', r \notin rpcs
              PROVE  r.at \in DOMAIN log /\ log[r.at] = [kind |-> r.kind, id |-> r.id]
          <5>1. r.at = Position(p) /\ r.kind = RecordAt(p).kind /\ r.id = RecordAt(p).id
            BY <4>1, <4>3, <4>4 DEF Request
          <5> QED BY <4>1, <4>2, <5>1
        <4> QED BY <3>2, <4>4, RequestsStay
      <3> QED BY <1>b, <2>1, <3>2, <3>3, <3>4, HandlerStays DEF Located
    <2>7. ASSUME NEW p \in Projectors, SendCancel(p) \/ CancelUnanswered(p) PROVE Located'
      <3>1. At(p, {"cancel", "retire"})
        BY <2>7 DEF SendCancel, CancelUnanswered, Delivering, Grounded, Located
      <3>2. /\ \/ proj'[p].pc = "idle"
               \/ proj'[p].pc = "cancel" /\ proj'[p].cursor = proj[p].cursor
            /\ \A q \in Projectors \ {p} : proj'[q] = proj[q]
            /\ log' = log
        <4>1. CASE SendCancel(p)
          BY <1>0, <4>1 DEF SendCancel, Member
        <4>2. CASE CancelUnanswered(p)
          BY <1>0, <2>2, <4>2 DEF CancelUnanswered, Member
        <4> QED BY <2>7, <4>1, <4>2
      <3>3. proj'[p].pc # "idle" => At(p, {"cancel", "retire"})'
        BY <3>1, <3>2 DEF At, Position
      <3>4. \A r \in rpcs' : r.at \in DOMAIN log' /\ log'[r.at] = [kind |-> r.kind, id |-> r.id]
        <4>1. Position(p) \in DOMAIN log /\ RecordAt(p) \in Record
          BY <1>0, <3>1, RecordRead
        <4>2. log[Position(p)] = [kind |-> RecordAt(p).kind, id |-> RecordAt(p).id]
          BY <4>1, RecordKinds DEF RecordAt
        <4>3. \A r \in rpcs' : r \in rpcs \/ \E n \in {1, 2} : r = Request(p, n)
          BY <2>7 DEF SendCancel, CancelUnanswered
        <4>4. ASSUME NEW r \in rpcs', r \notin rpcs
              PROVE  r.at \in DOMAIN log /\ log[r.at] = [kind |-> r.kind, id |-> r.id]
          <5>1. r.at = Position(p) /\ r.kind = RecordAt(p).kind /\ r.id = RecordAt(p).id
            BY <4>1, <4>3, <4>4 DEF Request
          <5> QED BY <4>1, <4>2, <5>1
        <4> QED BY <3>2, <4>4, RequestsStay
      <3> QED BY <1>b, <2>1, <3>2, <3>3, <3>4, HandlerStays DEF Located
    <2>8. ASSUME NEW p \in Projectors, SubmitAnswered(p) \/ SubmitUnanswered(p) PROVE Located'
      <3>1. proj[p].answer \in Answer /\ "none" \in Answer
        BY <1>0 DEF Member, Answer
      <3>2. \E a \in Answer : Settle(p, a)
        BY <2>8, <3>1 DEF SubmitAnswered, SubmitUnanswered
      <3> QED BY <1>a, <1>b, <2>1, <2>3, <3>2
    <2> QED BY <1>3, <1>a, <1>b, <2>1, <2>3, <2>4, <2>5, <2>6, <2>7, <2>8 DEF ProjectorStep, Delivery
  <1>4. CASE ExecutorStep
    <2>1. ASSUME NEW r \in rpcs, NEW a \in Answer, proj' = Answered(r, a) PROVE Handlers
      <3>1. r.from \in Projectors
        BY <1>0 DEF TypeOK, Rpc
      <3> QED BY <1>0, <2>1, <3>1 DEF Answered, Member
    <2>2. ASSUME NEW r \in rpcs, Submit(r) PROVE Located'
      <3>1. r.id \in Ops /\ \E a \in Answer : proj' = Answered(r, a)
        BY <1>0, <2>2 DEF Submit, Admit, Refuse, Answer, TypeOK, Rpc
      <3>2. Handlers
        BY <2>1, <2>2, <3>1
      <3>3. Results
        BY <1>0, <2>2, <3>1 DEF Submit, Admit, Refuse, Grounded, Located, TypeOK
      <3> QED BY <1>a, <2>2, <3>2, <3>3 DEF Submit
    <2>3. ASSUME NEW r \in rpcs, Cancel(r) PROVE Located'
      <3>1. CancelVerdict \in Answer
        BY DEF CancelVerdict, Answer, Rejection
      <3>2. Handlers
        BY <2>1, <2>3, <3>1 DEF Cancel
      <3>3. Results
        BY <2>3 DEF Cancel, Grounded, Located
      <3> QED BY <1>a, <2>3, <3>2, <3>3 DEF Cancel
    <2>4. ASSUME NEW r \in rpcs, LoseRpc(r) PROVE Located'
      BY <1>a, <1>b, <2>4 DEF LoseRpc
    <2>5. ASSUME NEW o \in Ops, NEW outcome \in Outcome, NEW q \in BOOLEAN, Finish(o, outcome, q)
          PROVE  Located'
      <3>1. Results
        BY <1>0, <2>5 DEF Finish, Grounded, Located, TypeOK
      <3> QED BY <1>a, <2>5, <3>1 DEF Finish, projection
    <2>6. ASSUME NEW o \in Ops, Unstarted(o) \/ Complete(o) \/ Fail(o) PROVE Located'
      <3>1. \E outcome \in Outcome, q \in BOOLEAN : Finish(o, outcome, q)
        BY <2>6 DEF Unstarted, Complete, Fail, Outcome
      <3> QED BY <2>5, <3>1
    <2>7. ASSUME NEW o \in Ops, StartTool(o) \/ Deliver(o) PROVE Located'
      <3>1. Results
        BY <1>0, <2>7 DEF StartTool, Deliver, Grounded, Located, TypeOK
      <3> QED BY <1>a, <2>7, <3>1 DEF StartTool, Deliver, projection
    <2>8. CASE RetireIdleRuntime \/ ForgetRuntime \/ CloseExecutor \/ RestartExecutor
      <3>1. Results
        BY <1>0, <2>8 DEF RetireIdleRuntime, ForgetRuntime, CloseExecutor, RestartExecutor,
                          Grounded, Located, TypeOK, Outcome
      <3> QED BY <1>a, <2>8, <3>1 DEF RetireIdleRuntime, ForgetRuntime, CloseExecutor,
                                      RestartExecutor, projection
    <2> QED BY <1>4, <2>2, <2>3, <2>4, <2>6, <2>7, <2>8 DEF ExecutorStep, Admission
  <1>5. CASE UNCHANGED vars
    BY <1>a, <1>b, <1>5 DEF vars, projection
  <1> QED BY <1>1, <1>2, <1>3, <1>4, <1>5 DEF Next

\* At first the log is empty and nothing is under way.
LEMMA GroundedInit ==
    ASSUME Init
    PROVE  Grounded
  <1>1. Len(log) = 0 /\ log \in Seq(Record) /\ admitted \in Seq(1..Len(log))
    BY DEF Init
  <1>2. Unassigned \in Member(0)
    BY UnassignedType
  <1>3. \A p, q \in Projectors : [Unassigned EXCEPT !.current = q = p] \in Member(0)
    BY <1>2 DEF Member
  <1>4. proj \in [Projectors -> Member(0)] /\ group \in Group(0)
        /\ \A p \in Projectors : proj[p].pc = "idle"
    BY <1>2, <1>3 DEF Init, Group, Unassigned
  <1>5. cube \in Machine(0) /\ call \in [Ops -> CallRow]
    BY DEF Init, Machine, CallRow
  <1>6. TypeOK
    BY <1>1, <1>4, <1>5, BoundsAssumption DEF Init, TypeOK
  <1>7. Located
    BY <1>4 DEF Init, Located
  <1> QED BY <1>6, <1>7 DEF Grounded

\* Types and positions are inductive.
LEMMA GroundedStep ==
    ASSUME Grounded, [Next]_vars
    PROVE  Grounded' /\ Extended
  <1>1. TypeOK' /\ Extended
    <2>1. CASE UNCHANGED vars
      BY <2>1, SameExtends DEF vars, worker, projection, executor, Grounded, TypeOK
    <2> QED BY <2>1, WorkerTypes, AssignmentTypes, DeliveryTypes, ExecutorTypes DEF Next, Grounded
  <1> QED BY <1>1, LocatedStep DEF Grounded

\* Every variable keeps its type and every position stays within the log.
THEOREM TypeCorrect == Spec => []TypeOK
  <1>1. Init => Grounded
    BY GroundedInit
  <1>2. Grounded /\ [Next]_vars => Grounded'
    BY GroundedStep
  <1> QED BY <1>1, <1>2, PTL DEF Spec, Grounded

-----------------------------------------------------------------------------
(* The order of the executor's admissions, and what a stray process stops.   *)

\* Every admission was at or below the position the executor remembers; a stray
\* process left a mark that no later request gets past.
ExecutorInv ==
    /\ AdmittedInLogOrder
    /\ cube.present /\ ~cube.replaced => \A i \in DOMAIN admitted : admitted[i] <= cube.position
    /\ strays # {} => cube.unsafe \/ cube.replaced

\* Only the executor changes its machine.
LEMMA ElsewhereUnchanged ==
    ASSUME WorkerStep \/ AssignmentStep \/ ProjectorStep
    PROVE  UNCHANGED executor
  <1>1. ASSUME WorkerStep PROVE UNCHANGED executor
    BY <1>1 DEF WorkerStep, Publish, RequestAbort, PublishCancel, AbandonWait, Accept,
                WorkerDies, Retire, Seal
  <1>2. ASSUME AssignmentStep PROVE UNCHANGED executor
    BY <1>2 DEF AssignmentStep, Handover, Notice, Assign, CrashProjector, Progress
  <1>3. ASSUME ProjectorStep PROVE UNCHANGED executor
    BY <1>3 DEF ProjectorStep, Delivery, CommitEffect, SkipDispatched, Dispatch,
                SubmitAnswered, SubmitUnanswered, Settle, SendCancel, CancelAnswered,
                CancelUnanswered, ConsumeSeal, CommitLost
  <1> QED BY <1>1, <1>2, <1>3

\* What Verdict checked when it admits a command.
LEMMA AdmitMeans ==
    ASSUME NEW r, Verdict(r) = "admit"
    PROVE  /\ ~cube.replaced /\ ~cube.closed /\ cube.present /\ ~cube.unsafe
           /\ exec[r.id] \notin Held /\ r.at > cube.position
  BY DEF Verdict, MachineVerdict

\* The actions that admit nothing.
LEMMA NothingAdmitted ==
    ASSUME Grounded, ExecutorInv, UNCHANGED admitted,
           cube'.present /\ ~cube'.replaced =>
             cube.present /\ ~cube.replaced /\ cube'.position \in Nat
             /\ cube'.position >= cube.position,
           strays' # {} => cube'.unsafe \/ cube'.replaced
    PROVE  ExecutorInv'
  <1>1. cube.position \in Nat /\ admitted \in Seq(Nat)
    <2>1. cube.position \in 0..Len(log) /\ admitted \in Seq(1..Len(log)) /\ Len(log) \in Nat
      BY DEF Grounded, TypeOK, Machine
    <2> QED BY <2>1
  <1>2. AdmittedInLogOrder'
    BY DEF ExecutorInv, AdmittedInLogOrder
  <1>3. ASSUME cube'.present /\ ~cube'.replaced, NEW i \in DOMAIN admitted'
        PROVE  admitted'[i] <= cube'.position
    <2>1. i \in DOMAIN admitted /\ admitted'[i] = admitted[i] /\ admitted[i] \in Nat
      BY <1>1, <1>3
    <2> QED BY <1>1, <1>3, <2>1 DEF ExecutorInv
  <1> QED BY <1>2, <1>3 DEF ExecutorInv

\* The position of the machine is behind all it admitted, in every step.
LEMMA ExecutorInvStep ==
    ASSUME Grounded, ExecutorInv, [Next]_vars
    PROVE  ExecutorInv'
  <1>0. /\ cube \in Machine(Len(log)) /\ Len(log) \in Nat /\ TypeOK
        /\ cube.position \in Nat
    BY DEF Grounded, TypeOK, Machine
  <1>1. ASSUME NEW r \in rpcs, Submit(r), Admit(r) PROVE ExecutorInv'
    <2>1. /\ r.at \in 1..Len(log) /\ r.at > cube.position /\ cube.position \in Nat
          /\ cube.present /\ ~cube.replaced
      <3>1. r.at \in DOMAIN log
        BY <1>1 DEF Grounded, Located
      <3>2. r.at \in 1..Len(log)
        BY <1>0, <3>1 DEF TypeOK
      <3>3. r.at > cube.position /\ cube.present /\ ~cube.replaced
        BY <1>1, AdmitMeans DEF Admit
      <3> QED BY <1>0, <3>2, <3>3
    <2>2. admitted \in Seq(1..Len(log)) /\ admitted' = Append(admitted, r.at)
      BY <1>0, <1>1 DEF Admit, TypeOK
    <2>3. \A i \in DOMAIN admitted : admitted[i] \in Nat /\ admitted[i] <= cube.position
      BY <2>1, <2>2 DEF ExecutorInv
    <2>4. cube'.position = r.at
      <3>1. NewPosition(r.at) = r.at
        BY <1>0, <2>1, NewPositionAt DEF Grounded, TypeOK
      <3> QED BY <1>0, <1>1, <3>1 DEF Admit, Machine
    <2>5. /\ DOMAIN admitted' = 1..(Len(admitted) + 1)
          /\ admitted'[Len(admitted) + 1] = r.at
          /\ \A i \in DOMAIN admitted : admitted'[i] = admitted[i]
          /\ DOMAIN admitted = 1..Len(admitted) /\ Len(admitted) \in Nat
      BY <2>1, <2>2
    <2>6. AdmittedInLogOrder'
      BY <2>1, <2>3, <2>5 DEF ExecutorInv, AdmittedInLogOrder
    <2>7. \A i \in DOMAIN admitted' : admitted'[i] <= cube'.position
      BY <2>1, <2>3, <2>4, <2>5
    <2>8. strays' = strays /\ cube'.unsafe = cube.unsafe /\ cube'.replaced = cube.replaced
      BY <1>0, <1>1 DEF Submit, Admit, Machine
    <2> QED BY <2>6, <2>7, <2>8 DEF ExecutorInv
  <1>2. ASSUME NEW r \in rpcs, Submit(r), NEW a, Refuse(r, a) PROVE ExecutorInv'
    <2>1. NewPosition(r.at) \in Nat /\ NewPosition(r.at) >= cube.position
      <3>1. r.at \in DOMAIN log
        BY <1>2 DEF Grounded, Located
      <3>2. NewPosition(r.at) \in 0..Len(log) /\ NewPosition(r.at) >= cube.position
        BY <1>0, <3>1, NewPositionAt
      <3> QED BY <1>0, <3>2
    <2>2. admitted' = admitted /\ strays' = strays
      BY <1>2 DEF Submit, Refuse
    <2>3. /\ cube' = cube \/ cube' = [cube EXCEPT !.position = NewPosition(r.at)]
      BY <1>2 DEF Refuse
    <2>4. /\ cube'.present = cube.present /\ cube'.replaced = cube.replaced
          /\ cube'.unsafe = cube.unsafe
          /\ cube'.position \in Nat /\ cube'.position >= cube.position
      BY <1>0, <2>1, <2>3 DEF Machine
    <2> QED BY <2>2, <2>4, NothingAdmitted DEF ExecutorInv
  <1>3. ASSUME NEW r \in rpcs, Cancel(r) PROVE ExecutorInv'
    <2>1. NewPosition(r.at) \in Nat /\ NewPosition(r.at) >= cube.position
      <3>1. r.at \in DOMAIN log
        BY <1>3 DEF Grounded, Located
      <3>2. NewPosition(r.at) \in 0..Len(log) /\ NewPosition(r.at) >= cube.position
        BY <1>0, <3>1, NewPositionAt
      <3> QED BY <1>0, <3>2
    <2>2. cube' = cube \/ cube' = [cube EXCEPT !.position = NewPosition(r.at)]
      BY <1>3 DEF Cancel
    <2>3. /\ cube'.present = cube.present /\ cube'.replaced = cube.replaced
          /\ cube'.unsafe = cube.unsafe /\ cube'.position >= cube.position
          /\ cube'.position \in Nat
      BY <1>0, <2>1, <2>2 DEF Machine
    <2> QED BY <1>3, <2>3, NothingAdmitted DEF Cancel, ExecutorInv
  <1>4. ASSUME NEW o \in Ops, NEW outcome, NEW q \in BOOLEAN, Finish(o, outcome, q),
               strays' \subseteq strays \/ q
        PROVE  ExecutorInv'
    <2>1. cube' = [cube EXCEPT !.unsafe = cube.unsafe \/ q] /\ admitted' = admitted
      BY <1>4 DEF Finish
    <2>2. /\ cube'.present = cube.present /\ cube'.replaced = cube.replaced
          /\ cube'.position = cube.position
      BY <1>0, <2>1 DEF Machine
    <2>3. (cube.unsafe => cube'.unsafe) /\ (q => cube'.unsafe)
      BY <1>0, <2>1, Zenon DEF Machine
    <2>4. strays' # {} => cube'.unsafe \/ cube'.replaced
      BY <1>4, <2>2, <2>3, Zenon DEF ExecutorInv
    <2> QED BY <1>0, <2>1, <2>2, <2>4, NothingAdmitted
  <1>5. ASSUME NEW o \in Ops, Unstarted(o) \/ Complete(o) \/ Fail(o) PROVE ExecutorInv'
    <2>1. \E outcome \in Outcome, q \in BOOLEAN :
            Finish(o, outcome, q) /\ (strays' \subseteq strays \/ q)
      BY <1>5 DEF Unstarted, Complete, Fail, Outcome
    <2> QED BY <1>4, <2>1
  <1>6. ASSUME NEW o \in Ops, StartTool(o) \/ Deliver(o) PROVE ExecutorInv'
    BY <1>0, <1>6, NothingAdmitted DEF StartTool, Deliver, ExecutorInv
  <1>7. ASSUME NEW r \in rpcs, LoseRpc(r) PROVE ExecutorInv'
    BY <1>0, <1>7, NothingAdmitted DEF LoseRpc, ExecutorInv, executor
  <1>8. CASE RetireIdleRuntime \/ CloseExecutor
    <2>1. /\ cube'.present = cube.present /\ cube'.replaced = cube.replaced
          /\ (cube.unsafe => cube'.unsafe) /\ cube'.position = cube.position
      BY <1>0, <1>8 DEF RetireIdleRuntime, CloseExecutor, Machine
    <2> QED BY <1>0, <1>8, <2>1, NothingAdmitted DEF RetireIdleRuntime, CloseExecutor, ExecutorInv
  <1>9. CASE ForgetRuntime
    <2>1. ~cube'.present
      BY <1>0, <1>9 DEF ForgetRuntime, Machine
    <2> QED BY <1>9, <2>1, NothingAdmitted DEF ForgetRuntime
  <1>10. CASE RestartExecutor
    <2>1. cube'.replaced
      BY <1>0, <1>10 DEF RestartExecutor, Machine
    <2> QED BY <1>10, <2>1, NothingAdmitted DEF RestartExecutor
  <1>11. CASE WorkerStep \/ AssignmentStep \/ ProjectorStep \/ UNCHANGED vars
    <2>1. UNCHANGED <<cube, admitted, strays>>
      BY <1>11, ElsewhereUnchanged DEF executor, vars
    <2> QED BY <1>0, <2>1, NothingAdmitted DEF ExecutorInv
  <1>12. ASSUME NEW r \in rpcs, Submit(r) PROVE ExecutorInv'
    BY <1>1, <1>2, <1>12 DEF Submit
  <1> QED BY <1>3, <1>5, <1>6, <1>7, <1>8, <1>9, <1>10, <1>11, <1>12
          DEF Next, ExecutorStep, Admission

\* Commands are admitted in the order of the log, each at most once, whatever
\* Projectors, restarts and destructions do.
THEOREM AdmittedInLogOrderHolds == Spec => []AdmittedInLogOrder
  <1>1. Init => Grounded /\ ExecutorInv
    <2>1. Init => ExecutorInv
      BY DEF Init, ExecutorInv, AdmittedInLogOrder
    <2> QED BY <2>1, GroundedInit
  <1>2. Grounded /\ ExecutorInv /\ [Next]_vars => (Grounded /\ ExecutorInv)'
    BY GroundedStep, ExecutorInvStep
  <1>3. ExecutorInv => AdmittedInLogOrder
    BY DEF ExecutorInv
  <1> QED BY <1>1, <1>2, <1>3, PTL DEF Spec

\* A step admits a command or leaves the admitted ones alone; a quarantine ends
\* with the machine or with the executor.
LEMMA QuarantineStep ==
    ASSUME Grounded, ExecutorInv, Next
    PROVE  /\ admitted' # admitted => strays = {} /\ ~cube.unsafe /\ ~cube.replaced
           /\ cube.unsafe /\ ~cube'.unsafe => ~cube'.present \/ cube'.replaced
  <1>0. cube \in Machine(Len(log))
    BY DEF Grounded, TypeOK
  <1>1. ASSUME admitted' # admitted PROVE strays = {} /\ ~cube.unsafe /\ ~cube.replaced
    <2>1. PICK r \in rpcs : Verdict(r) = "admit"
      <3>1. ExecutorStep
        BY <1>1, ElsewhereUnchanged DEF Next, executor
      <3>2. PICK r \in rpcs : Submit(r)
        BY <1>1, <3>1 DEF ExecutorStep, Admission, Cancel, LoseRpc, StartTool, Unstarted,
                          Complete, Fail, Finish, Deliver, RetireIdleRuntime, ForgetRuntime,
                          CloseExecutor, RestartExecutor, executor
      <3> QED BY <1>1, <3>2 DEF Submit, Admit, Refuse
    <2> QED BY <2>1, AdmitMeans DEF ExecutorInv
  <1>2. ASSUME cube.unsafe, ~cube'.unsafe PROVE ~cube'.present \/ cube'.replaced
    <2>1. ExecutorStep
      BY <1>2, ElsewhereUnchanged DEF Next, executor
    <2>2. ASSUME NEW position, cube' = [cube EXCEPT !.position = position] PROVE FALSE
      BY <1>0, <1>2, <2>2 DEF Machine
    <2>3. ASSUME NEW q, cube' = [cube EXCEPT !.unsafe = @ \/ q] PROVE FALSE
      BY <1>0, <1>2, <2>3 DEF Machine
    <2>4. CASE Admission
      BY <1>2, <2>2, <2>4 DEF Admission, Submit, Admit, Refuse, Cancel
    <2>5. CASE \E o \in Ops : Unstarted(o) \/ Complete(o) \/ Fail(o)
      <3>1. \E q : cube' = [cube EXCEPT !.unsafe = @ \/ q]
        BY <2>5 DEF Unstarted, Complete, Fail, Finish
      <3> QED BY <2>3, <3>1
    <2>6. CASE \/ RetireIdleRuntime \/ CloseExecutor \/ \E r \in rpcs : LoseRpc(r)
               \/ \E o \in Ops : StartTool(o) \/ Deliver(o)
      BY <1>0, <1>2, <2>6 DEF RetireIdleRuntime, CloseExecutor, LoseRpc, StartTool, Deliver,
                              executor, Machine
    <2>7. CASE ForgetRuntime \/ RestartExecutor
      BY <1>0, <2>7 DEF ForgetRuntime, RestartExecutor, Machine
    <2> QED BY <2>1, <2>4, <2>5, <2>6, <2>7 DEF ExecutorStep
  <1> QED BY <1>1, <1>2

\* A condemned machine admits nothing, and stays condemned while it and its
\* executor exist.
THEOREM QuarantineHolds == Spec => QuarantineAdmitsNothing
  <1>1. Init => Grounded /\ ExecutorInv
    <2>1. Init => ExecutorInv
      BY DEF Init, ExecutorInv, AdmittedInLogOrder
    <2> QED BY <2>1, GroundedInit
  <1>2. Grounded /\ ExecutorInv /\ [Next]_vars => (Grounded /\ ExecutorInv)'
    BY GroundedStep, ExecutorInvStep
  <1>3. Grounded /\ ExecutorInv /\ [Next]_vars =>
          [/\ admitted' # admitted => strays = {} /\ ~cube.unsafe /\ ~cube.replaced
           /\ cube.unsafe /\ ~cube'.unsafe => ~cube'.present \/ cube'.replaced]_vars
    BY QuarantineStep DEF vars
  <1> QED BY <1>1, <1>2, <1>3, PTL DEF Spec, QuarantineAdmitsNothing
-----------------------------------------------------------------------------
(* A command leaves a Projector once.                                        *)

\* The log has one record per published command.
OneRecordEach ==
    /\ \A i, j \in DOMAIN log :
         log[i].kind = "command" /\ log[j].kind = "command" /\ log[i].id = log[j].id => i = j
    /\ \A i \in DOMAIN log : log[i].kind = "command" => call[log[i].id].published

\* The member that holds the partition knows the offset; what is being handed
\* off, or was, is behind it; and one handler carries each.
HandoffInv ==
    /\ \A p \in Projectors : Holds(p) => proj[p].current /\ proj[p].seen = group.offset
    /\ \A p \in Projectors : proj[p].pc \in {"route", "submit"} => Position(p) <= group.offset
    /\ \A o \in handed : \E i \in DOMAIN log : i <= group.offset /\ IsCommand(i, o)
    /\ \A p \in Projectors : proj[p].pc = "route" => RecordAt(p).id \notin handed
    /\ \A p, q \in Projectors :
         /\ proj[p].pc \in {"route", "submit"} /\ proj[q].pc \in {"route", "submit"}
         /\ Position(p) = Position(q)
         => p = q

HandlersQuiet ==
    \A q \in Projectors :
      /\ proj'[q].pc = "route" => proj[q].pc = "route" /\ proj'[q].cursor = proj[q].cursor
      /\ proj'[q].pc = "submit" => /\ proj[q].pc \in {"route", "submit"}
                                   /\ proj'[q].cursor = proj[q].cursor

AssignmentKept ==
    \A q \in Projectors : Holds(q)' => proj'[q].current /\ proj'[q].seen = group'.offset

HandedFromRoute ==
    /\ handed \subseteq handed'
    /\ \A o \in handed' : \/ o \in handed
                          \/ \E p \in Projectors : /\ proj[p].pc = "route" /\ o = RecordAt(p).id
                                                   /\ proj'[p].pc # "route"

\* A step that appends no command leaves each operation one record.
LEMMA NoNewCommand ==
    ASSUME Grounded, Extended, OneRecordEach,
           \A i \in DOMAIN log' : i \in DOMAIN log \/ log'[i].kind # "command",
           \A o \in Ops : call[o].published => call'[o].published
    PROVE  OneRecordEach'
  <1>1. \A i \in DOMAIN log' : log'[i].kind = "command" =>
          i \in DOMAIN log /\ log'[i] = log[i] /\ log[i].id \in Ops
    <2>1. \A i \in DOMAIN log : log[i] \in Record
      BY DEF Grounded, TypeOK
    <2> QED BY <2>1, RecordKinds DEF Extended
  <1> QED BY <1>1 DEF OneRecordEach

\* A Worker publishes an operation once.
LEMMA OneRecordEachStep ==
    ASSUME Grounded, OneRecordEach, [Next]_vars
    PROVE  OneRecordEach'
  <1>0. TypeOK /\ Extended /\ log \in Seq(Record)
    BY GroundedStep DEF Grounded, TypeOK
  <1>1. ASSUME NEW o \in Ops, Publish(o) PROVE OneRecordEach'
    <2> DEFINE n == Len(log) + 1
    <2>1. /\ [kind |-> "command", id |-> o] \in Record
          /\ log' = Append(log, [kind |-> "command", id |-> o])
      BY <1>1, RecordKinds DEF Publish
    <2>2. /\ DOMAIN log' = DOMAIN log \cup {n} /\ log'[n] = [kind |-> "command", id |-> o]
          /\ \A i \in DOMAIN log : log'[i] = log[i] /\ i # n
      BY <1>0, <2>1, AppendExtends DEF Extended
    <2>3. \A i \in DOMAIN log : log[i].kind = "command" => log[i].id # o
      BY <1>1 DEF Publish, OneRecordEach
    <2>4. \A x \in Ops : call[x].published => call'[x].published
      BY <1>0, <1>1 DEF Publish, TypeOK, CallRow
    <2>5. call'[o].published
      BY <1>0, <1>1 DEF Publish, TypeOK, CallRow
    <2>6. \A i \in DOMAIN log : log[i].kind = "command" => log[i].id \in Ops
      BY <1>0, RecordKinds
    <2>7. \A i, j \in DOMAIN log' :
            log'[i].kind = "command" /\ log'[j].kind = "command" /\ log'[i].id = log'[j].id
            => i = j
      BY <2>2, <2>3 DEF OneRecordEach
    <2>8. \A i \in DOMAIN log' : log'[i].kind = "command" => call'[log'[i].id].published
      BY <2>2, <2>4, <2>5, <2>6 DEF OneRecordEach
    <2> QED BY <2>7, <2>8 DEF OneRecordEach
  <1> DEFINE Quiet == /\ \A i \in DOMAIN log' : i \in DOMAIN log \/ log'[i].kind # "command"
                      /\ \A o \in Ops : call[o].published => call'[o].published
  <1>2. ASSUME NEW r \in Record, r.kind # "command", log' = Append(log, r), call' = call
        PROVE  Quiet
    BY <1>0, <1>2, AppendExtends
  <1>3. ASSUME log' = log, \A o \in Ops : call[o].published => call'[o].published
        PROVE  Quiet
    BY <1>3
  <1>4. ASSUME NEW o \in Ops, RequestAbort(o) \/ AbandonWait(o) \/ Accept(o) PROVE Quiet
    <2>1. CASE RequestAbort(o) \/ AbandonWait(o)
      <3> QED BY <1>0, <2>1, <1>3 DEF RequestAbort, AbandonWait, TypeOK, CallRow
    <2>2. CASE Accept(o)
      <3>1. PICK r \in replies : call' = [call EXCEPT ![o].outcome = r[2]]
        BY <2>2 DEF Accept
      <3> QED BY <1>0, <2>2, <3>1, <1>3 DEF Accept, TypeOK, CallRow
    <2> QED BY <1>4, <2>1, <2>2
  <1>5. ASSUME NEW o \in Ops, PublishCancel(o) PROVE Quiet
    <2>1. \A x \in Ops : call[x].published => call'[x].published
      BY <1>0, <1>5 DEF PublishCancel, TypeOK, CallRow
    <2>2. \A i \in DOMAIN log' : i \in DOMAIN log \/ log'[i].kind # "command"
      BY <1>0, <1>5, AppendExtends, RecordKinds DEF PublishCancel
    <2> QED BY <2>1, <2>2
  <1>6. ASSUME NEW b \in Bindings, Retire(b) \/ Seal(b) PROVE Quiet
    BY <1>2, <1>6, RecordKinds DEF Retire, Seal
  <1>7. ASSUME NEW b \in Bindings, WorkerDies(b) PROVE Quiet
    BY <1>3, <1>7 DEF WorkerDies
  <1>8. ASSUME AssignmentStep PROVE Quiet
    BY <1>3, <1>8 DEF AssignmentStep, Handover, Notice, Assign, CrashProjector, Progress, worker
  <1>9. ASSUME NEW p \in Projectors, NEW a, Settle(p, a) PROVE Quiet
    BY <1>0, <1>3, <1>9, QuarantineExtends DEF Settle
  <1>10. ASSUME ProjectorStep PROVE Quiet
    BY <1>3, <1>9, <1>10
       DEF ProjectorStep, Delivery, CommitEffect, SkipDispatched, Dispatch, SubmitAnswered,
           SubmitUnanswered, SendCancel, CancelAnswered, CancelUnanswered, ConsumeSeal,
           CommitLost, worker
  <1>11. ASSUME ExecutorStep PROVE Quiet
    BY <1>3, <1>11
       DEF ExecutorStep, Admission, Submit, Cancel, LoseRpc, StartTool, Unstarted, Complete,
           Fail, Finish, Deliver, RetireIdleRuntime, ForgetRuntime, CloseExecutor,
           RestartExecutor, worker
  <1>12. ASSUME UNCHANGED vars PROVE Quiet
    BY <1>3, <1>12 DEF vars, worker
  <1>13. ASSUME WorkerStep /\ ~(\E o \in Ops : Publish(o)) PROVE Quiet
    BY <1>4, <1>5, <1>6, <1>7, <1>13 DEF WorkerStep
  <1> HIDE DEF Quiet
  <1>14. Quiet => OneRecordEach'
    BY <1>0, NoNewCommand DEF Quiet
  <1> QED BY <1>1, <1>8, <1>10, <1>11, <1>12, <1>13, <1>14 DEF Next

\* Every step but the commit before a handoff.
LEMMA HandoffKept ==
    ASSUME Grounded, Extended, OneRecordEach, HandoffInv, TypeOK',
           group'.offset >= group.offset, HandlersQuiet, AssignmentKept, HandedFromRoute
    PROVE  HandoffInv'
  <1>0. /\ group.offset \in Nat /\ group'.offset \in Nat /\ log \in Seq(Record)
        /\ \A p \in Projectors : proj[p].cursor \in Nat /\ proj'[p].cursor \in Nat
    <2>1. Len(log) \in Nat /\ Len(log') \in Nat /\ log \in Seq(Record)
      BY DEF Extended, Grounded, TypeOK
    <2>2. /\ group \in Group(Len(log)) /\ group' \in Group(Len(log'))
          /\ \A p \in Projectors : proj[p] \in Member(Len(log)) /\ proj'[p] \in Member(Len(log'))
      BY DEF Grounded, TypeOK
    <2>3. group.offset \in Nat /\ group'.offset \in Nat
      BY <2>1, <2>2 DEF Group
    <2>4. ASSUME NEW p \in Projectors PROVE proj[p].cursor \in Nat /\ proj'[p].cursor \in Nat
      BY <2>1, <2>2 DEF Member
    <2> QED BY <2>1, <2>3, <2>4
  <1>1. \A p \in Projectors : proj[p].pc \in {"route", "submit"} =>
          /\ Position(p) \in DOMAIN log /\ RecordAt(p).kind = "command"
          /\ Position(p) <= group.offset
    BY <1>0 DEF Grounded, Located, At, HandoffInv, Position, RecordAt
  <1>2. \A p \in Projectors : proj'[p].pc \in {"route", "submit"} =>
          /\ proj[p].pc \in {"route", "submit"} /\ Position(p)' = Position(p)
          /\ RecordAt(p)' = RecordAt(p)
    BY <1>1 DEF HandlersQuiet, Position, RecordAt, Extended
  <1>3. \A o \in handed' : \E i \in DOMAIN log : i <= group.offset /\ IsCommand(i, o)
    BY <1>1 DEF HandedFromRoute, HandoffInv, IsCommand, RecordAt
  <1>4. \A o \in handed' : \E i \in DOMAIN log' : i <= group'.offset /\ IsCommand(i, o)'
    <2> SUFFICES ASSUME NEW o \in handed'
                 PROVE  \E i \in DOMAIN log' : i <= group'.offset /\ IsCommand(i, o)'
      OBVIOUS
    <2>1. PICK i \in DOMAIN log : i <= group.offset /\ IsCommand(i, o)
      BY <1>3
    <2>2. i \in DOMAIN log' /\ log'[i] = log[i] /\ i \in Nat
      BY <1>0 DEF Extended
    <2> QED BY <1>0, <2>1, <2>2 DEF IsCommand
  <1>5. \A p \in Projectors : proj'[p].pc \in {"route", "submit"} => Position(p)' <= group'.offset
    <2> SUFFICES ASSUME NEW p \in Projectors, proj'[p].pc \in {"route", "submit"}
                 PROVE  Position(p)' <= group'.offset
      OBVIOUS
    <2>1. Position(p)' = Position(p) /\ Position(p) <= group.offset /\ Position(p) \in Nat
      BY <1>0, <1>1, <1>2 DEF Position
    <2> QED BY <1>0, <2>1
  <1>6. ASSUME NEW p \in Projectors, proj'[p].pc = "route", RecordAt(p)'.id \in handed'
        PROVE  FALSE
    <2>1. proj[p].pc = "route" /\ RecordAt(p)' = RecordAt(p)
      BY <1>2, <1>6 DEF HandlersQuiet
    <2>2. RecordAt(p).id \notin handed
      BY <2>1 DEF HandoffInv
    <2>3. PICK q \in Projectors : /\ proj[q].pc = "route" /\ RecordAt(p).id = RecordAt(q).id
                                  /\ proj'[q].pc # "route"
      BY <1>6, <2>1, <2>2 DEF HandedFromRoute
    <2>4. Position(p) = Position(q)
      BY <1>1, <2>1, <2>3 DEF OneRecordEach, RecordAt
    <2>5. p = q
      BY <2>1, <2>3, <2>4 DEF HandoffInv
    <2> QED BY <1>6, <2>3, <2>5
  <1>7. \A p, q \in Projectors :
          /\ proj'[p].pc \in {"route", "submit"} /\ proj'[q].pc \in {"route", "submit"}
          /\ Position(p)' = Position(q)'
          => p = q
    BY <1>2 DEF HandoffInv
  <1>8. \A p \in Projectors : Holds(p)' => proj'[p].current /\ proj'[p].seen = group'.offset
    BY DEF AssignmentKept
  <1> QED BY <1>4, <1>5, <1>6, <1>7, <1>8 DEF HandoffInv

\* A handler that ends is idle and, if it is still assigned, knows the offset
\* as before.
LEMMA AdvancedMeans ==
    ASSUME TypeOK, NEW p \in Projectors
    PROVE  /\ Advanced(proj[p]).pc = "idle"
           /\ proj[p].current => /\ Advanced(proj[p]).current
                                 /\ Advanced(proj[p]).seen = proj[p].seen
  <1>1. proj[p] \in Member(Len(log))
    BY DEF TypeOK
  <1>2. CASE proj[p].current
    <2> DEFINE q == [proj[p] EXCEPT !.pc = "idle", !.tries = 0, !.answer = "none",
                                    !.cursor = @ + 1]
    <2>1. q.pc = "idle" /\ q.current = proj[p].current /\ q.seen = proj[p].seen
      BY <1>1 DEF Member
    <2> QED BY <1>2, <2>1 DEF Advanced
  <1>3. CASE ~proj[p].current
    BY <1>3 DEF Advanced, Unassigned
  <1> QED BY <1>2, <1>3

\* The steps that leave the group alone and in which one handler at most ends
\* or goes on.
LEMMA HandlerSteps ==
    ASSUME Grounded, HandoffInv, group' = group,
           \A q \in Projectors :
             /\ proj'[q].pc \in {"route", "submit"} =>
                  proj'[q].pc = proj[q].pc /\ proj'[q].cursor = proj[q].cursor
             /\ proj[q].current => proj'[q].current /\ proj'[q].seen = proj[q].seen,
           handed' = handed
    PROVE  /\ HandlersQuiet /\ AssignmentKept /\ HandedFromRoute
           /\ group'.offset >= group.offset
  <1>1. group.offset \in Nat
    BY DEF Grounded, TypeOK, Group
  <1>2. AssignmentKept
    BY DEF AssignmentKept, HandoffInv, Holds
  <1> QED BY <1>1, <1>2 DEF HandlersQuiet, HandedFromRoute

\* A revoked or new assignment starts at the committed offset.
LEMMA AssignmentHandoff ==
    ASSUME Grounded, HandoffInv, AssignmentStep
    PROVE  /\ HandlersQuiet /\ AssignmentKept /\ HandedFromRoute
           /\ group'.offset >= group.offset
  <1>0. /\ TypeOK /\ group \in Group(Len(log)) /\ group.offset \in Nat
        /\ proj \in [Projectors -> Member(Len(log))]
        /\ \A q \in Projectors : proj[q].cursor \in Nat /\ proj[q].seen \in Nat
    <2>1. Len(log) \in Nat
      BY DEF Grounded, TypeOK
    <2> QED BY <2>1 DEF Grounded, TypeOK, Group, Member
  <1>1. handed' = handed
    BY DEF AssignmentStep, Handover, Notice, Assign, CrashProjector, Progress
  <1>2. HandedFromRoute
    BY <1>1 DEF HandedFromRoute
  <1>3. ASSUME NEW p \in Projectors, Handover(p)
        PROVE  HandlersQuiet /\ AssignmentKept /\ group'.offset >= group.offset
    <2>1. group'.offset = group.offset /\ ~group'.joined /\ proj' = proj
      BY <1>0, <1>3 DEF Handover, Group
    <2> QED BY <1>0, <2>1 DEF HandlersQuiet, AssignmentKept, Holds
  <1>4. ASSUME NEW p \in Projectors, Notice(p)
        PROVE  HandlersQuiet /\ AssignmentKept /\ group'.offset >= group.offset
    <2>1. ~Holds(p) /\ group' = group /\ \A q \in Projectors \ {p} : proj'[q] = proj[q]
      BY <1>0, <1>4 DEF Notice
    <2>2. \/ proj'[p].pc = "idle"
          \/ proj'[p].pc = proj[p].pc /\ proj'[p].cursor = proj[p].cursor
      BY <1>0, <1>4 DEF Notice, Unassigned, Member
    <2>3. HandlersQuiet
      BY <2>1, <2>2 DEF HandlersQuiet
    <2>4. AssignmentKept
      BY <2>1 DEF AssignmentKept, HandoffInv, Holds
    <2> QED BY <1>0, <2>1, <2>3, <2>4
  <1>5. ASSUME NEW p \in Projectors, Assign(p)
        PROVE  HandlersQuiet /\ AssignmentKept /\ group'.offset >= group.offset
    <2>1. /\ group'.owner = p /\ group'.offset = group.offset
          /\ \A q \in Projectors \ {p} : proj'[q] = proj[q]
      BY <1>0, <1>5 DEF Assign, Group
    <2>2. proj'[p].pc = "idle" /\ proj'[p].current /\ proj'[p].seen = group.offset
      BY <1>0, <1>5 DEF Assign, Unassigned
    <2>3. HandlersQuiet
      BY <2>1, <2>2 DEF HandlersQuiet
    <2>4. AssignmentKept
      BY <2>1, <2>2 DEF AssignmentKept, Holds
    <2> QED BY <1>0, <2>1, <2>3, <2>4
  <1>6. ASSUME NEW p \in Projectors, CrashProjector(p)
        PROVE  HandlersQuiet /\ AssignmentKept /\ group'.offset >= group.offset
    <2>1. /\ group'.owner = group.owner /\ group'.offset = group.offset
          /\ group'.joined => group.joined /\ group.owner # p
          /\ \A q \in Projectors \ {p} : proj'[q] = proj[q]
      <3>1. group' = [group EXCEPT !.joined = group.joined /\ group.owner # p]
        BY <1>6 DEF CrashProjector
      <3>2. group'.owner = group.owner /\ group'.offset = group.offset
        BY <1>0, <3>1 DEF Group
      <3>3. group'.joined => group.joined /\ group.owner # p
        BY <1>0, <3>1, Zenon DEF Group
      <3> QED BY <1>0, <1>6, <3>2, <3>3 DEF CrashProjector
    <2>2. proj'[p].pc = "idle"
      BY <1>0, <1>6 DEF CrashProjector, Unassigned
    <2>3. HandlersQuiet
      BY <2>1, <2>2 DEF HandlersQuiet
    <2>4. AssignmentKept
      BY <2>1 DEF AssignmentKept, HandoffInv, Holds
    <2> QED BY <1>0, <2>1, <2>3, <2>4
  <1>7. ASSUME NEW p \in Projectors, Progress(p)
        PROVE  HandlersQuiet /\ AssignmentKept /\ group'.offset >= group.offset
    <2>1. /\ Holds(p) /\ proj[p].current /\ proj[p].seen = group.offset
          /\ proj[p].cursor > proj[p].seen
      BY <1>7 DEF Progress, HandoffInv
    <2>2. /\ group'.offset = proj[p].cursor /\ group'.owner = group.owner
          /\ group'.joined = group.joined
          /\ \A q \in Projectors \ {p} : proj'[q] = proj[q]
      BY <1>0, <1>7 DEF Progress, Group
    <2>3. /\ proj'[p].pc = proj[p].pc /\ proj'[p].cursor = proj[p].cursor
          /\ proj'[p].current = proj[p].current /\ proj'[p].seen = proj[p].cursor
      BY <1>0, <1>7 DEF Progress, Member
    <2>4. HandlersQuiet
      BY <2>2, <2>3 DEF HandlersQuiet
    <2>5. AssignmentKept
      BY <2>1, <2>2, <2>3 DEF AssignmentKept, Holds
    <2>6. group'.offset >= group.offset
      BY <1>0, <2>1, <2>2
    <2> QED BY <2>4, <2>5, <2>6
  <1> QED BY <1>2, <1>3, <1>4, <1>5, <1>6, <1>7 DEF AssignmentStep

\* The executor hands nothing off.
LEMMA ExecutorHandoff ==
    ASSUME Grounded, HandoffInv, ExecutorStep
    PROVE  /\ HandlersQuiet /\ AssignmentKept /\ HandedFromRoute
           /\ group'.offset >= group.offset
  <1>1. group' = group /\ handed' = handed
    BY DEF ExecutorStep, Admission, Submit, Cancel, LoseRpc, StartTool, Unstarted, Complete, Fail,
           Finish, Deliver, RetireIdleRuntime, ForgetRuntime, CloseExecutor, RestartExecutor,
           projection
  <1>2. proj' = proj \/ \E r \in rpcs : \E a : proj' = Answered(r, a)
    BY DEF ExecutorStep, Admission, Submit, Admit, Refuse, Cancel, LoseRpc, StartTool, Unstarted, Complete, Fail,
           Finish, Deliver, RetireIdleRuntime, ForgetRuntime, CloseExecutor, RestartExecutor,
           projection
  <1>3. ASSUME NEW r \in rpcs, NEW a, proj' = Answered(r, a), NEW q \in Projectors
        PROVE  /\ proj'[q].pc = proj[q].pc /\ proj'[q].cursor = proj[q].cursor
               /\ proj'[q].current = proj[q].current /\ proj'[q].seen = proj[q].seen
    <2>1. r.from \in Projectors /\ proj \in [Projectors -> Member(Len(log))]
      BY DEF Grounded, TypeOK, Rpc
    <2> QED BY <1>3, <2>1 DEF Answered, Member
  <1>4. \A q \in Projectors :
          /\ proj'[q].pc = proj[q].pc /\ proj'[q].cursor = proj[q].cursor
          /\ proj[q].current => proj'[q].current /\ proj'[q].seen = proj[q].seen
    BY <1>2, <1>3
  <1> QED BY <1>1, <1>4, HandlerSteps

\* Nor does the Worker.
LEMMA WorkerHandoff ==
    ASSUME Grounded, HandoffInv, WorkerStep
    PROVE  /\ HandlersQuiet /\ AssignmentKept /\ HandedFromRoute
           /\ group'.offset >= group.offset
  <1>1. group' = group /\ handed' = handed /\ proj' = proj
    BY DEF WorkerStep, Publish, RequestAbort, PublishCancel, AbandonWait, Accept, WorkerDies,
           Retire, Seal, projection
  <1> QED BY <1>1, HandlerSteps

\* Nor a Projector that does not commit its effect.
LEMMA ProjectorHandoff ==
    ASSUME Grounded, HandoffInv, NEW p \in Projectors, Delivery(p) \/ CommitLost(p),
           ~CommitEffect(p)
    PROVE  /\ HandlersQuiet /\ AssignmentKept /\ HandedFromRoute
           /\ group'.offset >= group.offset
  <1> DEFINE Goal == /\ HandlersQuiet /\ AssignmentKept /\ HandedFromRoute
                     /\ group'.offset >= group.offset
  <1>0. /\ TypeOK /\ group \in Group(Len(log)) /\ group.offset \in Nat
        /\ proj \in [Projectors -> Member(Len(log))] /\ Position(p) \in Nat
    <2>1. Len(log) \in Nat
      BY DEF Grounded, TypeOK
    <2> QED BY <2>1 DEF Grounded, TypeOK, Group, Member, Position
  <1>a. ASSUME group' = group, handed' = handed, \A q \in Projectors \ {p} : proj'[q] = proj[q],
               proj'[p].pc \in {"route", "submit"} =>
                 proj'[p].pc = proj[p].pc /\ proj'[p].cursor = proj[p].cursor,
               proj[p].current => proj'[p].current /\ proj'[p].seen = proj[p].seen
        PROVE  Goal
    BY <1>a, HandlerSteps
  <1> HIDE DEF Goal
  <1>1. ASSUME \/ SkipDispatched(p) \/ CancelAnswered(p) \/ (\E a : Settle(p, a))
        PROVE  Goal
    <2>1. group' = group /\ handed' = handed /\ proj' = [proj EXCEPT ![p] = Advanced(proj[p])]
      BY <1>1 DEF SkipDispatched, CancelAnswered, Settle
    <2> QED BY <1>0, <1>a, <2>1, AdvancedMeans
  <1>2. ASSUME ConsumeSeal(p) PROVE Goal
    <2>1. /\ proj[p].current /\ group' = group /\ handed' = handed
          /\ proj' = [proj EXCEPT ![p] = [Advanced(proj[p]) EXCEPT
                                            !.closed = @ \cup {RecordAt(p).id}]]
      BY <1>2 DEF ConsumeSeal, Delivering
    <2>2. proj'[p].pc = "idle" /\ proj'[p].current /\ proj'[p].seen = proj[p].seen
      <3>1. At(p, {"seal"})
        BY <1>2 DEF ConsumeSeal, Delivering
      <3>2. proj[p] \in Member(Len(log)) /\ proj[p].cursor < Len(log) /\ Len(log) \in Nat
        BY <1>0, <3>1, RecordRead
      <3>3. Advanced(proj[p]) \in Member(Len(log))
        BY <3>2, AdvancedType
      <3>4. proj'[p].pc = Advanced(proj[p]).pc /\ proj'[p].current = Advanced(proj[p]).current
            /\ proj'[p].seen = Advanced(proj[p]).seen
        BY <1>0, <2>1, <3>3 DEF Member
      <3> QED BY <1>0, <2>1, <3>4, AdvancedMeans
    <2> QED BY <1>0, <1>a, <2>1, <2>2
  <1>3. ASSUME SendCancel(p) PROVE Goal
    <2>1. group' = group /\ handed' = handed /\ \A q \in Projectors \ {p} : proj'[q] = proj[q]
      BY <1>0, <1>3 DEF SendCancel
    <2>2. proj'[p].pc = "cancel" /\ proj'[p].current = proj[p].current
          /\ proj'[p].seen = proj[p].seen
      BY <1>0, <1>3 DEF SendCancel, Member
    <2> QED BY <1>a, <2>1, <2>2
  <1>4. ASSUME CancelUnanswered(p) PROVE Goal
    <2>1. group' = group /\ handed' = handed /\ \A q \in Projectors \ {p} : proj'[q] = proj[q]
      BY <1>0, <1>4 DEF CancelUnanswered
    <2>2. CASE proj' = [proj EXCEPT ![p] = Advanced(proj[p])]
      BY <1>0, <1>a, <2>1, <2>2, AdvancedMeans
    <2>3. CASE proj' = [proj EXCEPT ![p].tries = 2, ![p].answer = "none"]
      <3>1. /\ proj'[p].pc = proj[p].pc /\ proj'[p].cursor = proj[p].cursor
            /\ proj'[p].current = proj[p].current /\ proj'[p].seen = proj[p].seen
        BY <1>0, <2>3 DEF Member
      <3> QED BY <1>a, <2>1, <3>1
    <2> QED BY <1>4, <2>2, <2>3 DEF CancelUnanswered
  <1>5. ASSUME Dispatch(p) PROVE Goal
    <2>1. /\ proj[p].pc = "route" /\ group' = group
          /\ \A q \in Projectors \ {p} : proj'[q] = proj[q]
      BY <1>0, <1>5 DEF Dispatch
    <2>2. CASE /\ ~proj[p].current /\ handed' = handed
               /\ proj' = [proj EXCEPT ![p] = Unassigned]
      <3>1. proj'[p].pc = "idle"
        BY <1>0, <2>2 DEF Unassigned
      <3> QED BY <1>a, <2>1, <2>2, <3>1
    <2>3. CASE handed' = handed /\ proj' = [proj EXCEPT ![p] = Advanced(proj[p])]
      BY <1>0, <1>a, <2>1, <2>3, AdvancedMeans
    <2>4. CASE /\ handed' = handed \cup {RecordAt(p).id}
               /\ proj' = [proj EXCEPT ![p].pc = "submit"]
      <3>1. /\ proj'[p].pc = "submit" /\ proj'[p].cursor = proj[p].cursor
            /\ proj'[p].current = proj[p].current /\ proj'[p].seen = proj[p].seen
        BY <1>0, <2>4 DEF Member
      <3>2. HandlersQuiet
        BY <2>1, <3>1 DEF HandlersQuiet
      <3>3. AssignmentKept
        BY <2>1, <3>1 DEF AssignmentKept, HandoffInv, Holds
      <3>4. HandedFromRoute
        BY <2>1, <2>4, <3>1 DEF HandedFromRoute
      <3> QED BY <1>0, <2>1, <3>2, <3>3, <3>4 DEF Goal
    <2> QED BY <1>5, <2>2, <2>3, <2>4 DEF Dispatch
  <1>6. ASSUME CommitLost(p) PROVE Goal
    <2>1. Holds(p) /\ Position(p) > proj[p].seen /\ handed' = handed
      BY <1>6 DEF CommitLost
    <2>2. /\ group'.offset = Position(p) /\ ~group'.joined
          /\ \A q \in Projectors \ {p} : proj'[q] = proj[q]
      BY <1>0, <1>6 DEF CommitLost, Group
    <2>3. proj'[p].pc = "idle"
      BY <1>0, <1>6 DEF CommitLost, Unassigned
    <2>4. group'.offset >= group.offset
      BY <1>0, <2>1, <2>2 DEF HandoffInv
    <2>5. HandlersQuiet
      BY <2>2, <2>3 DEF HandlersQuiet
    <2>6. AssignmentKept
      BY <2>2 DEF AssignmentKept, Holds
    <2> QED BY <2>1, <2>4, <2>5, <2>6 DEF HandedFromRoute, Goal
  <1> QED BY <1>1, <1>2, <1>3, <1>4, <1>5, <1>6
          DEF Delivery, SubmitAnswered, SubmitUnanswered, Goal

\* The commit makes the record the last one behind the offset: no other handler
\* has it, and it was not handed off before.
LEMMA CommitHandoff ==
    ASSUME Grounded, OneRecordEach, HandoffInv, NEW p \in Projectors, CommitEffect(p)
    PROVE  HandoffInv'
  <1>0. /\ group \in Group(Len(log)) /\ group.offset \in Nat /\ log \in Seq(Record)
        /\ proj \in [Projectors -> Member(Len(log))]
        /\ \A q \in Projectors : Position(q) \in Nat
    <2>1. Len(log) \in Nat
      BY DEF Grounded, TypeOK
    <2> QED BY <2>1 DEF Grounded, TypeOK, Group, Member, Position
  <1>1. /\ At(p, {"command"}) /\ Holds(p) /\ proj[p].current /\ proj[p].seen = group.offset
        /\ Position(p) > group.offset /\ log' = log /\ handed' = handed
    BY DEF CommitEffect, Delivering, HandoffInv
  <1>2. /\ group'.offset = Position(p) /\ group'.owner = group.owner
        /\ \A q \in Projectors \ {p} : proj'[q] = proj[q]
    BY <1>0 DEF CommitEffect, Group
  <1>3. /\ proj'[p].pc = "route" /\ proj'[p].cursor = proj[p].cursor
        /\ proj'[p].current = proj[p].current /\ proj'[p].seen = Position(p)
    BY <1>0 DEF CommitEffect, Member
  <1>4. \A q \in Projectors : Position(q)' = Position(q) /\ RecordAt(q)' = RecordAt(q)
    BY <1>1, <1>2, <1>3 DEF Position, RecordAt
  <1>5. \A q \in Projectors \ {p} : proj[q].pc \in {"route", "submit"} =>
          Position(q) <= group.offset /\ Position(q) # Position(p)
    BY <1>0, <1>1 DEF HandoffInv
  <1>6. RecordAt(p).id \notin handed
    <2> SUFFICES ASSUME RecordAt(p).id \in handed PROVE FALSE
      OBVIOUS
    <2>1. PICK i \in DOMAIN log : i <= group.offset /\ IsCommand(i, RecordAt(p).id)
      BY DEF HandoffInv
    <2>2. Position(p) \in DOMAIN log /\ RecordAt(p).kind = "command"
      BY <1>0, <1>1 DEF At, RecordAt
    <2>3. i = Position(p)
      BY <2>1, <2>2 DEF OneRecordEach, IsCommand, RecordAt
    <2> QED BY <1>0, <1>1, <2>1, <2>3
  <1>7. \A q \in Projectors : Holds(q)' => proj'[q].current /\ proj'[q].seen = group'.offset
    BY <1>1, <1>2, <1>3 DEF Holds
  <1>8. \A q \in Projectors : proj'[q].pc \in {"route", "submit"} => Position(q)' <= group'.offset
    <2> SUFFICES ASSUME NEW q \in Projectors, proj'[q].pc \in {"route", "submit"}
                 PROVE  Position(q) <= Position(p)
      BY <1>2, <1>4
    <2> QED BY <1>0, <1>1, <1>2, <1>5
  <1>9. \A o \in handed' : \E i \in DOMAIN log' : i <= group'.offset /\ IsCommand(i, o)'
    <2> SUFFICES ASSUME NEW o \in handed
                 PROVE  \E i \in DOMAIN log : i <= Position(p) /\ IsCommand(i, o)
      BY <1>1, <1>2 DEF IsCommand
    <2>1. PICK i \in DOMAIN log : i <= group.offset /\ IsCommand(i, o)
      BY DEF HandoffInv
    <2> QED BY <1>0, <1>1, <2>1
  <1>10. \A q \in Projectors : proj'[q].pc = "route" => RecordAt(q)'.id \notin handed'
    BY <1>1, <1>2, <1>4, <1>6 DEF HandoffInv
  <1>11. \A q, s \in Projectors :
           /\ proj'[q].pc \in {"route", "submit"} /\ proj'[s].pc \in {"route", "submit"}
           /\ Position(q)' = Position(s)'
           => q = s
    BY <1>2, <1>4, <1>5 DEF HandoffInv
  <1> QED BY <1>7, <1>8, <1>9, <1>10, <1>11 DEF HandoffInv

\* Whatever was handed off lies below the committed offset, in every step.
LEMMA HandoffStep ==
    ASSUME Grounded, OneRecordEach, HandoffInv, [Next]_vars
    PROVE  HandoffInv'
  <1>1. Extended /\ TypeOK'
    BY GroundedStep DEF Grounded
  <1>2. CASE \E p \in Projectors : CommitEffect(p)
    BY <1>2, CommitHandoff
  <1>3. CASE UNCHANGED vars
    <2>1. group' = group /\ handed' = handed /\ proj' = proj
      BY <1>3 DEF vars, projection
    <2> QED BY <1>1, <2>1, HandlerSteps, HandoffKept
  <1>4. CASE WorkerStep \/ AssignmentStep \/ ExecutorStep
    BY <1>1, <1>4, WorkerHandoff, AssignmentHandoff, ExecutorHandoff, HandoffKept
  <1>5. CASE ProjectorStep /\ ~(\E p \in Projectors : CommitEffect(p))
    BY <1>1, <1>5, ProjectorHandoff, HandoffKept DEF ProjectorStep
  <1> QED BY <1>2, <1>3, <1>4, <1>5 DEF Next

\* At first nothing was handed off.
LEMMA HandoffInit ==
    ASSUME Init
    PROVE  OneRecordEach /\ HandoffInv
  <1>1. PICK p \in Projectors :
          /\ group = [owner |-> p, joined |-> TRUE, offset |-> 0]
          /\ proj = [q \in Projectors |-> [Unassigned EXCEPT !.current = q = p]]
    BY DEF Init
  <1>2. \A q \in Projectors : proj[q].pc = "idle" /\ proj[q].seen = 0
    BY <1>1 DEF Unassigned
  <1>3. proj[p].current
    <2>1. proj[p] = [Unassigned EXCEPT !.current = TRUE]
      BY <1>1
    <2> QED BY <2>1 DEF Unassigned
  <1>4. log = <<>> /\ handed = {}
    BY DEF Init
  <1> QED BY <1>1, <1>2, <1>3, <1>4 DEF OneRecordEach, HandoffInv, Holds

\* A command leaves a Projector once, in any assignment: whatever is delivered
\* again after a crash, a handover or a lost commit is not handed off again.
THEOREM HandedOffOnceHolds == Spec => HandedOffOnce
  <1> DEFINE I == Grounded /\ OneRecordEach /\ HandoffInv
  <1>1. Init => I
    BY GroundedInit, HandoffInit
  <1>2. I /\ [Next]_vars => I'
    BY GroundedStep, OneRecordEachStep, HandoffStep
  <1>3. I => [\A p \in Projectors :
                proj[p].pc = "route" /\ proj'[p].pc = "submit" => RecordAt(p).id \notin handed]_vars
    BY DEF HandoffInv
  <1> HIDE DEF I
  <1> QED BY <1>1, <1>2, <1>3, PTL DEF Spec, HandedOffOnce
-----------------------------------------------------------------------------
(* What the Worker is told.                                                  *)

CommandsOf(o) == {r \in rpcs : r.kind = "command" /\ r.id = o}

\* The group is past the record of o and no handler is about to hand it off.
Passed(o) ==
    /\ \A p \in Projectors : proj[p].pc = "route" => RecordAt(p).id # o
    /\ \E i \in DOMAIN log : i <= group.offset /\ IsCommand(i, o)

\* Nor is it on its way: the executor will never see it again.
Spent(o) == Passed(o) /\ CommandsOf(o) = {}

\* One request carries a command, before the executor knows of it.
RequestInv ==
    /\ \A r \in rpcs : r.kind = "command" => r.id \in handed /\ exec[r.id] = "none"
    /\ \A r, s \in rpcs : r.kind = "command" /\ s.kind = "command" /\ r.id = s.id => r = s
    /\ \A o \in Ops : exec[o] # "none" => o \in handed

\* An answer to a handler is about its own request, which has arrived then.
AnswerInv ==
    \A p \in Projectors :
      /\ proj[p].pc \in {"idle", "route"} => proj[p].answer = "none"
      /\ proj[p].pc = "submit" =>
           /\ RecordAt(p).id \in handed
           /\ proj[p].answer # "none" => Spent(RecordAt(p).id)
           /\ Effect(proj[p].answer) = "not_started" => exec[RecordAt(p).id] = "none"

\* A result tells whether the process was started.
RanInv ==
    \A o \in Ops :
      /\ exec[o] \in {"none", "admitted"} => o \notin ran
      /\ exec[o] = "running" => o \in ran
      /\ exec[o] = "finished" =>
           /\ result[o] = "not_started" => o \notin ran
           /\ result[o] = "result" => o \in ran

Honest(o, outcome) ==
    /\ outcome = "not_started" => Spent(o) /\ exec[o] \in {"none", "gone"} /\ o \notin ran
    /\ outcome = "result" => exec[o] = "gone" /\ o \in ran /\ result[o] = "result"

ReplyInv == \A r \in replies : Honest(r[1], r[2])

OutcomeInv == RequestInv /\ AnswerInv /\ RanInv /\ ReplyInv

PathInv == Grounded /\ OneRecordEach /\ HandoffInv

\* A command that was passed stays passed, in every step.
LEMMA PassedStays ==
    ASSUME PathInv, [Next]_vars, NEW o \in Ops, Passed(o)
    PROVE  Passed(o)'
  <1>0. /\ Grounded /\ OneRecordEach /\ HandoffInv /\ Extended /\ TypeOK'
        /\ group.offset \in Nat /\ log \in Seq(Record) /\ group'.offset \in Nat
        /\ proj \in [Projectors -> Member(Len(log))]
    <2>1. Grounded /\ OneRecordEach /\ HandoffInv /\ Extended /\ TypeOK'
      BY GroundedStep DEF PathInv, Grounded
    <2>2. Len(log) \in Nat /\ Len(log') \in Nat /\ group \in Group(Len(log))
          /\ group' \in Group(Len(log')) /\ log \in Seq(Record)
          /\ proj \in [Projectors -> Member(Len(log))]
      BY <2>1 DEF Grounded, TypeOK, Extended
    <2> QED BY <2>1, <2>2 DEF Group
  <1>1. PICK i \in DOMAIN log : i <= group.offset /\ IsCommand(i, o)
    BY DEF Passed
  <1>2. i \in DOMAIN log' /\ IsCommand(i, o)' /\ i \in Nat
    BY <1>0, <1>1 DEF Extended, IsCommand
  <1>a. ASSUME HandlersQuiet, group'.offset >= group.offset PROVE Passed(o)'
    <2>1. \A p \in Projectors : proj'[p].pc = "route" => RecordAt(p)'.id # o
      <3> SUFFICES ASSUME NEW p \in Projectors, proj'[p].pc = "route"
                   PROVE  RecordAt(p)'.id # o
        OBVIOUS
      <3>1. proj[p].pc = "route" /\ Position(p)' = Position(p)
        BY <1>a DEF HandlersQuiet, Position
      <3>2. Position(p) \in DOMAIN log
        <4>1. At(p, {"command"})
          BY <1>0, <3>1 DEF Grounded, Located
        <4> QED BY <1>0, <4>1, RecordRead DEF Grounded
      <3>3. RecordAt(p)' = RecordAt(p)
        BY <1>0, <3>1, <3>2 DEF RecordAt, Extended
      <3> QED BY <3>1, <3>3 DEF Passed
    <2>2. i <= group'.offset
      BY <1>0, <1>a, <1>1, <1>2
    <2> QED BY <1>2, <2>1, <2>2 DEF Passed
  <1>3. CASE WorkerStep \/ AssignmentStep \/ ExecutorStep
    BY <1>0, <1>a, <1>3, WorkerHandoff, AssignmentHandoff, ExecutorHandoff
  <1>4. CASE ProjectorStep /\ ~(\E p \in Projectors : CommitEffect(p))
    BY <1>0, <1>a, <1>4, ProjectorHandoff DEF ProjectorStep
  <1>5. CASE UNCHANGED vars
    BY <1>0, <1>5, <1>a DEF vars, projection, HandlersQuiet
  <1>6. ASSUME NEW p \in Projectors, CommitEffect(p) PROVE Passed(o)'
    <2>1. /\ At(p, {"command"}) /\ Holds(p) /\ Position(p) > proj[p].seen
          /\ proj[p].seen = group.offset /\ log' = log
      BY <1>0, <1>6 DEF CommitEffect, Delivering, HandoffInv
    <2>2. /\ group'.offset = Position(p) /\ \A q \in Projectors \ {p} : proj'[q] = proj[q]
      <3>1. group \in Group(Len(log))
        BY <1>0 DEF Grounded, TypeOK
      <3> QED BY <1>0, <1>6, <3>1 DEF CommitEffect, Group
    <2>3. proj'[p].cursor = proj[p].cursor
      BY <1>0, <1>6 DEF CommitEffect, Member
    <2>4. \A q \in Projectors : RecordAt(q)' = RecordAt(q)
      BY <2>1, <2>2, <2>3 DEF RecordAt, Position
    <2>5. RecordAt(p).id # o
      <3>1. Position(p) \in DOMAIN log /\ log[Position(p)].kind = "command"
        BY <1>0, <2>1, RecordRead DEF Grounded, RecordAt
      <3>2. Position(p) # i
        BY <1>0, <1>1, <1>2, <2>1
      <3> QED BY <1>1, <1>0, <3>1, <3>2 DEF OneRecordEach, IsCommand, RecordAt
    <2>6. i <= group'.offset
      <3>1. Position(p) \in Nat
        BY <1>0, <2>1, RecordRead DEF Grounded
      <3> QED BY <1>0, <1>1, <1>2, <2>1, <2>2, <3>1
    <2> QED BY <1>2, <2>2, <2>4, <2>5, <2>6 DEF Passed
  <1> QED BY <1>3, <1>4, <1>5, <1>6 DEF Next

\* What was handed off was passed.
LEMMA HandedPassed ==
    ASSUME PathInv, NEW o \in handed
    PROVE  Passed(o)
  BY DEF PathInv, HandoffInv, Passed

\* What a step may do to the executor's part of an operation.
LEMMA OperationSteps ==
    ASSUME TypeOK, [Next]_vars, NEW o \in Ops
    PROVE  /\ \/ exec'[o] = exec[o]
              \/ /\ exec[o] \notin Held /\ exec'[o] = "admitted"
                 /\ \E r \in CommandsOf(o) : Submit(r) /\ rpcs' = rpcs \ {r}
              \/ exec[o] \in Held
           /\ o \in ran' => o \in ran \/ (exec[o] = "admitted" /\ exec'[o] = "running")
           /\ o \in ran => o \in ran'
           /\ result'[o] = result[o] \/ exec[o] \in Unfinished
  <1> DEFINE Moves ==
             /\ \/ exec'[o] = exec[o]
                \/ /\ exec[o] \notin Held /\ exec'[o] = "admitted"
                   /\ \E r \in CommandsOf(o) : Submit(r) /\ rpcs' = rpcs \ {r}
                \/ exec[o] \in Held
             /\ o \in ran' => o \in ran \/ (exec[o] = "admitted" /\ exec'[o] = "running")
             /\ o \in ran => o \in ran'
             /\ result'[o] = result[o] \/ exec[o] \in Unfinished
  <1>1. CASE WorkerStep \/ AssignmentStep \/ ProjectorStep \/ UNCHANGED vars
    <2>1. UNCHANGED <<exec, ran, result>>
      BY <1>1, ElsewhereUnchanged DEF executor, vars
    <2> QED BY <2>1
  <1>2. ASSUME NEW r \in rpcs, Submit(r) PROVE Moves
    <2>1. UNCHANGED <<ran, result>> /\ r.kind = "command" /\ rpcs' = rpcs \ {r}
      BY <1>2 DEF Submit
    <2>2. CASE Admit(r)
      <3>1. exec[r.id] \notin Held /\ exec' = [exec EXCEPT ![r.id] = "admitted"]
        BY <2>2, AdmitMeans DEF Admit
      <3>2. r.id = o => r \in CommandsOf(o)
        BY <2>1 DEF CommandsOf
      <3>3. CASE r.id = o
        <4>1. exec'[o] = "admitted"
          BY <3>1, <3>3 DEF TypeOK
        <4> QED BY <1>2, <2>1, <3>1, <3>2, <3>3, <4>1
      <3>4. CASE r.id # o
        <4>1. exec'[o] = exec[o]
          BY <3>1, <3>4 DEF TypeOK
        <4> QED BY <2>1, <4>1
      <3> QED BY <3>3, <3>4
    <2>3. CASE \E a \in Answer : Refuse(r, a)
      BY <2>1, <2>3 DEF Refuse
    <2> QED BY <1>2, <2>2, <2>3 DEF Submit
  <1>3. ASSUME NEW r \in rpcs, Cancel(r) \/ LoseRpc(r) PROVE Moves
    BY <1>3 DEF Cancel, LoseRpc, executor
  <1>4. ASSUME NEW x \in Ops, StartTool(x) PROVE Moves
    BY <1>4 DEF StartTool, TypeOK, Held, Unfinished
  <1>5. ASSUME NEW x \in Ops, NEW outcome, NEW q, Finish(x, outcome, q), exec[x] \in Unfinished
        PROVE  Moves
    BY <1>5 DEF Finish, TypeOK, Held
  <1>6. ASSUME NEW x \in Ops, Unstarted(x) \/ Complete(x) \/ Fail(x) PROVE Moves
    <2>1. exec[x] \in Unfinished /\ \E outcome, q : Finish(x, outcome, q)
      BY <1>6 DEF Unstarted, Complete, Fail, Unfinished
    <2> QED BY <1>5, <2>1
  <1>7. ASSUME NEW x \in Ops, Deliver(x) PROVE Moves
    BY <1>7 DEF Deliver, TypeOK, Held, Unfinished
  <1>8. CASE RetireIdleRuntime \/ CloseExecutor
    BY <1>8 DEF RetireIdleRuntime, CloseExecutor
  <1>9. CASE ForgetRuntime
    BY <1>9 DEF ForgetRuntime, TypeOK, Held
  <1>10. CASE RestartExecutor
    BY <1>10 DEF RestartExecutor, TypeOK
  <1> QED BY <1>1, <1>2, <1>3, <1>4, <1>6, <1>7, <1>8, <1>9, <1>10
          DEF Next, ExecutorStep, Admission

\* Only the handler that read a command sends a request for it.
LEMMA NewRequests ==
    ASSUME Grounded, [Next]_vars
    PROVE  /\ handed \subseteq handed'
           /\ \A r \in rpcs' : r.kind = "command" /\ r \notin rpcs =>
                \E p \in Projectors :
                  /\ proj[p].pc = "route" /\ r.id = RecordAt(p).id /\ r.at = Position(p)
                  /\ BindingOf[r.id] \notin proj[p].closed /\ log' = log
                  /\ rpcs' = rpcs \cup {r} /\ handed' = handed \cup {r.id} /\ exec' = exec
  <1> DEFINE Goal ==
             /\ handed \subseteq handed'
             /\ \A r \in rpcs' : r.kind = "command" /\ r \notin rpcs =>
                  \E p \in Projectors :
                    /\ proj[p].pc = "route" /\ r.id = RecordAt(p).id /\ r.at = Position(p)
                  /\ BindingOf[r.id] \notin proj[p].closed /\ log' = log
                    /\ rpcs' = rpcs \cup {r} /\ handed' = handed \cup {r.id} /\ exec' = exec
  <1>a. ASSUME handed' = handed, \A r \in rpcs' : r \in rpcs \/ r.kind # "command" PROVE Goal
    BY <1>a
  <1>1. CASE WorkerStep \/ AssignmentStep \/ UNCHANGED vars
    BY <1>1, <1>a DEF WorkerStep, Publish, RequestAbort, PublishCancel, AbandonWait, Accept,
                      WorkerDies, Retire, Seal, AssignmentStep, Handover, Notice, Assign,
                      CrashProjector, Progress, projection, vars
  <1>2. CASE ExecutorStep
    BY <1>2, <1>a DEF ExecutorStep, Admission, Submit, Cancel, LoseRpc, StartTool, Unstarted,
                      Complete, Fail, Finish, Deliver, RetireIdleRuntime, ForgetRuntime,
                      CloseExecutor, RestartExecutor, projection
  <1>3. ASSUME NEW p \in Projectors,
               \/ CommitEffect(p) \/ SkipDispatched(p) \/ SubmitAnswered(p) \/ SubmitUnanswered(p)
               \/ CancelAnswered(p) \/ ConsumeSeal(p) \/ CommitLost(p)
        PROVE  Goal
    BY <1>3, <1>a DEF CommitEffect, SkipDispatched, SubmitAnswered, SubmitUnanswered, Settle,
                      CancelAnswered, ConsumeSeal, CommitLost
  <1>4. ASSUME NEW p \in Projectors, Dispatch(p) PROVE Goal
    <2>1. CASE UNCHANGED <<rpcs, handed>>
      BY <1>a, <2>1
    <2> DEFINE s == Request(p, 0)
    <2>2. CASE /\ rpcs' = rpcs \cup {s} /\ handed' = handed \cup {RecordAt(p).id}
               /\ BindingOf[RecordAt(p).id] \notin proj[p].closed
      <3>1. /\ s.id = RecordAt(p).id /\ s.at = Position(p) /\ proj[p].pc = "route"
            /\ exec' = exec /\ log' = log
        BY <1>4 DEF Dispatch, Request, executor
      <3> HIDE DEF s
      <3>2. \A r \in rpcs' : r \notin rpcs => r = s
        BY <2>2
      <3> QED BY <2>2, <3>1, <3>2
    <2> QED BY <1>4, <2>1, <2>2 DEF Dispatch
  <1>5. ASSUME NEW p \in Projectors, SendCancel(p) \/ CancelUnanswered(p) PROVE Goal
    <2>1. At(p, {"cancel", "retire"})
      BY <1>5 DEF SendCancel, CancelUnanswered, Delivering, Grounded, Located
    <2>2. \A r \in rpcs' : r \in rpcs \/ \E n \in {1, 2} : r = Request(p, n)
      BY <1>5 DEF SendCancel, CancelUnanswered
    <2>3. \A r \in rpcs' : r \in rpcs \/ r.kind # "command"
      BY <2>1, <2>2 DEF At, RecordAt, Request
    <2>4. handed' = handed
      BY <1>5 DEF SendCancel, CancelUnanswered
    <2> QED BY <1>a, <2>3, <2>4
  <1> QED BY <1>1, <1>2, <1>3, <1>4, <1>5 DEF Next, ProjectorStep, Delivery

\* A command that is spent stays spent, and the executor that does not have it
\* does not get it.
LEMMA SpentStays ==
    ASSUME PathInv, RequestInv, [Next]_vars, NEW o \in Ops, Spent(o)
    PROVE  Spent(o)' /\ (exec[o] \in {"none", "gone"} => exec'[o] = exec[o])
  <1>1. Passed(o)'
    BY PassedStays DEF Spent
  <1>2. \A r \in rpcs' : r.kind = "command" => r.id # o
    BY NewRequests DEF PathInv, Spent, Passed, CommandsOf
  <1>3. exec[o] \in {"none", "gone"} => exec'[o] = exec[o]
    BY OperationSteps DEF Spent, PathInv, Grounded, Held, Unfinished
  <1> QED BY <1>1, <1>2, <1>3 DEF Spent, CommandsOf

\* One request per command, in every step.
LEMMA RequestInvStep ==
    ASSUME PathInv, RequestInv, [Next]_vars
    PROVE  RequestInv'
  <1>0. /\ TypeOK /\ TypeOK' /\ handed \subseteq Ops
        /\ \A r \in rpcs : r.kind = "command" => r.id \in Ops
    <2>1. TypeOK /\ TypeOK'
      BY GroundedStep DEF PathInv, Grounded
    <2> QED BY <2>1 DEF TypeOK, Rpc
  <1>1. ASSUME NEW r \in rpcs', r.kind = "command", r \notin rpcs
        PROVE  /\ r.id \notin handed /\ r.id \in handed' /\ rpcs' = rpcs \cup {r}
               /\ exec' = exec /\ r.id \in Ops
    <2>1. PICK p \in Projectors :
            /\ proj[p].pc = "route" /\ r.id = RecordAt(p).id
            /\ rpcs' = rpcs \cup {r} /\ handed' = handed \cup {r.id} /\ exec' = exec
      BY <1>1, NewRequests DEF PathInv
    <2>2. r.id \notin handed
      BY <2>1 DEF PathInv, HandoffInv
    <2> QED BY <1>0, <2>1, <2>2 DEF TypeOK
  <1>2. ASSUME NEW r \in rpcs, r \in rpcs', r.kind = "command"
        PROVE  r.id \in handed' /\ exec'[r.id] = "none"
    <2>1. r.id \in handed /\ exec[r.id] = "none" /\ r.id \in Ops
      BY <1>0, <1>2 DEF RequestInv
    <2>2. \A s \in CommandsOf(r.id) : s = r
      BY <1>2 DEF RequestInv, CommandsOf
    <2>3. exec'[r.id] = exec[r.id]
      BY <1>0, <1>2, <2>1, <2>2, OperationSteps DEF Held, Unfinished
    <2> QED BY <2>1, <2>3, NewRequests DEF PathInv
  <1>3. \A r \in rpcs' : r.kind = "command" => r.id \in handed' /\ exec'[r.id] = "none"
    BY <1>1, <1>2 DEF RequestInv
  <1>4. ASSUME NEW r \in rpcs', NEW s \in rpcs', r.kind = "command", s.kind = "command",
               r.id = s.id
        PROVE  r = s
    <2>1. CASE r \in rpcs /\ s \in rpcs
      BY <1>4, <2>1 DEF RequestInv
    <2>2. CASE r \notin rpcs
      BY <1>1, <1>4, <2>2 DEF RequestInv
    <2>3. CASE s \notin rpcs
      BY <1>1, <1>4, <2>3 DEF RequestInv
    <2> QED BY <2>1, <2>2, <2>3
  <1>5. ASSUME NEW o \in Ops, exec'[o] # "none" PROVE o \in handed'
    <2>1. CASE exec[o] # "none"
      BY <2>1, NewRequests DEF PathInv, RequestInv
    <2>2. CASE exec[o] = "none"
      <3>1. PICK r \in CommandsOf(o) : TRUE
        BY <1>0, <1>5, <2>2, OperationSteps DEF Held, Unfinished
      <3> QED BY <3>1, NewRequests DEF PathInv, CommandsOf, RequestInv
    <2> QED BY <2>1, <2>2
  <1> QED BY <1>3, <1>4, <1>5 DEF RequestInv

\* What a result says of the process is true, in every step.
LEMMA RanInvStep ==
    ASSUME TypeOK, RequestInv, RanInv, [Next]_vars
    PROVE  RanInv'
  <1> DEFINE Good(o) == /\ exec'[o] \in {"none", "admitted"} => o \notin ran'
                        /\ exec'[o] = "running" => o \in ran'
                        /\ exec'[o] = "finished" =>
                             /\ result'[o] = "not_started" => o \notin ran'
                             /\ result'[o] = "result" => o \in ran'
  <1>a. ASSUME NEW o \in Ops, exec'[o] = exec[o], result'[o] = result[o], o \in ran' <=> o \in ran
        PROVE  Good(o)
    BY <1>a DEF RanInv
  <1>1. CASE WorkerStep \/ AssignmentStep \/ ProjectorStep \/ UNCHANGED vars
    <2>1. UNCHANGED <<exec, ran, result>>
      BY <1>1, ElsewhereUnchanged DEF executor, vars
    <2> QED BY <1>a, <2>1 DEF RanInv
  <1>2. ASSUME NEW r \in rpcs, Submit(r), NEW o \in Ops PROVE Good(o)
    <2>1. UNCHANGED <<ran, result>> /\ r.kind = "command" /\ exec[r.id] = "none"
      BY <1>2 DEF Submit, RequestInv
    <2>2. exec' = exec \/ exec' = [exec EXCEPT ![r.id] = "admitted"]
      BY <1>2 DEF Submit, Admit, Refuse
    <2>3. exec'[o] = exec[o] \/ (exec[o] = "none" /\ exec'[o] = "admitted")
      BY <2>1, <2>2 DEF TypeOK
    <2> QED BY <2>1, <2>3 DEF RanInv
  <1>3. CASE \/ RetireIdleRuntime \/ CloseExecutor
             \/ \E r \in rpcs : Cancel(r) \/ LoseRpc(r)
    <2>1. UNCHANGED <<exec, ran, result>>
      BY <1>3 DEF RetireIdleRuntime, CloseExecutor, Cancel, LoseRpc, executor
    <2> QED BY <1>a, <2>1 DEF RanInv
  <1>4. ASSUME NEW x \in Ops, StartTool(x), NEW o \in Ops PROVE Good(o)
    BY <1>4 DEF StartTool, TypeOK, RanInv
  <1>5. ASSUME NEW x \in Ops, NEW outcome, NEW q, Finish(x, outcome, q),
               outcome = "not_started" => x \notin ran, outcome = "result" => x \in ran,
               NEW o \in Ops
        PROVE  Good(o)
    BY <1>5 DEF Finish, TypeOK, RanInv
  <1>6. ASSUME NEW x \in Ops, Unstarted(x) \/ Complete(x) \/ Fail(x), NEW o \in Ops PROVE Good(o)
    <2>1. \E outcome, q : /\ Finish(x, outcome, q)
                          /\ outcome = "not_started" => x \notin ran
                          /\ outcome = "result" => x \in ran
      <3>1. CASE Unstarted(x)
        <4>1. x \notin ran /\ \E outcome \in {"not_started", "unknown"} : \E q : Finish(x, outcome, q)
          BY <3>1 DEF Unstarted, RanInv
        <4> QED BY <4>1
      <3>2. CASE Complete(x)
        <4>1. x \in ran /\ Finish(x, "result", FALSE)
          BY <3>2 DEF Complete, RanInv
        <4> QED BY <4>1
      <3>3. CASE Fail(x)
        <4>1. \E q : Finish(x, "unknown", q)
          BY <3>3 DEF Fail
        <4> QED BY <4>1
      <3> QED BY <1>6, <3>1, <3>2, <3>3
    <2> QED BY <1>5, <2>1
  <1>7. ASSUME NEW x \in Ops, Deliver(x), NEW o \in Ops PROVE Good(o)
    BY <1>7 DEF Deliver, TypeOK, RanInv
  <1>8. ASSUME ForgetRuntime, NEW o \in Ops PROVE Good(o)
    BY <1>8 DEF ForgetRuntime, TypeOK, RanInv, Unfinished
  <1>9. ASSUME RestartExecutor, NEW o \in Ops PROVE Good(o)
    BY <1>9 DEF RestartExecutor, TypeOK, RanInv
  <1> QED BY <1>1, <1>2, <1>3, <1>4, <1>6, <1>7, <1>8, <1>9
          DEF Next, ExecutorStep, Admission, RanInv

\* Steps after which a handler stands where it stood, or at no command.
Undisturbed(q) ==
    /\ proj'[q].pc \in {"idle", "route"} => proj'[q].answer = "none"
    /\ proj'[q].pc = "submit" => /\ proj[q].pc = "submit" /\ proj'[q].cursor = proj[q].cursor
                                 /\ proj'[q].answer = proj[q].answer

\* What an undisturbed handler knows stays true.
LEMMA AnswerStays ==
    ASSUME PathInv, RequestInv, AnswerInv, [Next]_vars, NEW q \in Projectors, Undisturbed(q)
    PROVE  /\ proj'[q].pc \in {"idle", "route"} => proj'[q].answer = "none"
           /\ proj'[q].pc = "submit" =>
                /\ RecordAt(q)'.id \in handed'
                /\ proj'[q].answer # "none" => Spent(RecordAt(q).id)'
                /\ Effect(proj'[q].answer) = "not_started" => exec'[RecordAt(q)'.id] = "none"
  <1> SUFFICES ASSUME proj'[q].pc = "submit"
               PROVE  /\ RecordAt(q)'.id \in handed'
                      /\ proj'[q].answer # "none" => Spent(RecordAt(q).id)'
                      /\ Effect(proj'[q].answer) = "not_started" =>
                           exec'[RecordAt(q)'.id] = "none"
    BY DEF Undisturbed
  <1>0. Grounded /\ Extended /\ TypeOK
    BY GroundedStep DEF PathInv, Grounded
  <1>1. /\ proj[q].pc = "submit" /\ proj'[q].answer = proj[q].answer
        /\ Position(q)' = Position(q)
    BY DEF Undisturbed, Position
  <1>2. Position(q) \in DOMAIN log /\ RecordAt(q).id \in Ops
    <2>1. At(q, {"command"})
      BY <1>0, <1>1 DEF Grounded, Located
    <2> QED BY <1>0, <2>1, RecordRead
  <1>3. RecordAt(q)' = RecordAt(q)
    BY <1>0, <1>1, <1>2 DEF RecordAt, Extended
  <1> DEFINE o == RecordAt(q).id
  <1>4. o \in handed /\ (proj[q].answer # "none" => Spent(o))
        /\ (Effect(proj[q].answer) = "not_started" => exec[o] = "none")
    BY <1>1 DEF AnswerInv
  <1>5. o \in handed'
    BY <1>0, <1>4, NewRequests
  <1>6. Spent(o) => Spent(RecordAt(q).id)' /\ (exec[o] \in {"none", "gone"} => exec'[o] = exec[o])
    <2> SUFFICES ASSUME Spent(o)
                 PROVE  /\ Spent(RecordAt(q).id)'
                        /\ exec[o] \in {"none", "gone"} => exec'[o] = exec[o]
      OBVIOUS
    <2>1. PICK x \in Ops : x = RecordAt(q).id
      BY <1>2
    <2>2. Spent(x)' /\ (exec[x] \in {"none", "gone"} => exec'[x] = exec[x])
      BY <2>1, SpentStays
    <2>3. RecordAt(q)'.id = x
      BY <1>3, <2>1
    <2> QED BY <2>1, <2>2, <2>3 DEF Spent, Passed, CommandsOf, IsCommand
  <1>7. Effect(proj[q].answer) = "not_started" => proj[q].answer # "none"
    BY DEF Effect
  <1> QED BY <1>1, <1>3, <1>4, <1>5, <1>6, <1>7

\* Every handler but the one that submits, or is answered, is undisturbed.
LEMMA MostUndisturbed ==
    ASSUME PathInv, AnswerInv, [Next]_vars, NEW q \in Projectors
    PROVE  \/ Undisturbed(q)
           \/ Dispatch(q) /\ proj' = [proj EXCEPT ![q].pc = "submit"]
              /\ handed' = handed \cup {RecordAt(q).id}
           \/ \E r \in rpcs : \E a :
                 /\ Submit(r) /\ r.from = q /\ proj' = [proj EXCEPT ![q].answer = a]
                 /\ proj[q].pc = "submit" /\ Position(q) = r.at
                 /\ a = "accepted" \/ exec' = exec
  <1>0. /\ TypeOK /\ proj \in [Projectors -> Member(Len(log))] /\ Grounded
        /\ \A p \in Projectors : proj[p].pc \in {"idle", "route"} => proj[p].answer = "none"
        /\ Unassigned.pc = "idle" /\ Unassigned.answer = "none"
    BY DEF PathInv, Grounded, TypeOK, AnswerInv, Unassigned
  <1>a. ASSUME proj'[q].pc = proj[q].pc, proj'[q].cursor = proj[q].cursor,
               proj'[q].answer = proj[q].answer
        PROVE  Undisturbed(q)
    BY <1>0, <1>a DEF Undisturbed
  <1>b. ASSUME proj'[q].pc = "idle", proj'[q].answer = "none" PROVE Undisturbed(q)
    BY <1>b DEF Undisturbed
  <1>c. ASSUME NEW p \in Projectors, proj' = [proj EXCEPT ![p] = Advanced(@)]
        PROVE  Undisturbed(q)
    <2>1. CASE p = q
      <3> DEFINE m == [proj[q] EXCEPT !.pc = "idle", !.tries = 0, !.answer = "none",
                                      !.cursor = @ + 1]
      <3>1. m.pc = "idle" /\ m.answer = "none"
        BY <1>0 DEF Member
      <3>2. Advanced(proj[q]).pc = "idle" /\ Advanced(proj[q]).answer = "none"
        BY <1>0, <3>1 DEF Advanced
      <3>3. proj'[q] = Advanced(proj[q])
        BY <1>0, <1>c, <2>1
      <3> QED BY <1>b, <3>2, <3>3
    <2>2. CASE p # q
      BY <1>0, <1>a, <1>c, <2>2
    <2> QED BY <2>1, <2>2
  <1>1. CASE WorkerStep \/ UNCHANGED vars
    <2>1. proj' = proj
      BY <1>1 DEF WorkerStep, Publish, RequestAbort, PublishCancel, AbandonWait, Accept,
                  WorkerDies, Retire, Seal, projection, vars
    <2> QED BY <1>a, <2>1
  <1>2. CASE AssignmentStep
    <2>1. ASSUME NEW p \in Projectors, Handover(p) PROVE Undisturbed(q)
      BY <1>a, <2>1 DEF Handover
    <2>2. ASSUME NEW p \in Projectors, Notice(p) PROVE Undisturbed(q)
      <3>1. CASE p # q
        BY <1>0, <1>a, <2>2, <3>1 DEF Notice
      <3>2. CASE p = q /\ proj[q].pc = "idle"
        BY <1>0, <1>b, <2>2, <3>2 DEF Notice
      <3>3. CASE p = q /\ proj[q].pc # "idle"
        <4>1. proj'[q] = [proj[q] EXCEPT !.current = FALSE]
          BY <1>0, <2>2, <3>3 DEF Notice
        <4> QED BY <1>0, <1>a, <4>1 DEF Member
      <3> QED BY <3>1, <3>2, <3>3
    <2>3. ASSUME NEW p \in Projectors, Assign(p) PROVE Undisturbed(q)
      <3>1. CASE p # q
        BY <1>0, <1>a, <2>3, <3>1 DEF Assign
      <3>2. CASE p = q
        BY <1>0, <1>b, <2>3, <3>2 DEF Assign, Unassigned
      <3> QED BY <3>1, <3>2
    <2>4. ASSUME NEW p \in Projectors, CrashProjector(p) PROVE Undisturbed(q)
      BY <1>0, <1>a, <1>b, <2>4 DEF CrashProjector
    <2>5. ASSUME NEW p \in Projectors, Progress(p) PROVE Undisturbed(q)
      <3>1. /\ proj'[q].pc = proj[q].pc /\ proj'[q].cursor = proj[q].cursor
            /\ proj'[q].answer = proj[q].answer
        BY <1>0, <2>5 DEF Progress, Member
      <3> QED BY <1>a, <3>1
    <2> QED BY <1>2, <2>1, <2>2, <2>3, <2>4, <2>5 DEF AssignmentStep
  <1>3. ASSUME NEW p \in Projectors, CommitEffect(p) PROVE Undisturbed(q)
    <2>1. CASE p = q
      <3>1. proj[q].pc = "idle" /\ proj[q].answer = "none"
        BY <1>0, <1>3, <2>1 DEF CommitEffect, Delivering
      <3>2. proj'[q].pc = "route" /\ proj'[q].answer = "none"
        BY <1>0, <1>3, <2>1, <3>1 DEF CommitEffect, Member
      <3> QED BY <3>2 DEF Undisturbed
    <2>2. CASE p # q
      BY <1>0, <1>a, <1>3, <2>2 DEF CommitEffect
    <2> QED BY <2>1, <2>2
  <1>4. ASSUME NEW p \in Projectors, CommitLost(p) PROVE Undisturbed(q)
    BY <1>0, <1>a, <1>b, <1>4 DEF CommitLost
  <1>5. ASSUME NEW p \in Projectors, SkipDispatched(p) \/ CancelAnswered(p)
                                     \/ SubmitAnswered(p) \/ SubmitUnanswered(p)
        PROVE  Undisturbed(q)
    BY <1>5, <1>c DEF SkipDispatched, CancelAnswered, SubmitAnswered, SubmitUnanswered, Settle
  <1>6. ASSUME NEW p \in Projectors, SendCancel(p) PROVE Undisturbed(q)
    <2>1. CASE p = q
      <3>1. proj'[q].pc = "cancel"
        BY <1>0, <1>6, <2>1 DEF SendCancel, Member
      <3> QED BY <3>1 DEF Undisturbed
    <2>2. CASE p # q
      BY <1>0, <1>a, <1>6, <2>2 DEF SendCancel
    <2> QED BY <2>1, <2>2
  <1>7. ASSUME NEW p \in Projectors, CancelUnanswered(p) PROVE Undisturbed(q)
    <2>1. CASE proj' = [proj EXCEPT ![p] = Advanced(@)]
      BY <1>c, <2>1
    <2>2. CASE proj' = [proj EXCEPT ![p].tries = 2, ![p].answer = "none"]
      <3>1. CASE p = q
        <4>1. proj'[q].pc = "cancel"
          BY <1>0, <1>7, <2>2, <3>1 DEF CancelUnanswered, Member
        <4> QED BY <4>1 DEF Undisturbed
      <3>2. CASE p # q
        BY <1>0, <1>a, <2>2, <3>2
      <3> QED BY <3>1, <3>2
    <2> QED BY <1>7, <2>1, <2>2 DEF CancelUnanswered
  <1>8. ASSUME NEW p \in Projectors, ConsumeSeal(p) PROVE Undisturbed(q)
    <2>1. CASE p = q
      <3>1. At(q, {"seal"}) /\ proj[q].current
        BY <1>8, <2>1 DEF ConsumeSeal, Delivering
      <3>2. proj[q] \in Member(Len(log)) /\ proj[q].cursor < Len(log) /\ Len(log) \in Nat
        BY <1>0, <3>1, RecordRead
      <3>3. Advanced(proj[q]) \in Member(Len(log))
        BY <3>2, AdvancedType
      <3>4. proj'[q] = [Advanced(proj[q]) EXCEPT !.closed = @ \cup {RecordAt(q).id}]
        BY <1>0, <1>8, <2>1 DEF ConsumeSeal
      <3>5. Advanced(proj[q]).pc = "idle" /\ Advanced(proj[q]).answer = "none"
        BY <3>1, <3>2 DEF Advanced, Member
      <3>6. proj'[q].pc = "idle" /\ proj'[q].answer = "none"
        BY <3>3, <3>4, <3>5 DEF Member
      <3> QED BY <1>b, <3>6
    <2>2. CASE p # q
      BY <1>0, <1>a, <1>8, <2>2 DEF ConsumeSeal
    <2> QED BY <2>1, <2>2
  <1>9. ASSUME NEW p \in Projectors, Dispatch(p)
        PROVE  \/ Undisturbed(q)
               \/ Dispatch(q) /\ proj' = [proj EXCEPT ![q].pc = "submit"]
                  /\ handed' = handed \cup {RecordAt(q).id}
    <2>1. CASE proj' = [proj EXCEPT ![p] = Unassigned]
      BY <1>0, <1>a, <1>b, <2>1
    <2>2. CASE proj' = [proj EXCEPT ![p] = Advanced(@)]
      BY <1>c, <2>2
    <2>3. CASE proj' = [proj EXCEPT ![p].pc = "submit"] /\ handed' = handed \cup {RecordAt(p).id}
      BY <1>0, <1>a, <1>9, <2>3
    <2> QED BY <1>9, <2>1, <2>2, <2>3 DEF Dispatch
  <1>10. CASE ExecutorStep /\ ~(\E r \in rpcs : Submit(r) \/ Cancel(r))
    <2>1. proj' = proj
      BY <1>10 DEF ExecutorStep, Admission, LoseRpc, StartTool, Unstarted, Complete, Fail, Finish,
                   Deliver, RetireIdleRuntime, ForgetRuntime, CloseExecutor, RestartExecutor,
                   projection
    <2> QED BY <1>a, <2>1
  <1>11. ASSUME NEW r \in rpcs, NEW a, proj' = Answered(r, a)
         PROVE  \/ Undisturbed(q)
                \/ /\ r.kind = "command" /\ r.from = q /\ proj[q].pc = "submit"
                   /\ Position(q) = r.at /\ proj' = [proj EXCEPT ![q].answer = a]
    <2>1. CASE proj' = proj
      BY <1>a, <2>1
    <2>2. CASE /\ proj' = [proj EXCEPT ![r.from].answer = a]
               /\ proj[r.from].pc = (IF r.kind = "command" THEN "submit" ELSE "cancel")
               /\ Position(r.from) = r.at
      <3>1. CASE r.from # q
        BY <1>0, <1>a, <2>2, <3>1
      <3>2. CASE r.from = q /\ r.kind # "command"
        <4>1. proj'[q].pc = "cancel"
          BY <1>0, <2>2, <3>2 DEF Member
        <4> QED BY <4>1 DEF Undisturbed
      <3>3. CASE r.from = q /\ r.kind = "command"
        <4>1. proj' = [proj EXCEPT ![q].answer = a]
          BY <2>2, <3>3
        <4> QED BY <2>2, <3>3, <4>1
      <3> QED BY <3>1, <3>2, <3>3
    <2> QED BY <1>11, <2>1, <2>2 DEF Answered
  <1>12. ASSUME NEW r \in rpcs, Cancel(r) PROVE Undisturbed(q)
    BY <1>11, <1>12 DEF Cancel
  <1>13. ASSUME NEW r \in rpcs, Submit(r), ~Undisturbed(q)
         PROVE  \E a : /\ r.from = q /\ proj' = [proj EXCEPT ![q].answer = a]
                       /\ proj[q].pc = "submit" /\ Position(q) = r.at
                       /\ a = "accepted" \/ exec' = exec
    <2>1. PICK a : proj' = Answered(r, a) /\ (a = "accepted" \/ exec' = exec)
      BY <1>13 DEF Submit, Admit, Refuse
    <2>2. UNCHANGED group /\ r.kind = "command"
      BY <1>13 DEF Submit
    <2> QED BY <1>11, <1>13, <2>1, <2>2 DEF Submit
  <1> QED BY <1>1, <1>2, <1>3, <1>4, <1>5, <1>6, <1>7, <1>8, <1>9, <1>10, <1>12, <1>13
          DEF Next, ProjectorStep, Delivery

\* An answer is about the handler's own request, in every step.
LEMMA AnswerInvStep ==
    ASSUME PathInv, RequestInv, AnswerInv, [Next]_vars
    PROVE  AnswerInv'
  <1> SUFFICES ASSUME NEW q \in Projectors
               PROVE  /\ proj'[q].pc \in {"idle", "route"} => proj'[q].answer = "none"
                      /\ proj'[q].pc = "submit" =>
                           /\ RecordAt(q)'.id \in handed'
                           /\ proj'[q].answer # "none" => Spent(RecordAt(q).id)'
                           /\ Effect(proj'[q].answer) = "not_started" =>
                                exec'[RecordAt(q)'.id] = "none"
    BY DEF AnswerInv
  <1>0. /\ TypeOK /\ proj \in [Projectors -> Member(Len(log))] /\ Grounded /\ OneRecordEach
        /\ HandoffInv
    BY DEF PathInv, Grounded, TypeOK
  <1>1. CASE Undisturbed(q)
    BY <1>1, AnswerStays
  <1>2. CASE /\ Dispatch(q) /\ proj' = [proj EXCEPT ![q].pc = "submit"]
             /\ handed' = handed \cup {RecordAt(q).id}
    <2>1. proj[q].answer = "none"
      BY <1>2 DEF Dispatch, AnswerInv
    <2>2. proj'[q].pc = "submit" /\ proj'[q].answer = "none" /\ proj'[q].cursor = proj[q].cursor
      BY <1>0, <1>2, <2>1 DEF Member
    <2>3. RecordAt(q)' = RecordAt(q)
      BY <1>2, <2>2 DEF Dispatch, RecordAt, Position
    <2> QED BY <1>2, <2>2, <2>3 DEF Effect
  <1>3. ASSUME NEW r \in rpcs, NEW a, Submit(r), r.from = q,
               proj' = [proj EXCEPT ![q].answer = a],
               proj[q].pc = "submit", Position(q) = r.at,
               a = "accepted" \/ exec' = exec
        PROVE  /\ proj'[q].pc \in {"idle", "route"} => proj'[q].answer = "none"
               /\ proj'[q].pc = "submit" =>
                    /\ RecordAt(q)'.id \in handed'
                    /\ proj'[q].answer # "none" => Spent(RecordAt(q).id)'
                    /\ Effect(proj'[q].answer) = "not_started" => exec'[RecordAt(q)'.id] = "none"
    <2>1. /\ r.kind = "command" /\ rpcs' = rpcs \ {r} /\ log' = log /\ handed' = handed
          /\ group' = group
      BY <1>3 DEF Submit
    <2>3. /\ proj'[q].pc = "submit" /\ proj'[q].answer = a /\ proj'[q].cursor = proj[q].cursor
          /\ \A p \in Projectors : proj'[p].pc = proj[p].pc /\ proj'[p].cursor = proj[p].cursor
      BY <1>0, <1>3 DEF Member
    <2>4. \A p \in Projectors : RecordAt(p)' = RecordAt(p)
      BY <2>1, <2>3 DEF RecordAt, Position
    <2>5. RecordAt(q).id = r.id
      <3>1. log[r.at] = [kind |-> r.kind, id |-> r.id]
        BY <1>0 DEF Grounded, Located
      <3> QED BY <1>3, <3>1 DEF RecordAt
    <2>6. r.id \in handed /\ exec[r.id] = "none"
      BY <2>1 DEF RequestInv
    <2>7. Spent(RecordAt(q).id)'
      <3>1. Passed(r.id)
        BY <2>6, HandedPassed
      <3>2. \A s \in rpcs' : s.kind = "command" => s.id # r.id
        BY <2>1 DEF RequestInv
      <3>3. \A p \in Projectors : proj'[p].pc = "route" => RecordAt(p)'.id # r.id
        BY <2>3, <2>4, <3>1 DEF Passed
      <3>4. \E i \in DOMAIN log' : i <= group'.offset /\ IsCommand(i, r.id)'
        BY <2>1, <3>1 DEF Passed, IsCommand
      <3>5. RecordAt(q)'.id = r.id
        BY <2>4, <2>5
      <3> QED BY <3>2, <3>3, <3>4, <3>5 DEF Spent, Passed, CommandsOf, IsCommand
    <2>8. Effect(a) = "not_started" => exec'[r.id] = "none"
      BY <1>3, <2>1, <2>6 DEF Effect
    <2> QED BY <2>1, <2>3, <2>4, <2>5, <2>6, <2>7, <2>8
  <1> QED BY <1>1, <1>2, <1>3, MostUndisturbed

\* What a reply says stays true.
LEMMA HonestStays ==
    ASSUME PathInv, RequestInv, [Next]_vars, NEW o \in Ops, NEW outcome, Honest(o, outcome)
    PROVE  Honest(o, outcome)'
  <1>0. TypeOK
    BY DEF PathInv, Grounded
  <1>1. ASSUME outcome = "not_started"
        PROVE  Spent(o)' /\ exec'[o] \in {"none", "gone"} /\ o \notin ran'
    <2>1. Spent(o) /\ exec[o] \in {"none", "gone"} /\ o \notin ran
      BY <1>1 DEF Honest
    <2>2. Spent(o)' /\ exec'[o] = exec[o]
      BY <2>1, SpentStays
    <2>3. o \notin ran'
      BY <1>0, <2>1, OperationSteps
    <2> QED BY <2>1, <2>2, <2>3
  <1>2. ASSUME outcome = "result"
        PROVE  exec'[o] = "gone" /\ o \in ran' /\ result'[o] = "result"
    <2>1. exec[o] = "gone" /\ o \in ran /\ result[o] = "result"
      BY <1>2 DEF Honest
    <2>2. CommandsOf(o) = {}
      BY <2>1 DEF RequestInv, CommandsOf
    <2> QED BY <1>0, <2>1, <2>2, OperationSteps DEF Held, Unfinished
  <1> QED BY <1>1, <1>2 DEF Honest

\* Who replies: a closed route, the dispatcher that was answered or not, the
\* executor.
LEMMA NewReplies ==
    ASSUME [Next]_vars
    PROVE  \A s \in replies' \ replies :
             \/ s[2] = "lost"
             \/ \E p \in Projectors :
                  /\ proj[p].pc = "route" /\ s = <<RecordAt(p).id, "not_started">>
                  /\ proj' = [proj EXCEPT ![p] = Advanced(@)]
                  /\ UNCHANGED <<log, group, handed, rpcs, executor>>
             \/ \E p \in Projectors : \E a \in {proj[p].answer, "none"} :
                  /\ proj[p].pc = "submit" /\ s = <<RecordAt(p).id, Effect(a)>>
                  /\ UNCHANGED executor
             \/ \E o \in Ops : Deliver(o) /\ s = <<o, result[o]>>
  <1> SUFFICES ASSUME NEW s \in replies', s \notin replies, s[2] # "lost"
               PROVE  \/ \E p \in Projectors :
                           /\ proj[p].pc = "route" /\ s = <<RecordAt(p).id, "not_started">>
                           /\ proj' = [proj EXCEPT ![p] = Advanced(@)]
                           /\ UNCHANGED <<log, group, handed, rpcs, executor>>
                      \/ \E p \in Projectors : \E a \in {proj[p].answer, "none"} :
                           /\ proj[p].pc = "submit" /\ s = <<RecordAt(p).id, Effect(a)>>
                           /\ UNCHANGED executor
                      \/ \E o \in Ops : Deliver(o) /\ s = <<o, result[o]>>
    OBVIOUS
  <1>a. ASSUME NEW o, NEW outcome, Reply(o, outcome) PROVE s = <<o, outcome>>
    BY <1>a DEF Reply
  <1>b. ASSUME UNCHANGED replies PROVE FALSE
    BY <1>b
  <1>1. CASE WorkerStep \/ AssignmentStep \/ UNCHANGED vars
    BY <1>1, <1>b DEF WorkerStep, Publish, RequestAbort, PublishCancel, AbandonWait, Accept,
                      WorkerDies, Retire, Seal, AssignmentStep, Handover, Notice, Assign,
                      CrashProjector, Progress, vars
  <1>2. ASSUME NEW p \in Projectors, Dispatch(p)
        PROVE  /\ proj[p].pc = "route" /\ s = <<RecordAt(p).id, "not_started">>
               /\ proj' = [proj EXCEPT ![p] = Advanced(@)]
               /\ UNCHANGED <<log, group, handed, rpcs, executor>>
    <2>1. /\ Reply(RecordAt(p).id, "not_started") /\ proj' = [proj EXCEPT ![p] = Advanced(@)]
          /\ UNCHANGED <<rpcs, handed>>
      BY <1>2, <1>b DEF Dispatch
    <2> QED BY <1>2, <1>a, <2>1 DEF Dispatch
  <1>3. ASSUME NEW p \in Projectors, NEW a, proj[p].pc = "submit", Settle(p, a)
        PROVE  s = <<RecordAt(p).id, Effect(a)>> /\ UNCHANGED executor
    <2>1. Reply(RecordAt(p).id, Effect(a))
      BY <1>3, <1>b DEF Settle
    <2> QED BY <1>3, <1>a, <2>1 DEF Settle
  <1>4. ASSUME NEW p \in Projectors, SubmitAnswered(p) \/ SubmitUnanswered(p)
        PROVE  \E a \in {proj[p].answer, "none"} :
                 /\ proj[p].pc = "submit" /\ s = <<RecordAt(p).id, Effect(a)>>
                 /\ UNCHANGED executor
    BY <1>3, <1>4 DEF SubmitAnswered, SubmitUnanswered
  <1>5. ASSUME NEW p \in Projectors,
               \/ CommitEffect(p) \/ SkipDispatched(p) \/ SendCancel(p) \/ CancelAnswered(p)
               \/ CancelUnanswered(p) \/ ConsumeSeal(p) \/ CommitLost(p)
        PROVE  FALSE
    BY <1>5, <1>b DEF CommitEffect, SkipDispatched, SendCancel, CancelAnswered,
                      CancelUnanswered, ConsumeSeal, CommitLost
  <1>6. ASSUME NEW o \in Ops, Deliver(o) PROVE s = <<o, result[o]>>
    BY <1>6, <1>a DEF Deliver
  <1>7. CASE ExecutorStep /\ ~(\E o \in Ops : Deliver(o))
    BY <1>7, <1>b DEF ExecutorStep, Admission, Submit, Cancel, LoseRpc, StartTool, Unstarted,
                      Complete, Fail, Finish, RetireIdleRuntime, ForgetRuntime, CloseExecutor,
                      RestartExecutor
  <1> QED BY <1>1, <1>2, <1>4, <1>5, <1>6, <1>7 DEF Next, ProjectorStep, Delivery

\* A closed route answers for a command that was never handed off.
LEMMA ClosedRouteHonest ==
    ASSUME PathInv, RequestInv, RanInv, NEW p \in Projectors, proj[p].pc = "route",
           proj' = [proj EXCEPT ![p] = Advanced(@)],
           UNCHANGED <<log, group, handed, rpcs, executor>>,
           NEW o \in Ops, o = RecordAt(p).id
    PROVE  Honest(o, "not_started")'
  <1>0. /\ TypeOK /\ proj \in [Projectors -> Member(Len(log))] /\ Grounded /\ OneRecordEach
        /\ HandoffInv
    BY DEF PathInv, Grounded, TypeOK
  <1>1. o \notin handed /\ exec[o] = "none" /\ o \notin ran /\ CommandsOf(o) = {}
    BY <1>0 DEF HandoffInv, RequestInv, RanInv, CommandsOf
  <1>2. exec'[o] = "none" /\ o \notin ran' /\ CommandsOf(o)' = {}
    BY <1>1 DEF executor, CommandsOf
  <1>3. \A q \in Projectors : proj'[q].pc = "route" =>
          q # p /\ proj[q].pc = "route" /\ RecordAt(q)' = RecordAt(q)
    <2>1. proj'[p].pc = "idle"
      BY <1>0, AdvancedMeans
    <2>2. \A q \in Projectors : q # p => proj'[q] = proj[q]
      BY <1>0
    <2> QED BY <2>1, <2>2 DEF RecordAt, Position
  <1>4. \A q \in Projectors : proj[q].pc = "route" =>
          Position(q) \in DOMAIN log /\ log[Position(q)].kind = "command"
    BY <1>0, RecordRead DEF Grounded, Located, RecordAt
  <1>5. \A q \in Projectors : proj'[q].pc = "route" => RecordAt(q)'.id # o
    <2> SUFFICES ASSUME NEW q \in Projectors, proj'[q].pc = "route", RecordAt(q).id = o
                 PROVE  FALSE
      BY <1>3
    <2>1. q # p /\ proj[q].pc = "route"
      BY <1>3
    <2>2. Position(q) = Position(p)
      BY <1>0, <1>4, <2>1 DEF OneRecordEach, RecordAt
    <2> QED BY <1>0, <2>1, <2>2 DEF HandoffInv
  <1>6. \E i \in DOMAIN log' : i <= group'.offset /\ IsCommand(i, o)'
    BY <1>0, <1>4 DEF HandoffInv, IsCommand, RecordAt
  <1> QED BY <1>2, <1>5, <1>6 DEF Honest, Spent, Passed

\* What was handed off to the executor and taken by it is spent.
LEMMA TakenIsSpent ==
    ASSUME PathInv, RequestInv, NEW o \in Ops, exec[o] # "none"
    PROVE  Spent(o)
  BY HandedPassed DEF RequestInv, Spent, CommandsOf

\* Every new reply is honest.
LEMMA ReplyInvStep ==
    ASSUME PathInv, OutcomeInv, [Next]_vars
    PROVE  ReplyInv'
  <1>0. TypeOK /\ TypeOK' /\ RequestInv /\ AnswerInv /\ RanInv /\ ReplyInv
    BY GroundedStep DEF PathInv, Grounded, OutcomeInv
  <1>1. SUFFICES ASSUME NEW s \in replies' PROVE Honest(s[1], s[2])'
    BY DEF ReplyInv
  <1>2. PICK o \in Ops, outcome \in Outcome \cup {"lost"} : s = <<o, outcome>>
    BY <1>0 DEF TypeOK
  <1>3. SUFFICES Honest(o, outcome)'
    BY <1>2
  <1>4. CASE s \in replies
    <2>1. Honest(o, outcome)
      BY <1>0, <1>2, <1>4 DEF ReplyInv
    <2> QED BY <1>0, <2>1, HonestStays
  <1>5. CASE outcome = "lost"
    BY <1>5 DEF Honest
  <1>6. ASSUME NEW p \in Projectors, proj[p].pc = "route", s = <<RecordAt(p).id, "not_started">>,
               proj' = [proj EXCEPT ![p] = Advanced(@)],
               UNCHANGED <<log, group, handed, rpcs, executor>>
        PROVE  Honest(o, outcome)'
    <2>1. o = RecordAt(p).id /\ outcome = "not_started"
      BY <1>2, <1>6
    <2>2. Honest(o, "not_started")'
      BY <1>0, <1>6, <2>1, ClosedRouteHonest
    <2> QED BY <2>1, <2>2
  <1>7. ASSUME NEW p \in Projectors, NEW a \in {proj[p].answer, "none"}, proj[p].pc = "submit",
               s = <<RecordAt(p).id, Effect(a)>>, UNCHANGED executor
        PROVE  Honest(o, outcome)'
    <2>1. o = RecordAt(p).id /\ outcome = Effect(a)
      BY <1>2, <1>7
    <2>2. CASE outcome = "not_started"
      <3>1. a = proj[p].answer /\ a # "none"
        BY <2>1, <2>2 DEF Effect
      <3>2. Spent(o) /\ exec[o] = "none"
        BY <1>0, <1>7, <2>1, <2>2, <3>1 DEF AnswerInv
      <3>3. o \notin ran
        BY <1>0, <3>2 DEF RanInv
      <3>4. Honest(o, outcome)
        BY <2>2, <3>2, <3>3 DEF Honest
      <3> QED BY <1>0, <3>4, HonestStays
    <2>3. CASE outcome # "not_started"
      <3>1. outcome = "unknown"
        BY <2>1, <2>3 DEF Effect
      <3> QED BY <3>1 DEF Honest
    <2> QED BY <2>2, <2>3
  <1>8. ASSUME NEW x \in Ops, Deliver(x), s = <<x, result[x]>> PROVE Honest(o, outcome)'
    <2>a. x = o /\ outcome = result[o]
      BY <1>2, <1>8
    <2>1. /\ exec[o] = "finished" /\ exec' = [exec EXCEPT ![o] = "gone"]
          /\ UNCHANGED <<ran, result>>
      BY <1>8, <2>a DEF Deliver
    <2>2. exec'[o] = "gone"
      BY <1>0, <2>1 DEF TypeOK
    <2>3. Spent(o)'
      <3>1. Spent(o)
        BY <1>0, <2>1, TakenIsSpent
      <3> QED BY <1>0, <3>1, SpentStays
    <2> QED BY <1>0, <2>a, <2>1, <2>2, <2>3 DEF Honest, RanInv
  <1> QED BY <1>2, <1>4, <1>5, <1>6, <1>7, <1>8, NewReplies

\* At first nothing was asked and nothing answered.
LEMMA OutcomeInit ==
    ASSUME Init
    PROVE  OutcomeInv
  <1>1. \A p \in Projectors : proj[p].pc = "idle" /\ proj[p].answer = "none"
    BY DEF Init, Unassigned
  <1>2. rpcs = {} /\ replies = {} /\ ran = {} /\ \A o \in Ops : exec[o] = "none"
    BY DEF Init
  <1> QED BY <1>1, <1>2 DEF OutcomeInv, RequestInv, AnswerInv, RanInv, ReplyInv

\* What the Worker is told is true and stays true: a command answered
\* not_started never runs, an answered result is what its own execution ended
\* with, whoever answers and whatever is still on its way.
THEOREM OutcomesAreHonestHolds == Spec => []OutcomesAreHonest
  <1> DEFINE I == PathInv /\ OutcomeInv
  <1>1. Init => I
    BY GroundedInit, HandoffInit, OutcomeInit DEF PathInv
  <1>2. I /\ [Next]_vars => I'
    <2> SUFFICES ASSUME PathInv, OutcomeInv, [Next]_vars PROVE PathInv' /\ OutcomeInv'
      OBVIOUS
    <2>1. PathInv'
      BY GroundedStep, OneRecordEachStep, HandoffStep DEF PathInv
    <2>2. OutcomeInv'
      BY RequestInvStep, AnswerInvStep, RanInvStep, ReplyInvStep DEF OutcomeInv, PathInv, Grounded
    <2> QED BY <2>1, <2>2
  <1>3. I => OutcomesAreHonest
    BY DEF OutcomeInv, ReplyInv, Honest, OutcomesAreHonest
  <1> HIDE DEF I
  <1> QED BY <1>1, <1>2, <1>3, PTL DEF Spec

-----------------------------------------------------------------------------
(* What a cancellation fences off.                                           *)

\* A record that forbids the machine to admit an operation it has not seen.
Forbids(i, o) ==
    log[i] \in {[kind |-> "cancel", id |-> o], [kind |-> "retire", id |-> BindingOf[o]]}

\* A cancellation is published behind the command it cancels.
PublishedInv ==
    /\ \A o \in Ops : call[o].aborted => call[o].published
    /\ \A o \in Ops : call[o].published => \E j \in DOMAIN log : IsCommand(j, o)
    /\ \A i \in DOMAIN log : log[i].kind = "cancel" =>
         \E j \in DOMAIN log : j < i /\ IsCommand(j, log[i].id)

\* A retired binding is closed for every handler that is past its retirement,
\* and no command is handed off behind it.
ClosedInv ==
    /\ \A i \in DOMAIN log : log[i].kind = "retire" => log[i].id \in routeClosed
    /\ \A p \in Projectors : \A i \in DOMAIN log :
         i <= proj[p].cursor /\ log[i].kind = "retire" => log[i].id \in proj[p].closed
    /\ \A p \in Projectors :
         proj[p].pc = "cancel" /\ RecordAt(p).kind = "retire" => RecordAt(p).id \in proj[p].closed
    /\ \A r \in rpcs : \A i \in DOMAIN log :
         r.kind = "command" /\ i < r.at => log[i] # [kind |-> "retire", id |-> BindingOf[r.id]]

\* The machine's position is behind the record of every cancellation it accepted.
FencedInv ==
    cube.present /\ ~cube.replaced =>
      \A o \in fenced : \E i \in DOMAIN log : i <= cube.position /\ Forbids(i, o)

\* What a step records in the log, and of the calls.
LEMMA NewRecords ==
    ASSUME Grounded, [Next]_vars
    PROVE  /\ routeClosed \subseteq routeClosed'
           /\ \A o \in Ops : call[o].published => call'[o].published
           /\ \A o \in Ops : call'[o].aborted => call[o].aborted \/ call[o].published
           /\ \A o \in Ops : call'[o].published =>
                call[o].published \/ \E i \in DOMAIN log' : IsCommand(i, o)'
           /\ \A i \in DOMAIN log' : i \notin DOMAIN log =>
                /\ log'[i].kind = "cancel" => log'[i].id \in Ops /\ call[log'[i].id].aborted
                /\ log'[i].kind = "retire" => log'[i].id \in routeClosed'
  <1> DEFINE Calls == /\ \A o \in Ops : call[o].published => call'[o].published
                      /\ \A o \in Ops : call'[o].aborted => call[o].aborted \/ call[o].published
                      /\ \A o \in Ops : call'[o].published =>
                           call[o].published \/ \E i \in DOMAIN log' : IsCommand(i, o)'
             Records == \A i \in DOMAIN log' : i \notin DOMAIN log =>
                          /\ log'[i].kind = "cancel" => log'[i].id \in Ops
                                                        /\ call[log'[i].id].aborted
                          /\ log'[i].kind = "retire" => log'[i].id \in routeClosed'
             Closures == routeClosed \subseteq routeClosed'
  <1> SUFFICES Closures /\ Calls /\ Records
    OBVIOUS
  <1>0. /\ TypeOK /\ log \in Seq(Record) /\ call \in [Ops -> CallRow]
        /\ routeClosed \subseteq Bindings
    BY DEF Grounded, TypeOK
  <1>a. ASSUME log' = log PROVE Records
    BY <1>a
  <1>b. ASSUME call' = call PROVE Calls
    BY <1>b
  <1>c. ASSUME NEW r \in Record, log' = Append(log, r) 
        PROVE  DOMAIN log' = DOMAIN log \cup {Len(log) + 1} /\ log'[Len(log) + 1] = r
    BY <1>0, <1>c, AppendExtends
  <1>1. ASSUME NEW o \in Ops, Publish(o) PROVE Closures /\ Calls /\ Records
    <2>1. /\ [kind |-> "command", id |-> o] \in Record /\ routeClosed' = routeClosed
          /\ log' = Append(log, [kind |-> "command", id |-> o])
          /\ call' = [call EXCEPT ![o].published = TRUE]
      BY <1>1, RecordKinds DEF Publish, projection
    <2>2. /\ DOMAIN log' = DOMAIN log \cup {Len(log) + 1}
          /\ log'[Len(log) + 1] = [kind |-> "command", id |-> o]
      BY <1>c, <2>1
    <2>3. \E n \in DOMAIN log' : IsCommand(n, o)'
      <3>1. PICK n \in DOMAIN log' : log'[n] = [kind |-> "command", id |-> o]
        BY <2>2
      <3>2. IsCommand(n, o)'
        BY <3>1 DEF IsCommand
      <3> QED BY <3>2
    <2>4. \A x \in Ops : /\ x # o => call'[x] = call[x]
                         /\ call'[x].aborted = call[x].aborted
                         /\ call[x].published => call'[x].published
      BY <1>0, <2>1 DEF CallRow
    <2>5. Calls
      BY <2>3, <2>4
    <2>6. Records
      BY <2>2
    <2> QED BY <2>1, <2>5, <2>6
  <1>2. ASSUME NEW o \in Ops, PublishCancel(o) PROVE Closures /\ Calls /\ Records
    <2>1. /\ [kind |-> "cancel", id |-> o] \in Record /\ routeClosed' = routeClosed
          /\ log' = Append(log, [kind |-> "cancel", id |-> o]) /\ call[o].aborted
          /\ call' = [call EXCEPT ![o].cancelled = TRUE]
      BY <1>2, RecordKinds DEF PublishCancel, projection
    <2>2. /\ DOMAIN log' = DOMAIN log \cup {Len(log) + 1}
          /\ log'[Len(log) + 1] = [kind |-> "cancel", id |-> o]
      BY <1>c, <2>1
    <2>3. \A x \in Ops : /\ call'[x].aborted = call[x].aborted
                         /\ call'[x].published = call[x].published
      BY <1>0, <2>1 DEF CallRow
    <2>4. Records
      BY <2>1, <2>2
    <2> QED BY <2>1, <2>3, <2>4
  <1>3. ASSUME NEW o \in Ops, RequestAbort(o) \/ AbandonWait(o) \/ Accept(o)
        PROVE  Closures /\ Calls /\ Records
    <2>1. log' = log /\ routeClosed' = routeClosed
      BY <1>3 DEF RequestAbort, AbandonWait, Accept, projection
    <2>2. CASE RequestAbort(o)
      <3>1. call[o].published /\ call' = [call EXCEPT ![o].aborted = TRUE]
        BY <2>2 DEF RequestAbort
      <3>2. \A x \in Ops : /\ call'[x].published = call[x].published
                           /\ x # o => call'[x].aborted = call[x].aborted
        BY <1>0, <3>1 DEF CallRow
      <3> QED BY <1>a, <2>1, <3>1, <3>2
    <2>3. CASE AbandonWait(o) \/ Accept(o)
      <3>1. \E outcome : call' = [call EXCEPT ![o].outcome = outcome]
        BY <2>3 DEF AbandonWait, Accept
      <3>2. \A x \in Ops : /\ call'[x].published = call[x].published
                           /\ call'[x].aborted = call[x].aborted
        BY <1>0, <3>1 DEF CallRow
      <3> QED BY <1>a, <2>1, <3>2
    <2> QED BY <1>3, <2>2, <2>3
  <1>4. ASSUME NEW b \in Bindings, Retire(b) PROVE Closures /\ Calls /\ Records
    <2>1. /\ [kind |-> "retire", id |-> b] \in Record /\ routeClosed' = routeClosed \cup {b}
          /\ log' = Append(log, [kind |-> "retire", id |-> b]) /\ call' = call
      BY <1>4, RecordKinds DEF Retire
    <2>2. /\ DOMAIN log' = DOMAIN log \cup {Len(log) + 1}
          /\ log'[Len(log) + 1] = [kind |-> "retire", id |-> b]
      BY <1>c, <2>1
    <2> QED BY <1>b, <2>1, <2>2
  <1>5. ASSUME NEW b \in Bindings, Seal(b) PROVE Closures /\ Calls /\ Records
    <2>1. /\ [kind |-> "seal", id |-> b] \in Record /\ routeClosed' = routeClosed
          /\ log' = Append(log, [kind |-> "seal", id |-> b]) /\ call' = call
      BY <1>5, RecordKinds DEF Seal, projection
    <2>2. /\ DOMAIN log' = DOMAIN log \cup {Len(log) + 1}
          /\ log'[Len(log) + 1] = [kind |-> "seal", id |-> b]
      BY <1>c, <2>1
    <2> QED BY <1>b, <2>1, <2>2
  <1>6. CASE AssignmentStep \/ ExecutorStep \/ UNCHANGED vars \/ \E b \in Bindings : WorkerDies(b)
    <2>1. UNCHANGED <<log, call, routeClosed>>
      BY <1>6 DEF AssignmentStep, Handover, Notice, Assign, CrashProjector, Progress,
                  ExecutorStep, Admission, Submit, Cancel, LoseRpc, StartTool, Unstarted,
                  Complete, Fail, Finish, Deliver, RetireIdleRuntime, ForgetRuntime,
                  CloseExecutor, RestartExecutor, WorkerDies, worker, projection, vars
    <2> QED BY <1>a, <1>b, <2>1
  <1>7. ASSUME NEW p \in Projectors, NEW a, Settle(p, a) PROVE Closures /\ Calls /\ Records
    <2>1. call' = call
      BY <1>7 DEF Settle
    <2>2. CASE Quarantine
      <3>1. routeClosed' = Bindings
        BY <2>2 DEF Quarantine
      <3>2. \A i \in DOMAIN log' : i \notin DOMAIN log =>
              log'[i].kind = "retire" /\ log'[i].id \in Bindings
        BY <1>0, <2>2, QuarantineExtends
      <3> QED BY <1>0, <1>b, <2>1, <3>1, <3>2
    <2>3. CASE UNCHANGED <<routeClosed, log>>
      BY <1>a, <1>b, <2>1, <2>3
    <2> QED BY <1>7, <2>2, <2>3 DEF Settle
  <1>8. ASSUME NEW p \in Projectors,
               \/ CommitEffect(p) \/ SkipDispatched(p) \/ Dispatch(p) \/ SendCancel(p)
               \/ CancelAnswered(p) \/ CancelUnanswered(p) \/ ConsumeSeal(p) \/ CommitLost(p)
        PROVE  Closures /\ Calls /\ Records
    <2>1. UNCHANGED <<log, call>> /\ routeClosed \subseteq routeClosed'
      BY <1>8 DEF CommitEffect, SkipDispatched, Dispatch, SendCancel, CancelAnswered,
                  CancelUnanswered, ConsumeSeal, CommitLost, worker
    <2> QED BY <1>a, <1>b, <2>1
  <1> QED BY <1>1, <1>2, <1>3, <1>4, <1>5, <1>6, <1>7, <1>8
          DEF Next, WorkerStep, ProjectorStep, Delivery, SubmitAnswered, SubmitUnanswered

\* Cancellations behind their commands, in every step.
LEMMA PublishedStep ==
    ASSUME Grounded, PublishedInv, [Next]_vars
    PROVE  PublishedInv'
  <1>0. Extended /\ log \in Seq(Record) /\ log' \in Seq(Record)
    BY GroundedStep DEF Grounded, TypeOK
  <1>1. \A o \in Ops : call'[o].aborted => call'[o].published
    BY NewRecords DEF PublishedInv
  <1>2. ASSUME NEW o \in Ops, call'[o].published PROVE \E j \in DOMAIN log' : IsCommand(j, o)'
    <2>1. CASE call[o].published
      <3>1. PICK j \in DOMAIN log : IsCommand(j, o)
        BY <2>1 DEF PublishedInv
      <3>2. j \in DOMAIN log' /\ IsCommand(j, o)'
        BY <1>0, <3>1 DEF Extended, IsCommand
      <3> QED BY <3>2
    <2> QED BY <1>2, <2>1, NewRecords
  <1>3. ASSUME NEW i \in DOMAIN log', log'[i].kind = "cancel"
        PROVE  \E j \in DOMAIN log' :
                 j < i /\ log'[j].kind = "command" /\ log'[j].id = log'[i].id
    <2>1. CASE i \in DOMAIN log
      <3>1. log'[i] = log[i]
        BY <1>0, <2>1 DEF Extended
      <3>2. PICK j \in DOMAIN log : j < i /\ IsCommand(j, log[i].id)
        BY <1>3, <2>1, <3>1 DEF PublishedInv
      <3>3. j \in DOMAIN log' /\ log'[j] = log[j]
        BY <1>0 DEF Extended
      <3> QED BY <3>1, <3>2, <3>3 DEF IsCommand
    <2>2. CASE i \notin DOMAIN log
      <3> DEFINE o == log'[i].id
      <3>1. o \in Ops /\ call[o].aborted
        BY <1>3, <2>2, NewRecords
      <3>2. PICK j \in DOMAIN log : IsCommand(j, o)
        BY <3>1 DEF PublishedInv
      <3>3. j \in DOMAIN log' /\ log'[j] = log[j]
        BY <1>0, <3>2 DEF Extended
      <3>4. j < i
        <4>1. Len(log) \in Nat /\ DOMAIN log = 1..Len(log) /\ DOMAIN log' \subseteq Nat \ {0}
          BY <1>0
        <4> QED BY <2>2, <4>1
      <3> QED BY <3>2, <3>3, <3>4 DEF IsCommand
    <2> QED BY <2>1, <2>2
  <1> QED BY <1>1, <1>2, <1>3 DEF PublishedInv, IsCommand

\* What a step does to where a handler stands and which bindings it knows to be
\* closed.
ClosingMoves(q) ==
    \/ /\ proj'[q].pc # "cancel"
       /\ \/ proj'[q].cursor = 0
          \/ proj'[q].cursor <= group.offset /\ proj'[q].closed = routeClosed
    \/ /\ proj'[q].pc # "cancel" /\ proj'[q].cursor = proj[q].cursor + 1
       /\ proj[q].closed \subseteq proj'[q].closed
       /\ Position(q) \in DOMAIN log
       /\ RecordAt(q).kind = "retire" => proj[q].pc = "cancel"
    \/ /\ proj'[q].cursor = proj[q].cursor
       /\ proj[q].closed \subseteq proj'[q].closed
       /\ proj'[q].pc = "cancel" =>
            /\ Position(q) \in DOMAIN log
            /\ proj[q].pc = "cancel" \/ (RecordAt(q).kind = "retire" =>
                                           RecordAt(q).id \in proj'[q].closed)

\* Every step is one of these moves.
LEMMA ClosingSteps ==
    ASSUME Grounded, [Next]_vars, NEW q \in Projectors
    PROVE  ClosingMoves(q)
  <1>0. /\ TypeOK /\ proj \in [Projectors -> Member(Len(log))] /\ Located
        /\ Unassigned.pc = "idle" /\ Unassigned.cursor = 0
    BY DEF Grounded, TypeOK, Unassigned
  <1>1. \A p \in Projectors : proj[p].pc \in {"route", "submit", "cancel"} =>
          Position(p) \in DOMAIN log
    BY <1>0, RecordRead DEF Located
  <1>2. \A p \in Projectors : proj[p].pc \in {"route", "submit"} => RecordAt(p).kind = "command"
    BY <1>0, RecordRead DEF Located
  <1>a. ASSUME proj'[q].pc = proj[q].pc, proj'[q].cursor = proj[q].cursor,
               proj'[q].closed = proj[q].closed
        PROVE  ClosingMoves(q)
    BY <1>1, <1>a DEF ClosingMoves
  <1>b. ASSUME proj'[q].pc # "cancel", proj'[q].cursor = 0 PROVE ClosingMoves(q)
    BY <1>b DEF ClosingMoves
  <1>c. ASSUME NEW p \in Projectors, proj' = [proj EXCEPT ![p] = Advanced(@)],
               Position(p) \in DOMAIN log, RecordAt(p).kind = "retire" => proj[p].pc = "cancel"
        PROVE  ClosingMoves(q)
    <2>1. CASE p = q /\ proj[q].current
      <3> DEFINE m == [proj[q] EXCEPT !.pc = "idle", !.tries = 0, !.answer = "none",
                                      !.cursor = @ + 1]
      <3>1. m.pc = "idle" /\ m.cursor = proj[q].cursor + 1 /\ m.closed = proj[q].closed
        BY <1>0 DEF Member
      <3>2. proj'[q] = m
        BY <1>0, <1>c, <2>1 DEF Advanced
      <3> HIDE DEF m
      <3> QED BY <1>c, <2>1, <3>1, <3>2 DEF ClosingMoves
    <2>2. CASE p = q /\ ~proj[q].current
      BY <1>0, <1>b, <1>c, <2>2 DEF Advanced
    <2>3. CASE p # q
      BY <1>0, <1>a, <1>c, <2>3
    <2> QED BY <2>1, <2>2, <2>3
  <1>3. CASE WorkerStep \/ UNCHANGED vars
    <2>1. proj' = proj
      BY <1>3 DEF WorkerStep, Publish, RequestAbort, PublishCancel, AbandonWait, Accept,
                  WorkerDies, Retire, Seal, projection, vars
    <2> QED BY <1>a, <2>1
  <1>4. CASE AssignmentStep
    <2>1. ASSUME NEW p \in Projectors, Handover(p) PROVE ClosingMoves(q)
      BY <1>a, <2>1 DEF Handover
    <2>2. ASSUME NEW p \in Projectors, Notice(p) PROVE ClosingMoves(q)
      <3>1. CASE p # q
        BY <1>0, <1>a, <2>2, <3>1 DEF Notice
      <3>2. CASE p = q /\ proj[q].pc = "idle"
        BY <1>0, <1>b, <2>2, <3>2 DEF Notice
      <3>3. CASE p = q /\ proj[q].pc # "idle"
        <4>1. proj'[q] = [proj[q] EXCEPT !.current = FALSE]
          BY <1>0, <2>2, <3>3 DEF Notice
        <4> QED BY <1>0, <1>a, <4>1 DEF Member
      <3> QED BY <3>1, <3>2, <3>3
    <2>3. ASSUME NEW p \in Projectors, Assign(p) PROVE ClosingMoves(q)
      <3>1. CASE p # q
        BY <1>0, <1>a, <2>3, <3>1 DEF Assign
      <3>2. CASE p = q
        <4>1. PICK floor \in {0, group.offset} :
                proj'[q] = [Unassigned EXCEPT !.current = TRUE, !.cursor = floor,
                                              !.seen = group.offset, !.closed = routeClosed]
          BY <1>0, <2>3, <3>2 DEF Assign
        <4>2. proj'[q].pc = "idle" /\ proj'[q].cursor = floor /\ proj'[q].closed = routeClosed
          BY <4>1 DEF Unassigned
        <4>3. group.offset \in Nat
          BY <1>0 DEF TypeOK, Group
        <4> QED BY <4>2, <4>3 DEF ClosingMoves
      <3> QED BY <3>1, <3>2
    <2>4. ASSUME NEW p \in Projectors, CrashProjector(p) PROVE ClosingMoves(q)
      BY <1>0, <1>a, <1>b, <2>4 DEF CrashProjector
    <2>5. ASSUME NEW p \in Projectors, Progress(p) PROVE ClosingMoves(q)
      <3>1. /\ proj'[q].pc = proj[q].pc /\ proj'[q].cursor = proj[q].cursor
            /\ proj'[q].closed = proj[q].closed
        BY <1>0, <2>5 DEF Progress, Member
      <3> QED BY <1>a, <3>1
    <2> QED BY <1>4, <2>1, <2>2, <2>3, <2>4, <2>5 DEF AssignmentStep
  <1>5. ASSUME NEW p \in Projectors, CommitEffect(p) PROVE ClosingMoves(q)
    <2>1. CASE p = q
      <3>1. proj'[q].pc = "route" /\ proj'[q].cursor = proj[q].cursor
            /\ proj'[q].closed = proj[q].closed
        BY <1>0, <1>5, <2>1 DEF CommitEffect, Member
      <3> QED BY <3>1 DEF ClosingMoves
    <2>2. CASE p # q
      BY <1>0, <1>a, <1>5, <2>2 DEF CommitEffect
    <2> QED BY <2>1, <2>2
  <1>6. ASSUME NEW p \in Projectors, CommitLost(p) PROVE ClosingMoves(q)
    BY <1>0, <1>a, <1>b, <1>6 DEF CommitLost
  <1>7. ASSUME NEW p \in Projectors, SkipDispatched(p) PROVE ClosingMoves(q)
    <2>1. Position(p) \in DOMAIN log /\ RecordAt(p).kind = "command"
      BY <1>0, <1>7, RecordRead DEF SkipDispatched, Delivering
    <2> QED BY <1>c, <1>7, <2>1 DEF SkipDispatched
  <1>8. ASSUME NEW p \in Projectors, Dispatch(p) PROVE ClosingMoves(q)
    <2>1. CASE proj' = [proj EXCEPT ![p] = Unassigned]
      BY <1>0, <1>a, <1>b, <2>1
    <2>2. CASE proj' = [proj EXCEPT ![p] = Advanced(@)]
      BY <1>1, <1>2, <1>8, <1>c, <2>2 DEF Dispatch
    <2>3. CASE proj' = [proj EXCEPT ![p].pc = "submit"]
      <3>1. CASE p = q
        <4>1. proj'[q].pc = "submit" /\ proj'[q].cursor = proj[q].cursor
              /\ proj'[q].closed = proj[q].closed
          BY <1>0, <2>3, <3>1 DEF Member
        <4> QED BY <4>1 DEF ClosingMoves
      <3>2. CASE p # q
        BY <1>0, <1>a, <2>3, <3>2
      <3> QED BY <3>1, <3>2
    <2> QED BY <1>8, <2>1, <2>2, <2>3 DEF Dispatch
  <1>9. ASSUME NEW p \in Projectors, SubmitAnswered(p) \/ SubmitUnanswered(p)
        PROVE  ClosingMoves(q)
    <2>1. proj[p].pc = "submit" /\ proj' = [proj EXCEPT ![p] = Advanced(@)]
      BY <1>9 DEF SubmitAnswered, SubmitUnanswered, Settle
    <2> QED BY <1>1, <1>2, <1>c, <2>1
  <1>10. ASSUME NEW p \in Projectors, SendCancel(p) PROVE ClosingMoves(q)
    <2>1. CASE p = q
      <3>1. /\ proj'[q].pc = "cancel" /\ proj'[q].cursor = proj[q].cursor
            /\ proj'[q].closed = IF At(q, {"retire"}) THEN proj[q].closed \cup {RecordAt(q).id}
                                 ELSE proj[q].closed
        BY <1>0, <1>10, <2>1 DEF SendCancel, Member
      <3>2. At(q, {"cancel", "retire"}) /\ Position(q) \in DOMAIN log
        BY <1>0, <1>10, <2>1, RecordRead DEF SendCancel, Delivering
      <3>3. RecordAt(q).kind = "retire" => At(q, {"retire"})
        BY <3>2 DEF At, RecordAt
      <3> QED BY <3>1, <3>2, <3>3 DEF ClosingMoves
    <2>2. CASE p # q
      BY <1>0, <1>a, <1>10, <2>2 DEF SendCancel
    <2> QED BY <2>1, <2>2
  <1>11. ASSUME NEW p \in Projectors, CancelAnswered(p) \/ CancelUnanswered(p)
         PROVE  ClosingMoves(q)
    <2>0. proj[p].pc = "cancel"
      BY <1>11 DEF CancelAnswered, CancelUnanswered
    <2>1. CASE proj' = [proj EXCEPT ![p] = Advanced(@)]
      BY <1>1, <1>c, <2>0, <2>1
    <2>2. CASE proj' = [proj EXCEPT ![p].tries = 2, ![p].answer = "none"]
      <3>1. proj'[q].pc = proj[q].pc /\ proj'[q].cursor = proj[q].cursor
            /\ proj'[q].closed = proj[q].closed
        BY <1>0, <2>2 DEF Member
      <3> QED BY <1>a, <3>1
    <2> QED BY <1>11, <2>1, <2>2 DEF CancelAnswered, CancelUnanswered
  <1>12. ASSUME NEW p \in Projectors, ConsumeSeal(p) PROVE ClosingMoves(q)
    <2>1. CASE p = q
      <3>1. At(q, {"seal"}) /\ proj[q].current
        BY <1>12, <2>1 DEF ConsumeSeal, Delivering
      <3>2. /\ proj[q] \in Member(Len(log)) /\ proj[q].cursor < Len(log) /\ Len(log) \in Nat
            /\ Position(q) \in DOMAIN log /\ RecordAt(q).kind = "seal"
        BY <1>0, <3>1, RecordRead
      <3> DEFINE m == [proj[q] EXCEPT !.pc = "idle", !.tries = 0, !.answer = "none",
                                      !.cursor = @ + 1]
      <3>3. m = Advanced(proj[q]) /\ m \in Member(Len(log))
        BY <3>1, <3>2, AdvancedType DEF Advanced
      <3>4. m.pc = "idle" /\ m.cursor = proj[q].cursor + 1 /\ m.closed = proj[q].closed
        BY <1>0 DEF Member
      <3>5. proj'[q] = [m EXCEPT !.closed = @ \cup {RecordAt(q).id}]
        BY <1>0, <1>12, <2>1, <3>3 DEF ConsumeSeal
      <3> HIDE DEF m
      <3>6. /\ proj'[q].pc = "idle" /\ proj'[q].cursor = proj[q].cursor + 1
            /\ proj[q].closed \subseteq proj'[q].closed
        BY <3>3, <3>4, <3>5 DEF Member
      <3> QED BY <3>2, <3>6 DEF ClosingMoves
    <2>2. CASE p # q
      BY <1>0, <1>a, <1>12, <2>2 DEF ConsumeSeal
    <2> QED BY <2>1, <2>2
  <1>13. ASSUME NEW r \in rpcs, NEW a, proj' = Answered(r, a) PROVE ClosingMoves(q)
    <2>1. proj'[q].pc = proj[q].pc /\ proj'[q].cursor = proj[q].cursor
          /\ proj'[q].closed = proj[q].closed
      BY <1>0, <1>13 DEF Answered, Member
    <2> QED BY <1>a, <2>1
  <1>14. CASE ExecutorStep
    <2>1. ASSUME NEW r \in rpcs, Submit(r) \/ Cancel(r) PROVE ClosingMoves(q)
      BY <1>13, <2>1 DEF Submit, Admit, Refuse, Cancel
    <2>2. CASE ~(\E r \in rpcs : Submit(r) \/ Cancel(r))
      <3>1. proj' = proj
        BY <1>14, <2>2 DEF ExecutorStep, Admission, LoseRpc, StartTool, Unstarted, Complete, Fail,
                    Finish, Deliver, RetireIdleRuntime, ForgetRuntime, CloseExecutor,
                    RestartExecutor, projection
      <3> QED BY <1>a, <3>1
    <2> QED BY <2>1, <2>2
  <1> QED BY <1>3, <1>4, <1>5, <1>6, <1>7, <1>8, <1>9, <1>10, <1>11, <1>12, <1>14
          DEF Next, ProjectorStep, Delivery

\* Closed bindings, in every step.
LEMMA ClosedStep ==
    ASSUME Grounded, ClosedInv, [Next]_vars
    PROVE  ClosedInv'
  <1>0. /\ TypeOK /\ TypeOK' /\ Extended /\ log \in Seq(Record) /\ log' \in Seq(Record)
        /\ Len(log) \in Nat /\ proj \in [Projectors -> Member(Len(log))]
        /\ DOMAIN log = 1..Len(log) /\ DOMAIN log' \subseteq Nat \ {0}
    BY GroundedStep DEF Grounded, TypeOK
  <1>1. \A i \in DOMAIN log' : log'[i].kind = "retire" => log'[i].id \in routeClosed'
    BY <1>0, NewRecords DEF ClosedInv, Extended
  <1>2. \A q \in Projectors : /\ proj[q].cursor \in 0..Len(log)
                              /\ proj[q].cursor \in Nat /\ proj'[q].cursor \in Nat
                              /\ Position(q) = proj[q].cursor + 1
                              /\ group.offset \in 0..Len(log)
    <2>1. /\ Len(log') \in Nat /\ proj' \in [Projectors -> Member(Len(log'))]
          /\ group \in Group(Len(log))
      BY <1>0 DEF TypeOK
    <2>2. \A q \in Projectors : proj[q].cursor \in 0..Len(log) /\ proj'[q].cursor \in 0..Len(log')
      BY <1>0, <2>1 DEF Member
    <2>3. group.offset \in 0..Len(log)
      BY <2>1 DEF Group
    <2> QED BY <1>0, <2>1, <2>2, <2>3 DEF Position
  <1>3. ASSUME NEW q \in Projectors
        PROVE  /\ \A i \in DOMAIN log' : i <= proj'[q].cursor /\ log'[i].kind = "retire" =>
                    log'[i].id \in proj'[q].closed
               /\ proj'[q].pc = "cancel" /\ RecordAt(q)'.kind = "retire" =>
                    RecordAt(q)'.id \in proj'[q].closed
    <2>0. ClosingMoves(q)
      BY ClosingSteps
    <2>a. \A i \in DOMAIN log' : i <= Len(log) => i \in DOMAIN log /\ log'[i] = log[i]
      BY <1>0 DEF Extended
    <2>1. CASE /\ proj'[q].pc # "cancel"
               /\ \/ proj'[q].cursor = 0
                  \/ proj'[q].cursor <= group.offset /\ proj'[q].closed = routeClosed
      <3> SUFFICES ASSUME NEW i \in DOMAIN log', i <= proj'[q].cursor, log'[i].kind = "retire"
                   PROVE  log'[i].id \in proj'[q].closed
        BY <2>1
      <3>1. proj'[q].cursor <= group.offset /\ proj'[q].closed = routeClosed
        BY <1>0, <2>1
      <3>2. i <= Len(log)
        BY <1>0, <1>2, <3>1
      <3> QED BY <2>a, <3>1, <3>2 DEF ClosedInv
    <2>2. CASE /\ proj'[q].pc # "cancel" /\ proj'[q].cursor = proj[q].cursor + 1
               /\ proj[q].closed \subseteq proj'[q].closed
               /\ Position(q) \in DOMAIN log
               /\ RecordAt(q).kind = "retire" => proj[q].pc = "cancel"
      <3> SUFFICES ASSUME NEW i \in DOMAIN log', i <= proj'[q].cursor, log'[i].kind = "retire"
                   PROVE  log'[i].id \in proj[q].closed
        BY <2>2
      <3>1. i \in DOMAIN log /\ log'[i] = log[i]
        BY <1>0, <1>2, <2>2, <2>a
      <3>2. CASE i <= proj[q].cursor
        BY <3>1, <3>2 DEF ClosedInv
      <3>3. CASE i = Position(q)
        BY <2>2, <3>1, <3>3 DEF ClosedInv, RecordAt
      <3> QED BY <1>0, <1>2, <2>2, <3>2, <3>3
    <2>3. CASE /\ proj'[q].cursor = proj[q].cursor
               /\ proj[q].closed \subseteq proj'[q].closed
               /\ proj'[q].pc = "cancel" =>
                    /\ Position(q) \in DOMAIN log
                    /\ proj[q].pc = "cancel" \/ (RecordAt(q).kind = "retire" =>
                                                   RecordAt(q).id \in proj'[q].closed)
      <3>1. ASSUME NEW i \in DOMAIN log', i <= proj'[q].cursor, log'[i].kind = "retire"
            PROVE  log'[i].id \in proj'[q].closed
        <4>1. i \in DOMAIN log /\ log'[i] = log[i]
          BY <1>0, <1>2, <2>3, <2>a, <3>1
        <4> QED BY <2>3, <3>1, <4>1 DEF ClosedInv
      <3>2. ASSUME proj'[q].pc = "cancel", RecordAt(q)'.kind = "retire"
            PROVE  RecordAt(q)'.id \in proj'[q].closed
        <4>1. RecordAt(q)' = RecordAt(q)
          BY <1>0, <2>3, <3>2 DEF RecordAt, Position, Extended
        <4> QED BY <2>3, <3>2, <4>1 DEF ClosedInv
      <3> QED BY <3>1, <3>2
    <2> QED BY <2>0, <2>1, <2>2, <2>3 DEF ClosingMoves
  <1>4. ASSUME NEW r \in rpcs', r.kind = "command", NEW i \in DOMAIN log', i < r.at
        PROVE  log'[i] # [kind |-> "retire", id |-> BindingOf[r.id]]
    <2>1. CASE r \in rpcs
      <3>1. r.at \in 1..Len(log)
        BY <1>0, <2>1 DEF Grounded, Located
      <3>2. i \in DOMAIN log /\ log'[i] = log[i]
        BY <1>0, <1>4, <3>1 DEF Extended
      <3> QED BY <1>4, <2>1, <3>2 DEF ClosedInv
    <2>2. CASE r \notin rpcs
      <3>1. PICK p \in Projectors :
              r.at = Position(p) /\ BindingOf[r.id] \notin proj[p].closed /\ log' = log
        BY <1>4, <2>2, NewRequests
      <3>2. i \in DOMAIN log /\ i <= proj[p].cursor
        BY <1>0, <1>2, <1>4, <3>1
      <3> QED BY <3>1, <3>2 DEF ClosedInv
    <2> QED BY <2>1, <2>2
  <1> QED BY <1>1, <1>3, <1>4 DEF ClosedInv

\* A machine that accepted a cancellation is past it, in every step.
LEMMA FencedStep ==
    ASSUME Grounded, FencedInv, [Next]_vars
    PROVE  FencedInv'
  <1>0. /\ TypeOK /\ Extended /\ cube \in Machine(Len(log)) /\ cube.position \in Nat
        /\ DOMAIN log \subseteq Nat /\ Len(log) \in Nat
    <2>1. TypeOK /\ Extended /\ Len(log) \in Nat
      BY GroundedStep DEF Grounded, TypeOK
    <2> QED BY <2>1 DEF TypeOK, Machine
  <1>a. ASSUME fenced' = fenced,
               cube'.present /\ ~cube'.replaced =>
                 cube.present /\ ~cube.replaced /\ cube'.position \in Nat
                 /\ cube'.position >= cube.position
        PROVE  FencedInv'
    <2> SUFFICES ASSUME cube'.present, ~cube'.replaced, NEW o \in fenced
                 PROVE  \E i \in DOMAIN log' : i <= cube'.position /\ Forbids(i, o)'
      BY <1>a DEF FencedInv
    <2>1. PICK i \in DOMAIN log : i <= cube.position /\ Forbids(i, o)
      BY <1>a DEF FencedInv
    <2>2. i \in DOMAIN log' /\ log'[i] = log[i]
      BY <1>0 DEF Extended
    <2>3. i <= cube'.position
      BY <1>0, <1>a, <2>1
    <2> QED BY <2>1, <2>2, <2>3 DEF Forbids
  <1>b. ASSUME UNCHANGED <<cube, fenced>> PROVE FencedInv'
    BY <1>0, <1>a, <1>b
  <1>1. CASE WorkerStep \/ AssignmentStep \/ ProjectorStep \/ UNCHANGED vars
    BY <1>1, <1>b, ElsewhereUnchanged DEF executor, vars
  <1>2. ASSUME NEW r \in rpcs, Submit(r) PROVE FencedInv'
    <2>1. fenced' = fenced
      BY <1>2 DEF Submit
    <2>2. CASE cube' = cube
      BY <1>b, <2>1, <2>2
    <2>3. CASE cube' = [cube EXCEPT !.position = NewPosition(r.at)]
      <3>1. NewPosition(r.at) \in Nat /\ NewPosition(r.at) >= cube.position
        <4>1. r.at \in DOMAIN log
          BY <1>2 DEF Grounded, Located
        <4>2. NewPosition(r.at) \in 0..Len(log) /\ NewPosition(r.at) >= cube.position
          BY <1>0, <4>1, NewPositionAt
        <4> QED BY <1>0, <4>2
      <3>2. /\ cube'.present = cube.present /\ cube'.replaced = cube.replaced
            /\ cube'.position = NewPosition(r.at)
        BY <1>0, <2>3 DEF Machine
      <3> QED BY <1>a, <2>1, <3>1, <3>2
    <2> QED BY <1>2, <2>2, <2>3 DEF Submit, Admit, Refuse
  <1>3. ASSUME NEW r \in rpcs, Cancel(r) PROVE FencedInv'
    <2>1. CASE UNCHANGED <<cube, fenced>>
      BY <1>b, <2>1
    <2>2. CASE /\ cube' = [cube EXCEPT !.position = NewPosition(r.at)]
               /\ fenced' = fenced \cup Covered(r)
      <3>1. /\ NewPosition(r.at) \in Nat /\ NewPosition(r.at) >= cube.position
            /\ NewPosition(r.at) >= r.at /\ r.at \in DOMAIN log
            /\ log[r.at] = [kind |-> r.kind, id |-> r.id]
        BY <1>0, NewPositionAt DEF Grounded, Located, TypeOK
      <3>2. /\ cube'.present = cube.present /\ cube'.replaced = cube.replaced
            /\ cube'.position = NewPosition(r.at)
        BY <1>0, <2>2 DEF Machine
      <3>3. r.kind \in {"cancel", "retire"} /\ log' = log
        BY <1>3 DEF Cancel
      <3>4. \A o \in Covered(r) : Forbids(r.at, o)
        BY <3>1, <3>3 DEF Covered, OpsOf, Forbids
      <3> SUFFICES ASSUME cube'.present, ~cube'.replaced, NEW o \in fenced'
                   PROVE  \E i \in DOMAIN log' : i <= cube'.position /\ Forbids(i, o)'
        BY DEF FencedInv
      <3>5. CASE o \in Covered(r)
        BY <3>1, <3>2, <3>3, <3>4, <3>5 DEF Forbids
      <3>6. CASE o \in fenced
        <4>1. PICK i \in DOMAIN log : i <= cube.position /\ Forbids(i, o)
          BY <3>2, <3>6 DEF FencedInv
        <4>2. i <= cube'.position
          BY <1>0, <3>1, <3>2, <4>1
        <4> QED BY <3>3, <4>1, <4>2 DEF Forbids
      <3> QED BY <2>2, <3>5, <3>6
    <2> QED BY <1>3, <2>1, <2>2 DEF Cancel
  <1>4. ASSUME NEW o \in Ops, StartTool(o) \/ Deliver(o) PROVE FencedInv'
    BY <1>4, <1>b DEF StartTool, Deliver
  <1>5. ASSUME NEW o \in Ops, NEW outcome, NEW q, Finish(o, outcome, q) PROVE FencedInv'
    <2>1. /\ cube'.present = cube.present /\ cube'.replaced = cube.replaced
          /\ cube'.position = cube.position /\ fenced' = fenced
      BY <1>0, <1>5 DEF Finish, Machine
    <2> QED BY <1>0, <1>a, <2>1
  <1>6. ASSUME NEW o \in Ops, Unstarted(o) \/ Complete(o) \/ Fail(o) PROVE FencedInv'
    BY <1>5, <1>6 DEF Unstarted, Complete, Fail
  <1>7. CASE RetireIdleRuntime \/ CloseExecutor
    <2>1. /\ cube'.present = cube.present /\ cube'.replaced = cube.replaced
          /\ cube'.position = cube.position /\ fenced' = fenced
      BY <1>0, <1>7 DEF RetireIdleRuntime, CloseExecutor, Machine
    <2> QED BY <1>0, <1>a, <2>1
  <1>8. CASE ForgetRuntime \/ RestartExecutor
    <2>1. ~cube'.present \/ cube'.replaced
      BY <1>0, <1>8 DEF ForgetRuntime, RestartExecutor, Machine
    <2> QED BY <2>1 DEF FencedInv
  <1>9. ASSUME NEW r \in rpcs, LoseRpc(r) PROVE FencedInv'
    BY <1>9, <1>b DEF LoseRpc, executor
  <1> QED BY <1>1, <1>2, <1>3, <1>4, <1>6, <1>7, <1>8, <1>9 DEF Next, ExecutorStep, Admission

\* What forbids an operation lies behind the machine's position, and its
\* command in front of it: it is not admitted.
LEMMA FencedStays ==
    ASSUME PathInv, PublishedInv, ClosedInv, FencedInv, [Next]_vars,
           NEW o \in fenced, exec[o] = "none"
    PROVE  exec'[o] = "none"
  <1> SUFFICES ASSUME exec'[o] # "none" PROVE FALSE
    OBVIOUS
  <1>0. TypeOK /\ o \in Ops /\ Grounded /\ OneRecordEach /\ cube.position \in Nat
        /\ DOMAIN log \subseteq Nat
    <2>1. TypeOK /\ Grounded /\ OneRecordEach /\ cube.position \in 0..Len(log) /\ Len(log) \in Nat
      BY DEF PathInv, Grounded, TypeOK, Machine
    <2> QED BY <2>1 DEF TypeOK
  <1>1. PICK r \in CommandsOf(o) : Submit(r)
    BY <1>0, OperationSteps DEF Held, Unfinished
  <1>2. r \in rpcs /\ r.kind = "command" /\ r.id = o /\ Verdict(r) = "admit"
    BY <1>1 DEF CommandsOf, Submit, Admit, Refuse
  <1>3. /\ r.at > cube.position /\ cube.present /\ ~cube.replaced
        /\ r.at \in DOMAIN log /\ log[r.at] = [kind |-> "command", id |-> o]
    BY <1>0, <1>2, AdmitMeans DEF Grounded, Located
  <1>4. PICK i \in DOMAIN log : i <= cube.position /\ Forbids(i, o)
    BY <1>3 DEF FencedInv
  <1>5. i < r.at
    BY <1>0, <1>3, <1>4
  <1>6. CASE log[i] = [kind |-> "cancel", id |-> o]
    <2>1. PICK j \in DOMAIN log : j < i /\ IsCommand(j, o)
      BY <1>6 DEF PublishedInv
    <2>2. j = r.at
      BY <1>0, <1>3, <2>1 DEF OneRecordEach, IsCommand
    <2> QED BY <1>0, <1>5, <2>1, <2>2
  <1>7. CASE log[i] = [kind |-> "retire", id |-> BindingOf[o]]
    BY <1>2, <1>5, <1>7 DEF ClosedInv
  <1> QED BY <1>4, <1>6, <1>7 DEF Forbids

\* A cancellation the executor accepted also holds for what it has not seen: a
\* covered command that arrives later is not admitted, from whichever Projector
\* it was sent.
THEOREM CancelFencesHolds == Spec => CancelFences
  <1> DEFINE I == PathInv /\ PublishedInv /\ ClosedInv /\ FencedInv
  <1>1. Init => I
    <2> SUFFICES ASSUME Init PROVE I
      OBVIOUS
    <2>1. PathInv
      BY GroundedInit, HandoffInit DEF PathInv
    <2>2. log = <<>> /\ rpcs = {} /\ fenced = {}
          /\ \A o \in Ops : ~call[o].published /\ ~call[o].aborted
      BY DEF Init
    <2>3. \A p \in Projectors : proj[p].pc = "idle"
      BY DEF Init, Unassigned
    <2> QED BY <2>1, <2>2, <2>3 DEF PublishedInv, ClosedInv, FencedInv
  <1>2. I /\ [Next]_vars => I'
    BY GroundedStep, OneRecordEachStep, HandoffStep, PublishedStep, ClosedStep, FencedStep
       DEF PathInv
  <1>3. I /\ [Next]_vars => [\A o \in fenced : exec[o] = "none" => exec'[o] = "none"]_vars
    BY FencedStays
  <1> HIDE DEF I
  <1> QED BY <1>1, <1>2, <1>3, PTL DEF Spec, CancelFences
=============================================================================
