--------------------------- MODULE ControllerLease --------------------------
(***************************************************************************)
(* The ownership lease of the Sandbox controllers, and the fence around    *)
(* their lifecycle transactions. An instance inserts its row, keeps it     *)
(* with heartbeats, and confirms it to itself: the time it asked plus the  *)
(* time the database said was left. Lifecycle transactions lock the row    *)
(* and must leave room for their own timeout and for the next heartbeat.   *)
(*                                                                         *)
(* Every time is kept as what is left of it, counted down by Tick. The     *)
(* monotonic clock of a process and the clock of the database run at the   *)
(* same rate; they need not agree on the hour.                             *)
(***************************************************************************)
EXTENDS Naturals, FiniteSets

CONSTANTS Instances, UrlOf,
          Lease, Heartbeat, Budget,  \* leaseMs, heartbeatMs, #transactionBudgetMs
          MaxCalls                   \* confirmations under way at once

ASSUME LeaseAssumption ==
    /\ Lease \in Nat /\ Heartbeat \in Nat \ {0} /\ Budget \in Nat \ {0}
    /\ Heartbeat * 2 < Lease
    /\ MaxCalls \in Nat

VARIABLES row,      \* sandbox_control_instances: state and time left
          process,  \* starting, running, closing, gone
          deadline, \* #ownershipDeadline, as time left
          lost,     \* #ownershipLost
          renewal,  \* the renewal under way
          health,   \* the health query under way
          txn       \* the lifecycle transaction under way

vars == <<row, process, deadline, lost, renewal, health, txn>>

Time == 0..Lease

OwnerRow == [state : {"none", "ready", "lost", "stopped"}, left : Time]

\* A call between the clock reading and the use of its answer. until is the
\* deadline the answer will set; a health query that has not been answered
\* counts in it the time since it asked.
Call == [stage : {"idle", "asked", "answered"}, until : Time]
NoCall == [stage |-> "idle", until |-> 0]

\* left runs from set_config('transaction_timeout') on.
Txn == [stage : {"idle", "begun", "locked", "checked"}, left : 0..Budget]
NoTxn == [stage |-> "idle", left |-> 0]

TypeOK ==
    /\ row \in [Instances -> OwnerRow]
    /\ process \in [Instances -> {"new", "starting", "running", "closing", "gone"}]
    /\ deadline \in [Instances -> Time]
    /\ lost \in [Instances -> BOOLEAN]
    /\ renewal \in [Instances -> Call]
    /\ health \in [Instances -> Call]
    /\ txn \in [Instances -> Txn]

Init ==
    /\ row = [i \in Instances |-> [state |-> "none", left |-> 0]]
    /\ process = [i \in Instances |-> "new"]
    /\ deadline = [i \in Instances |-> 0]
    /\ lost = [i \in Instances |-> FALSE]
    /\ renewal = [i \in Instances |-> NoCall]
    /\ health = [i \in Instances |-> NoCall]
    /\ txn = [i \in Instances |-> NoTxn]

Alive(i) == process[i] \in {"starting", "running"}
Current(i) == row[i].state = "ready" /\ row[i].left > 0
Sure(i) == Alive(i) /\ ~lost[i] /\ deadline[i] > 0

\* FOR SHARE of a lifecycle transaction keeps renewals and FOR UPDATE out.
Shared(i) == txn[i].stage \in {"locked", "checked"}

Loses(i) ==
    /\ lost' = [lost EXCEPT ![i] = TRUE]
    /\ deadline' = [deadline EXCEPT ![i] = 0]

-----------------------------------------------------------------------------
(* Rows of the instances.                                                   *)

Expired == {i \in Instances : row[i].state = "ready" /\ row[i].left = 0 /\ ~Shared(i)}

MarkedLost == [i \in Instances |->
    IF i \in Expired THEN [row[i] EXCEPT !.state = "lost"] ELSE row[i]]

\* Mutant: start leaves the expired owners to the other controllers.
InsertOwnerUnmarked(i) ==
    /\ process[i] = "new"
    /\ \A k \in Instances : UrlOf[k] = UrlOf[i] => row[k].state # "ready"
    /\ row' = [row EXCEPT ![i] = [state |-> "ready", left |-> Lease]]
    /\ process' = [process EXCEPT ![i] = "starting"]
    /\ UNCHANGED <<deadline, lost, renewal, health, txn>>

\* start: one transaction marks the expired owners and inserts the row, which
\* the unique index refuses while another ready row has the URL.
InsertOwner(i) ==
    /\ process[i] = "new"
    /\ \A k \in Instances : UrlOf[k] = UrlOf[i] => MarkedLost[k].state # "ready"
    /\ row' = [MarkedLost EXCEPT ![i] = [state |-> "ready", left |-> Lease]]
    /\ process' = [process EXCEPT ![i] = "starting"]
    /\ UNCHANGED <<deadline, lost, renewal, health, txn>>

\* reconcileOwnership of any controller; a locked row waits for the next pass.
MarkExpired(i) ==
    /\ process[i] \in {"running", "closing"} /\ Expired # {}
    /\ row' = MarkedLost
    /\ UNCHANGED <<process, deadline, lost, renewal, health, txn>>

-----------------------------------------------------------------------------
(* Confirmation by heartbeat and by health query.                           *)

Asking == Cardinality({i \in Instances : renewal[i].stage # "idle"})
          + Cardinality({i \in Instances : health[i].stage # "idle"})

\* The deadline of a renewal is the time it was requested plus the lease.
SendRenewal(i) ==
    /\ process[i] = "running" /\ ~lost[i] /\ renewal[i].stage = "idle" /\ Asking < MaxCalls
    /\ renewal' = [renewal EXCEPT ![i] = [stage |-> "asked", until |-> Lease]]
    /\ UNCHANGED <<row, process, deadline, lost, health, txn>>

\* Mutant: an expired row is renewed as long as nobody has marked it.
RenewReady(i) ==
    /\ renewal[i].stage = "asked" /\ ~Shared(i) /\ row[i].state = "ready"
    /\ row' = [row EXCEPT ![i].left = Lease]
    /\ renewal' = [renewal EXCEPT ![i].stage = "answered"]
    /\ UNCHANGED <<process, deadline, lost, health, txn>>

Renew(i) ==
    /\ renewal[i].stage = "asked" /\ ~Shared(i) /\ Current(i)
    /\ row' = [row EXCEPT ![i].left = Lease]
    /\ renewal' = [renewal EXCEPT ![i].stage = "answered"]
    /\ UNCHANGED <<process, deadline, lost, health, txn>>

\* No row came back: the identity is fenced.
RenewalFenced(i) ==
    /\ renewal[i].stage = "asked" /\ ~Shared(i) /\ ~Current(i)
    /\ renewal' = [renewal EXCEPT ![i] = NoCall]
    /\ IF process[i] = "running" THEN Loses(i) ELSE UNCHANGED <<deadline, lost>>
    /\ UNCHANGED <<row, process, health, txn>>

RenewalReply(i) ==
    /\ renewal[i].stage = "answered"
    /\ renewal' = [renewal EXCEPT ![i] = NoCall]
    /\ deadline' = IF lost[i] \/ ~Alive(i) THEN deadline
                   ELSE [deadline EXCEPT ![i] = renewal[i].until]
    /\ UNCHANGED <<row, process, lost, health, txn>>

\* A timeout, a failed connection or a lost COMMIT reply, before or after the
\* update: only an expired local deadline makes it a loss.
RenewalFails(i) ==
    /\ renewal[i].stage # "idle"
    /\ renewal' = [renewal EXCEPT ![i] = NoCall]
    /\ IF process[i] = "running" /\ deadline[i] = 0 THEN Loses(i)
       ELSE UNCHANGED <<deadline, lost>>
    /\ UNCHANGED <<row, process, health, txn>>

AskHealth(i) ==
    /\ Alive(i) /\ ~lost[i] /\ health[i].stage = "idle" /\ Asking < MaxCalls
    /\ health' = [health EXCEPT ![i] = [stage |-> "asked", until |-> 0]]
    /\ UNCHANGED <<row, process, deadline, lost, renewal, txn>>

\* remaining_ms, from the time of the request.
HealthAnswer(i) ==
    IF row[i].left > health[i].until THEN row[i].left - health[i].until ELSE 0

ReadHealth(i) ==
    /\ health[i].stage = "asked" /\ Current(i)
    /\ health' = [health EXCEPT ![i] = [stage |-> "answered", until |-> HealthAnswer(i)]]
    /\ UNCHANGED <<row, process, deadline, lost, renewal, txn>>

HealthFenced(i) ==
    /\ health[i].stage = "asked" /\ ~Current(i)
    /\ health' = [health EXCEPT ![i] = NoCall]
    /\ IF Alive(i) THEN Loses(i) ELSE UNCHANGED <<deadline, lost>>
    /\ UNCHANGED <<row, process, renewal, txn>>

\* The first confirmation ends start.
HealthReply(i) ==
    /\ health[i].stage = "answered"
    /\ health' = [health EXCEPT ![i] = NoCall]
    /\ IF lost[i] \/ process[i] \notin {"starting", "running"}
       THEN UNCHANGED <<deadline, process>>
       ELSE /\ deadline' = [deadline EXCEPT ![i] = health[i].until]
            /\ process' = [process EXCEPT ![i] = "running"]
    /\ UNCHANGED <<row, lost, renewal, txn>>

\* assertLocalOwnership after the deadline.
NoticeExpiry(i) ==
    /\ process[i] = "running" /\ ~lost[i] /\ deadline[i] = 0
    /\ Loses(i)
    /\ UNCHANGED <<row, process, renewal, health, txn>>

-----------------------------------------------------------------------------
(* #ownedTransaction.                                                       *)

Begin(i) ==
    /\ process[i] = "running" /\ Sure(i) /\ txn[i].stage = "idle"
    /\ txn' = [txn EXCEPT ![i] = [stage |-> "begun", left |-> Budget]]
    /\ UNCHANGED <<row, process, deadline, lost, renewal, health>>

\* Mutant: only the expiry is checked.
AnyRoomLeft(i) == row[i].left > 0

\* The lease must outlast the transaction and the heartbeat after it.
RoomLeft(i) == row[i].left > Budget + Heartbeat

LockOwner(i) ==
    /\ txn[i].stage = "begun" /\ Current(i) /\ RoomLeft(i)
    /\ txn' = [txn EXCEPT ![i].stage = "locked"]
    /\ UNCHANGED <<row, process, deadline, lost, renewal, health>>

\* The work is done; the row is read again and the local deadline checked.
Recheck(i) ==
    /\ txn[i].stage = "locked" /\ Current(i) /\ Sure(i)
    /\ txn' = [txn EXCEPT ![i].stage = "checked"]
    /\ UNCHANGED <<row, process, deadline, lost, renewal, health>>

Commit(i) ==
    /\ txn[i].stage = "checked"
    /\ txn' = [txn EXCEPT ![i] = NoTxn]
    /\ UNCHANGED <<row, process, deadline, lost, renewal, health>>

\* A check finds the lease over, in the database or by the local deadline.
Fenced(i) ==
    /\ txn[i].stage \in {"begun", "locked"} /\ ~(Current(i) /\ Sure(i))
    /\ txn[i].stage = "begun" => ~Current(i)
    /\ txn' = [txn EXCEPT ![i] = NoTxn]
    /\ IF Alive(i) THEN Loses(i) ELSE UNCHANGED <<deadline, lost>>
    /\ UNCHANGED <<row, process, renewal, health>>

\* No room left, an error of the work, or transaction_timeout.
Abort(i) ==
    /\ txn[i].stage # "idle"
    /\ txn' = [txn EXCEPT ![i] = NoTxn]
    /\ UNCHANGED <<row, process, deadline, lost, renewal, health>>

-----------------------------------------------------------------------------
(* Departure.                                                               *)

\* close() stops the heartbeat and refuses local ownership from now on.
Close(i) ==
    /\ process[i] = "running"
    /\ process' = [process EXCEPT ![i] = "closing"]
    /\ deadline' = [deadline EXCEPT ![i] = 0]
    /\ UNCHANGED <<row, lost, renewal, health, txn>>

\* After the renewal under way has ended.
StopIdentity(i) ==
    /\ process[i] = "closing" /\ renewal[i].stage = "idle" /\ ~Shared(i)
    /\ row' = IF row[i].state = "ready"
              THEN [row EXCEPT ![i] = [state |-> "stopped", left |-> 0]] ELSE row
    /\ process' = [process EXCEPT ![i] = "gone"]
    /\ UNCHANGED <<deadline, lost, renewal, health, txn>>

\* Updates the process had sent may still be carried out; a query has no effect.
Crash(i) ==
    /\ process[i] \in {"starting", "running", "closing"}
    /\ process' = [process EXCEPT ![i] = "gone"]
    /\ deadline' = [deadline EXCEPT ![i] = 0]
    /\ health' = [health EXCEPT ![i] = NoCall]
    /\ UNCHANGED <<row, lost, renewal, txn>>

-----------------------------------------------------------------------------
Down(n) == IF n > 0 THEN n - 1 ELSE 0
Up(n) == IF n < Lease THEN n + 1 ELSE Lease

\* transaction_timeout ends a transaction before its budget is overrun.
Tick ==
    /\ \A i \in Instances : txn[i].stage # "idle" => txn[i].left > 0
    /\ row' = [i \in Instances |-> [row[i] EXCEPT !.left = Down(@)]]
    /\ deadline' = [i \in Instances |-> Down(deadline[i])]
    /\ renewal' = [i \in Instances |-> [renewal[i] EXCEPT !.until = Down(@)]]
    /\ health' = [i \in Instances |-> [health[i] EXCEPT !.until =
         IF health[i].stage = "asked" THEN Up(@) ELSE Down(@)]]
    /\ txn' = [i \in Instances |-> [txn[i] EXCEPT !.left = Down(@)]]
    /\ UNCHANGED <<process, lost>>

Owner(i) == InsertOwner(i) \/ MarkExpired(i) \/ Close(i) \/ StopIdentity(i) \/ Crash(i)

Confirmation(i) ==
    \/ SendRenewal(i) \/ Renew(i) \/ RenewalFenced(i) \/ RenewalReply(i) \/ RenewalFails(i)
    \/ AskHealth(i) \/ ReadHealth(i) \/ HealthFenced(i) \/ HealthReply(i) \/ NoticeExpiry(i)

Lifecycle(i) == Begin(i) \/ LockOwner(i) \/ Recheck(i) \/ Commit(i) \/ Fenced(i) \/ Abort(i)

Next == Tick \/ \E i \in Instances : Owner(i) \/ Confirmation(i) \/ Lifecycle(i)

\* Time passes, transactions time out, and a controller that could not start
\* is started again.
Fairness ==
    /\ WF_vars(Tick)
    /\ \A i \in Instances : WF_vars(InsertOwner(i)) /\ WF_vars(Abort(i))

Spec == Init /\ [][Next]_vars
FairSpec == Spec /\ Fairness

-----------------------------------------------------------------------------
(* Properties.                                                              *)

\* No deadline, set or about to be set by an answer under way, lies beyond the
\* expiry in the database: #renew and checkHealth count from the time they
\* asked, not from the time the answer arrived.
DeadlineWithinLease ==
    \A i \in Instances : row[i].state = "ready" =>
        /\ deadline[i] <= row[i].left
        /\ renewal[i].stage = "answered" => renewal[i].until <= row[i].left
        /\ health[i].stage = "answered" => health[i].until <= row[i].left

\* Two controllers of one URL are never both sure of it: the successor's
\* insert waits for an expiry or a stop that the predecessor has noticed by
\* its own clock, whatever answers are still on their way to it.
OneSureOwner ==
    \A i, k \in Instances : Sure(i) /\ Sure(k) /\ UrlOf[i] = UrlOf[k] => i = k

\* A lifecycle transaction commits only under a row that is still ready and
\* unexpired at the commit, not only at the checks inside it: its timeout fits
\* in what LockOwner found left.
CommitUnderLease ==
    [][\A i \in Instances : Commit(i) => Current(i)]_vars

\* The expiry belongs to a ready row; a marked row keeps what was left of it.
LeaseOf(i) ==
    CASE row[i].state = "none" -> "none"
      [] row[i].state = "ready" /\ row[i].left > 0 -> "held"
      [] row[i].state = "ready" /\ row[i].left = 0 -> "over"
      [] OTHER -> "marked"

\* The lease is what the rest of the controller takes it for.
Abstract == INSTANCE OwnerLease WITH
    lease <- [i \in Instances |-> LeaseOf(i)], sure <- [i \in Instances |-> Sure(i)]
ImplementsOwnerLease == Abstract!LeaseSpec

\* A controller starts once its predecessor at the URL has gone, whatever
\* renewals and transactions that left behind: an abandoned transaction holds
\* the old identity no longer than its timeout.
SuccessorStarts ==
    \A i, k \in Instances :
        process[i] = "new" /\ process[k] = "gone" ~> process[i] # "new"
=============================================================================
