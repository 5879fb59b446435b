------------------------ MODULE ControllerLease_proofs -----------------------
(***************************************************************************)
(* The ownership lease for any number of controllers, any lease, heartbeat *)
(* and transaction budget: what the invariants of Succession.cfg say, and  *)
(* that ControllerLease implements OwnerLease.                             *)
(***************************************************************************)
EXTENDS ControllerLease, TLAPS

\* What an instance has before it inserts its row.
FreshIsUnused ==
    \A i \in Instances :
        /\ row[i].state = "none" <=> process[i] = "new"
        /\ process[i] = "new" => renewal[i].stage = "idle" /\ health[i].stage = "idle"

\* A deadline outlives neither its row nor its process.
NothingLeft(i) ==
    /\ deadline[i] = 0
    /\ renewal[i].stage = "answered" => renewal[i].until = 0
    /\ health[i].stage = "answered" => health[i].until = 0

DeadlineOfOwner ==
    \A i \in Instances :
        /\ ~Alive(i) => deadline[i] = 0
        /\ Alive(i) /\ row[i].state # "ready" => NothingLeft(i)

\* The unique index on the ready rows of a URL.
OneReadyRow ==
    \A i, k \in Instances :
        row[i].state = "ready" /\ row[k].state = "ready" /\ UrlOf[i] = UrlOf[k] => i = k

\* A transaction that holds its owner's row will be over before the lease.
LockedInLease ==
    \A i \in Instances :
        Shared(i) => row[i].state = "ready" /\ row[i].left > txn[i].left

LeaseInv ==
    TypeOK /\ FreshIsUnused /\ DeadlineWithinLease /\ DeadlineOfOwner
    /\ OneReadyRow /\ LockedInLease

-----------------------------------------------------------------------------
(* Every step preserves LeaseInv, conjunct by conjunct.                      *)

\* Values the actions store.
LEMMA Stored ==
    /\ 0 \in Time /\ Lease \in Time
    /\ NoCall \in Call /\ NoTxn \in Txn
    /\ [stage |-> "asked", until |-> Lease] \in Call
    /\ [stage |-> "asked", until |-> 0] \in Call
    /\ [stage |-> "begun", left |-> Budget] \in Txn
    /\ [state |-> "ready", left |-> Lease] \in OwnerRow
    /\ [state |-> "stopped", left |-> 0] \in OwnerRow
    /\ \A t \in Time : Down(t) \in Time /\ Up(t) \in Time
    /\ \A t \in 0..Budget : Down(t) \in 0..Budget
  BY LeaseAssumption DEF Time, NoCall, Call, NoTxn, Txn, OwnerRow, Down, Up

\* The rows after expired owners were marked.
LEMMA MarkedLostType ==
    ASSUME TypeOK
    PROVE  MarkedLost \in [Instances -> OwnerRow]
  <1> SUFFICES ASSUME NEW i \in Instances
               PROVE  (IF i \in Expired THEN [row[i] EXCEPT !.state = "lost"] ELSE row[i]) \in OwnerRow
    BY DEF MarkedLost
  <1>1. row[i] \in OwnerRow
    BY DEF TypeOK
  <1> QED BY <1>1 DEF OwnerRow

\* What is left when the answer of a health query arrives.
LEMMA HealthAnswerType ==
    ASSUME TypeOK, NEW i \in Instances
    PROVE  [stage |-> "answered", until |-> HealthAnswer(i)] \in Call
  <1>1. row[i].left \in Time /\ health[i].until \in Time
    BY DEF TypeOK, OwnerRow, Call
  <1> QED BY <1>1, LeaseAssumption DEF HealthAnswer, Time, Call

\* Every step of a controller, a health answer or the clock keeps the types.
LEMMA TypeStep ==
    ASSUME TypeOK, [Next]_vars
    PROVE  TypeOK'
  <1>1. ASSUME NEW i \in Instances, InsertOwner(i) PROVE  TypeOK'
    BY <1>1, Stored, MarkedLostType DEF InsertOwner, TypeOK
  <1>2. ASSUME NEW i \in Instances, MarkExpired(i) PROVE  TypeOK'
    BY <1>2, MarkedLostType DEF MarkExpired, TypeOK
  <1>3. ASSUME NEW i \in Instances, Close(i) PROVE  TypeOK'
    BY <1>3, Stored DEF Close, TypeOK
  <1>4. ASSUME NEW i \in Instances, StopIdentity(i) PROVE  TypeOK'
    BY <1>4, Stored DEF StopIdentity, Shared, TypeOK
  <1>5. ASSUME NEW i \in Instances, Crash(i) PROVE  TypeOK'
    BY <1>5, Stored DEF Crash, NoCall, TypeOK
  <1>6. ASSUME NEW i \in Instances, SendRenewal(i) PROVE  TypeOK'
    BY <1>6, Stored DEF SendRenewal, Asking, TypeOK
  <1>7. ASSUME NEW i \in Instances, Renew(i) PROVE  TypeOK'
    BY <1>7, Stored DEF Renew, TypeOK, OwnerRow, Call
  <1>8. ASSUME NEW i \in Instances, RenewalFenced(i) PROVE  TypeOK'
    BY <1>8, Stored DEF RenewalFenced, NoCall, Loses, TypeOK
  <1>9. ASSUME NEW i \in Instances, RenewalReply(i) PROVE  TypeOK'
    <2>1. renewal[i].until \in Time
      BY DEF TypeOK, Call
    <2> QED BY <1>9, <2>1, Stored DEF RenewalReply, TypeOK
  <1>10. ASSUME NEW i \in Instances, RenewalFails(i) PROVE  TypeOK'
    BY <1>10, Stored DEF RenewalFails, NoCall, Loses, TypeOK
  <1>11. ASSUME NEW i \in Instances, AskHealth(i) PROVE  TypeOK'
    BY <1>11, Stored DEF AskHealth, TypeOK
  <1>12. ASSUME NEW i \in Instances, ReadHealth(i) PROVE  TypeOK'
    BY <1>12, HealthAnswerType DEF ReadHealth, TypeOK
  <1>13. ASSUME NEW i \in Instances, HealthFenced(i) PROVE  TypeOK'
    BY <1>13, Stored DEF HealthFenced, NoCall, Loses, TypeOK
  <1>14. ASSUME NEW i \in Instances, HealthReply(i) PROVE  TypeOK'
    <2>1. health[i].until \in Time
      BY DEF TypeOK, Call
    <2> QED BY <1>14, <2>1, Stored DEF HealthReply, TypeOK
  <1>15. ASSUME NEW i \in Instances, NoticeExpiry(i) PROVE  TypeOK'
    BY <1>15, Stored DEF NoticeExpiry, Loses, TypeOK
  <1>16. ASSUME NEW i \in Instances, Begin(i) PROVE  TypeOK'
    BY <1>16, Stored DEF Begin, TypeOK
  <1>17. ASSUME NEW i \in Instances, LockOwner(i) PROVE  TypeOK'
    BY <1>17 DEF LockOwner, TypeOK, Txn
  <1>18. ASSUME NEW i \in Instances, Recheck(i) PROVE  TypeOK'
    BY <1>18 DEF Recheck, TypeOK, Txn
  <1>19. ASSUME NEW i \in Instances, Commit(i) PROVE  TypeOK'
    BY <1>19, Stored DEF Commit, NoTxn, TypeOK
  <1>20. ASSUME NEW i \in Instances, Fenced(i) PROVE  TypeOK'
    BY <1>20, Stored DEF Fenced, NoTxn, Loses, TypeOK
  <1>21. ASSUME NEW i \in Instances, Abort(i) PROVE  TypeOK'
    BY <1>21, Stored DEF Abort, NoTxn, TypeOK
  <1>22. CASE Tick
    <2>1. \A k \in Instances : row[k] \in OwnerRow /\ deadline[k] \in Time
                                /\ renewal[k] \in Call /\ health[k] \in Call /\ txn[k] \in Txn
      BY DEF TypeOK
    <2>2. row' \in [Instances -> OwnerRow]
      BY <1>22, <2>1, Stored DEF Tick, OwnerRow
    <2>3. deadline' \in [Instances -> Time]
      BY <1>22, <2>1, Stored DEF Tick
    <2>4. renewal' \in [Instances -> Call]
      BY <1>22, <2>1, Stored DEF Tick, Call
    <2>5. health' \in [Instances -> Call]
      BY <1>22, <2>1, Stored DEF Tick, Call
    <2>6. txn' \in [Instances -> Txn]
      BY <1>22, <2>1, Stored DEF Tick, Txn
    <2> QED BY <1>22, <2>2, <2>3, <2>4, <2>5, <2>6 DEF Tick, TypeOK
  <1>23. CASE UNCHANGED vars
    BY <1>23 DEF vars, TypeOK
  <1> QED BY <1>1, <1>2, <1>3, <1>4, <1>5, <1>6, <1>7, <1>8, <1>9, <1>10, <1>11, <1>12,
     <1>13, <1>14, <1>15, <1>16, <1>17, <1>18, <1>19, <1>20, <1>21, <1>22, <1>23 DEF
     Next, Owner, Confirmation, Lifecycle

\* One instance at a time: what its fields are, what marking and a tick do.
LEMMA Fields ==
    ASSUME TypeOK, NEW i \in Instances
    PROVE  /\ row[i].left \in Nat /\ row[i].left <= Lease
           /\ deadline[i] \in Nat /\ deadline[i] <= Lease
           /\ renewal[i].until \in Nat /\ renewal[i].until <= Lease
           /\ health[i].until \in Nat /\ health[i].until <= Lease
           /\ txn[i].left \in Nat /\ txn[i].left <= Budget
  BY LeaseAssumption DEF TypeOK, OwnerRow, Call, Txn, Time

\* What marking expired owners lost does to one row.
LEMMA MarkedLostAt ==
    ASSUME TypeOK, NEW i \in Instances
    PROVE  /\ MarkedLost[i].left = row[i].left
           /\ i \in Expired => MarkedLost[i].state = "lost"
           /\ i \notin Expired => MarkedLost[i].state = row[i].state
  BY DEF MarkedLost, TypeOK, OwnerRow

\* What a tick does to one row and one deadline.
LEMMA TickAt ==
    ASSUME TypeOK, Tick, NEW i \in Instances
    PROVE  /\ row'[i].state = row[i].state /\ row'[i].left = Down(row[i].left)
           /\ deadline'[i] = Down(deadline[i])
           /\ renewal'[i].stage = renewal[i].stage /\ renewal'[i].until = Down(renewal[i].until)
           /\ health'[i].stage = health[i].stage
           /\ health[i].stage = "answered" => health'[i].until = Down(health[i].until)
           /\ txn'[i].stage = txn[i].stage /\ txn'[i].left = Down(txn[i].left)
           /\ process'[i] = process[i]
           /\ txn[i].stage # "idle" => txn[i].left > 0
  BY DEF Tick, TypeOK, OwnerRow, Call, Txn

\* An instance that has not registered yet is unknown everywhere.
LEMMA FreshStep ==
    ASSUME TypeOK, FreshIsUnused, [Next]_vars
    PROVE  FreshIsUnused'
  <1>1. ASSUME NEW i \in Instances, InsertOwner(i) PROVE  FreshIsUnused'
    BY <1>1, MarkedLostAt, MarkedLostType DEF InsertOwner, Expired, TypeOK, FreshIsUnused
  <1>2. ASSUME NEW i \in Instances, MarkExpired(i) PROVE  FreshIsUnused'
    BY <1>2, Fields, MarkedLostAt DEF MarkExpired, Expired, TypeOK, OwnerRow, FreshIsUnused
  <1>3. ASSUME NEW i \in Instances, Close(i) PROVE  FreshIsUnused'
    BY <1>3, Fields DEF Close, TypeOK, OwnerRow, Call, Txn, FreshIsUnused
  <1>4. ASSUME NEW i \in Instances, StopIdentity(i) PROVE  FreshIsUnused'
    BY <1>4, Fields DEF StopIdentity, Shared, TypeOK, OwnerRow, Call, Txn, FreshIsUnused
  <1>5. ASSUME NEW i \in Instances, Crash(i) PROVE  FreshIsUnused'
    BY <1>5, Fields DEF Crash, NoCall, TypeOK, OwnerRow, Call, Txn, FreshIsUnused
  <1>6. ASSUME NEW i \in Instances, SendRenewal(i) PROVE  FreshIsUnused'
    BY <1>6, Fields DEF SendRenewal, Asking, TypeOK, OwnerRow, Call, Txn, FreshIsUnused
  <1>7. ASSUME NEW i \in Instances, Renew(i) PROVE  FreshIsUnused'
    BY <1>7, Fields DEF Renew, Current, Shared, TypeOK, OwnerRow, Call, Txn, FreshIsUnused
  <1>8. ASSUME NEW i \in Instances, RenewalFenced(i) PROVE  FreshIsUnused'
    BY <1>8, Fields DEF RenewalFenced, NoCall, Loses, TypeOK, OwnerRow, Call, Txn,
       FreshIsUnused
  <1>9. ASSUME NEW i \in Instances, RenewalReply(i) PROVE  FreshIsUnused'
    BY <1>9, Fields DEF RenewalReply, NoCall, Alive, TypeOK, OwnerRow, Call, Txn,
       FreshIsUnused
  <1>10. ASSUME NEW i \in Instances, RenewalFails(i) PROVE  FreshIsUnused'
    BY <1>10, Fields DEF RenewalFails, NoCall, Loses, TypeOK, OwnerRow, Call, Txn,
       FreshIsUnused
  <1>11. ASSUME NEW i \in Instances, AskHealth(i) PROVE  FreshIsUnused'
    BY <1>11, Fields DEF AskHealth, Alive, TypeOK, FreshIsUnused
  <1>12. ASSUME NEW i \in Instances, ReadHealth(i) PROVE  FreshIsUnused'
    BY <1>12, Fields DEF ReadHealth, HealthAnswer, Current, TypeOK, OwnerRow, Call,
       Txn, FreshIsUnused
  <1>13. ASSUME NEW i \in Instances, HealthFenced(i) PROVE  FreshIsUnused'
    BY <1>13, Fields DEF HealthFenced, NoCall, Loses, TypeOK, OwnerRow, Call, Txn,
       FreshIsUnused
  <1>14. ASSUME NEW i \in Instances, HealthReply(i) PROVE  FreshIsUnused'
    BY <1>14, Fields DEF HealthReply, NoCall, TypeOK, OwnerRow, Call, Txn, FreshIsUnused
  <1>15. ASSUME NEW i \in Instances, NoticeExpiry(i) PROVE  FreshIsUnused'
    BY <1>15, Fields DEF NoticeExpiry, Loses, TypeOK, OwnerRow, Call, Txn, FreshIsUnused
  <1>16. ASSUME NEW i \in Instances, Begin(i) PROVE  FreshIsUnused'
    BY <1>16 DEF Begin, FreshIsUnused
  <1>17. ASSUME NEW i \in Instances, LockOwner(i) PROVE  FreshIsUnused'
    BY <1>17 DEF LockOwner, Current, FreshIsUnused
  <1>18. ASSUME NEW i \in Instances, Recheck(i) PROVE  FreshIsUnused'
    BY <1>18 DEF Recheck, FreshIsUnused
  <1>19. ASSUME NEW i \in Instances, Commit(i) PROVE  FreshIsUnused'
    BY <1>19 DEF Commit, FreshIsUnused
  <1>20. ASSUME NEW i \in Instances, Fenced(i) PROVE  FreshIsUnused'
    BY <1>20, Fields DEF Fenced, Loses, TypeOK, FreshIsUnused
  <1>21. ASSUME NEW i \in Instances, Abort(i) PROVE  FreshIsUnused'
    BY <1>21 DEF Abort, FreshIsUnused
  <1>22. CASE Tick
    BY <1>22, Fields, TickAt DEF Down, FreshIsUnused
  <1>23. CASE UNCHANGED vars
    BY <1>23 DEF vars, FreshIsUnused
  <1> QED BY <1>1, <1>2, <1>3, <1>4, <1>5, <1>6, <1>7, <1>8, <1>9, <1>10, <1>11, <1>12,
     <1>13, <1>14, <1>15, <1>16, <1>17, <1>18, <1>19, <1>20, <1>21, <1>22, <1>23 DEF
     Next, Owner, Confirmation, Lifecycle

\* Each step leaves every deadline within the lease of its row.
LEMMA WithinStep ==
    ASSUME TypeOK, FreshIsUnused, DeadlineWithinLease, [Next]_vars
    PROVE  DeadlineWithinLease'
  <1>1. ASSUME NEW i \in Instances, InsertOwner(i) PROVE  DeadlineWithinLease'
    BY <1>1, Fields, MarkedLostAt DEF InsertOwner, Expired, TypeOK, OwnerRow,
       DeadlineWithinLease
  <1>2. ASSUME NEW i \in Instances, MarkExpired(i) PROVE  DeadlineWithinLease'
    BY <1>2, Fields, MarkedLostAt DEF MarkExpired, Expired, TypeOK, OwnerRow,
       DeadlineWithinLease
  <1>3. ASSUME NEW i \in Instances, Close(i) PROVE  DeadlineWithinLease'
    BY <1>3, Fields DEF Close, TypeOK, OwnerRow, Call, Txn, DeadlineWithinLease
  <1>4. ASSUME NEW i \in Instances, StopIdentity(i) PROVE  DeadlineWithinLease'
    BY <1>4, Fields DEF StopIdentity, Shared, TypeOK, OwnerRow, Call, Txn,
       DeadlineWithinLease
  <1>5. ASSUME NEW i \in Instances, Crash(i) PROVE  DeadlineWithinLease'
    BY <1>5, Fields DEF Crash, NoCall, TypeOK, OwnerRow, Call, Txn, DeadlineWithinLease
  <1>6. ASSUME NEW i \in Instances, SendRenewal(i) PROVE  DeadlineWithinLease'
    BY <1>6, Fields DEF SendRenewal, Asking, TypeOK, OwnerRow, Call, Txn,
       DeadlineWithinLease
  <1>7. ASSUME NEW i \in Instances, Renew(i) PROVE  DeadlineWithinLease'
    BY <1>7, Fields DEF Renew, Current, Shared, TypeOK, OwnerRow, Call, Txn,
       DeadlineWithinLease
  <1>8. ASSUME NEW i \in Instances, RenewalFenced(i) PROVE  DeadlineWithinLease'
    BY <1>8, Fields DEF RenewalFenced, NoCall, Loses, TypeOK, OwnerRow, Call, Txn,
       DeadlineWithinLease
  <1>9. ASSUME NEW i \in Instances, RenewalReply(i) PROVE  DeadlineWithinLease'
    BY <1>9, Fields DEF RenewalReply, NoCall, Alive, TypeOK, OwnerRow, Call, Txn,
       DeadlineWithinLease
  <1>10. ASSUME NEW i \in Instances, RenewalFails(i) PROVE  DeadlineWithinLease'
    BY <1>10, Fields DEF RenewalFails, NoCall, Loses, TypeOK, OwnerRow, Call, Txn,
       DeadlineWithinLease
  <1>11. ASSUME NEW i \in Instances, AskHealth(i) PROVE  DeadlineWithinLease'
    BY <1>11, Fields DEF AskHealth, TypeOK, OwnerRow, Call, Txn, DeadlineWithinLease
  <1>12. ASSUME NEW i \in Instances, ReadHealth(i) PROVE  DeadlineWithinLease'
    BY <1>12, Fields DEF ReadHealth, HealthAnswer, Current, TypeOK, OwnerRow, Call,
       Txn, DeadlineWithinLease
  <1>13. ASSUME NEW i \in Instances, HealthFenced(i) PROVE  DeadlineWithinLease'
    BY <1>13, Fields DEF HealthFenced, NoCall, Loses, TypeOK, OwnerRow, Call, Txn,
       DeadlineWithinLease
  <1>14. ASSUME NEW i \in Instances, HealthReply(i) PROVE  DeadlineWithinLease'
    BY <1>14, Fields DEF HealthReply, NoCall, TypeOK, OwnerRow, Call, Txn,
       DeadlineWithinLease
  <1>15. ASSUME NEW i \in Instances, NoticeExpiry(i) PROVE  DeadlineWithinLease'
    BY <1>15, Fields DEF NoticeExpiry, Loses, TypeOK, OwnerRow, Call, Txn,
       DeadlineWithinLease
  <1>16. ASSUME NEW i \in Instances, Begin(i) PROVE  DeadlineWithinLease'
    BY <1>16 DEF Begin, DeadlineWithinLease
  <1>17. ASSUME NEW i \in Instances, LockOwner(i) PROVE  DeadlineWithinLease'
    BY <1>17 DEF LockOwner, Current, DeadlineWithinLease
  <1>18. ASSUME NEW i \in Instances, Recheck(i) PROVE  DeadlineWithinLease'
    BY <1>18 DEF Recheck, DeadlineWithinLease
  <1>19. ASSUME NEW i \in Instances, Commit(i) PROVE  DeadlineWithinLease'
    BY <1>19 DEF Commit, DeadlineWithinLease
  <1>20. ASSUME NEW i \in Instances, Fenced(i) PROVE  DeadlineWithinLease'
    BY <1>20, Fields DEF Fenced, Loses, TypeOK, DeadlineWithinLease
  <1>21. ASSUME NEW i \in Instances, Abort(i) PROVE  DeadlineWithinLease'
    BY <1>21 DEF Abort, DeadlineWithinLease
  <1>22. CASE Tick
    BY <1>22, Fields, TickAt DEF Down, DeadlineWithinLease
  <1>23. CASE UNCHANGED vars
    BY <1>23 DEF vars, DeadlineWithinLease
  <1> QED BY <1>1, <1>2, <1>3, <1>4, <1>5, <1>6, <1>7, <1>8, <1>9, <1>10, <1>11, <1>12,
     <1>13, <1>14, <1>15, <1>16, <1>17, <1>18, <1>19, <1>20, <1>21, <1>22, <1>23 DEF
     Next, Owner, Confirmation, Lifecycle

\* Each step leaves a running deadline only to an owner whose row is ready.
LEMMA OfOwnerStep ==
    ASSUME TypeOK, FreshIsUnused, DeadlineWithinLease, DeadlineOfOwner, [Next]_vars
    PROVE  DeadlineOfOwner'
  <1>1. ASSUME NEW i \in Instances, InsertOwner(i) PROVE  DeadlineOfOwner'
    BY <1>1, Fields, MarkedLostAt DEF InsertOwner, Expired, TypeOK, OwnerRow,
       DeadlineWithinLease, DeadlineOfOwner, FreshIsUnused, NothingLeft, Alive
  <1>2. ASSUME NEW i \in Instances, MarkExpired(i) PROVE  DeadlineOfOwner'
    BY <1>2, Fields, MarkedLostAt DEF MarkExpired, Expired, TypeOK, OwnerRow,
       DeadlineWithinLease, DeadlineOfOwner, FreshIsUnused, NothingLeft, Alive
  <1>3. ASSUME NEW i \in Instances, Close(i) PROVE  DeadlineOfOwner'
    BY <1>3, Fields DEF Close, TypeOK, OwnerRow, Call, Txn, DeadlineWithinLease,
       DeadlineOfOwner, FreshIsUnused, NothingLeft, Alive
  <1>4. ASSUME NEW i \in Instances, StopIdentity(i) PROVE  DeadlineOfOwner'
    BY <1>4, Fields DEF StopIdentity, Shared, TypeOK, OwnerRow, Call, Txn,
       DeadlineWithinLease, DeadlineOfOwner, FreshIsUnused, NothingLeft, Alive
  <1>5. ASSUME NEW i \in Instances, Crash(i) PROVE  DeadlineOfOwner'
    BY <1>5, Fields DEF Crash, NoCall, TypeOK, OwnerRow, Call, Txn,
       DeadlineWithinLease, DeadlineOfOwner, FreshIsUnused, NothingLeft, Alive
  <1>6. ASSUME NEW i \in Instances, SendRenewal(i) PROVE  DeadlineOfOwner'
    BY <1>6, Fields DEF SendRenewal, Asking, TypeOK, OwnerRow, Call, Txn,
       DeadlineWithinLease, DeadlineOfOwner, FreshIsUnused, NothingLeft, Alive
  <1>7. ASSUME NEW i \in Instances, Renew(i) PROVE  DeadlineOfOwner'
    BY <1>7, Fields DEF Renew, Current, Shared, TypeOK, OwnerRow, Call, Txn,
       DeadlineWithinLease, DeadlineOfOwner, FreshIsUnused, NothingLeft, Alive
  <1>8. ASSUME NEW i \in Instances, RenewalFenced(i) PROVE  DeadlineOfOwner'
    BY <1>8, Fields DEF RenewalFenced, NoCall, Loses, TypeOK, OwnerRow, Call, Txn,
       DeadlineWithinLease, DeadlineOfOwner, FreshIsUnused, NothingLeft, Alive
  <1>9. ASSUME NEW i \in Instances, RenewalReply(i) PROVE  DeadlineOfOwner'
    BY <1>9, Fields DEF RenewalReply, NoCall, Alive, TypeOK, OwnerRow, Call, Txn,
       DeadlineWithinLease, DeadlineOfOwner, FreshIsUnused, NothingLeft
  <1>10. ASSUME NEW i \in Instances, RenewalFails(i) PROVE  DeadlineOfOwner'
    BY <1>10, Fields DEF RenewalFails, NoCall, Loses, TypeOK, OwnerRow, Call, Txn,
       DeadlineWithinLease, DeadlineOfOwner, FreshIsUnused, NothingLeft, Alive
  <1>11. ASSUME NEW i \in Instances, AskHealth(i) PROVE  DeadlineOfOwner'
    BY <1>11, Fields DEF AskHealth, TypeOK, OwnerRow, Call, Txn, DeadlineWithinLease,
       DeadlineOfOwner, FreshIsUnused, NothingLeft, Alive
  <1>12. ASSUME NEW i \in Instances, ReadHealth(i) PROVE  DeadlineOfOwner'
    BY <1>12, Fields DEF ReadHealth, HealthAnswer, Current, TypeOK, OwnerRow, Call,
       Txn, DeadlineWithinLease, DeadlineOfOwner, FreshIsUnused, NothingLeft, Alive
  <1>13. ASSUME NEW i \in Instances, HealthFenced(i) PROVE  DeadlineOfOwner'
    BY <1>13, Fields DEF HealthFenced, NoCall, Loses, TypeOK, OwnerRow, Call, Txn,
       DeadlineWithinLease, DeadlineOfOwner, FreshIsUnused, NothingLeft, Alive
  <1>14. ASSUME NEW i \in Instances, HealthReply(i) PROVE  DeadlineOfOwner'
    BY <1>14, Fields DEF HealthReply, NoCall, TypeOK, OwnerRow, Call, Txn,
       DeadlineWithinLease, DeadlineOfOwner, FreshIsUnused, NothingLeft, Alive
  <1>15. ASSUME NEW i \in Instances, NoticeExpiry(i) PROVE  DeadlineOfOwner'
    BY <1>15, Fields DEF NoticeExpiry, Loses, TypeOK, OwnerRow, Call, Txn,
       DeadlineWithinLease, DeadlineOfOwner, FreshIsUnused, NothingLeft, Alive
  <1>16. ASSUME NEW i \in Instances, Begin(i) PROVE  DeadlineOfOwner'
    BY <1>16 DEF Begin, DeadlineWithinLease, DeadlineOfOwner, FreshIsUnused,
       NothingLeft, Alive
  <1>17. ASSUME NEW i \in Instances, LockOwner(i) PROVE  DeadlineOfOwner'
    BY <1>17 DEF LockOwner, Current, DeadlineWithinLease, DeadlineOfOwner,
       FreshIsUnused, NothingLeft, Alive
  <1>18. ASSUME NEW i \in Instances, Recheck(i) PROVE  DeadlineOfOwner'
    BY <1>18 DEF Recheck, DeadlineWithinLease, DeadlineOfOwner, FreshIsUnused,
       NothingLeft, Alive
  <1>19. ASSUME NEW i \in Instances, Commit(i) PROVE  DeadlineOfOwner'
    BY <1>19 DEF Commit, DeadlineWithinLease, DeadlineOfOwner, FreshIsUnused,
       NothingLeft, Alive
  <1>20. ASSUME NEW i \in Instances, Fenced(i) PROVE  DeadlineOfOwner'
    BY <1>20, Fields DEF Fenced, Loses, TypeOK, DeadlineWithinLease, DeadlineOfOwner,
       FreshIsUnused, NothingLeft, Alive
  <1>21. ASSUME NEW i \in Instances, Abort(i) PROVE  DeadlineOfOwner'
    BY <1>21 DEF Abort, DeadlineWithinLease, DeadlineOfOwner, FreshIsUnused,
       NothingLeft, Alive
  <1>22. CASE Tick
    BY <1>22, Fields, TickAt DEF Down, DeadlineWithinLease, DeadlineOfOwner,
       FreshIsUnused, NothingLeft, Alive
  <1>23. CASE UNCHANGED vars
    BY <1>23 DEF vars, DeadlineWithinLease, DeadlineOfOwner, FreshIsUnused,
       NothingLeft, Alive
  <1> QED BY <1>1, <1>2, <1>3, <1>4, <1>5, <1>6, <1>7, <1>8, <1>9, <1>10, <1>11, <1>12,
     <1>13, <1>14, <1>15, <1>16, <1>17, <1>18, <1>19, <1>20, <1>21, <1>22, <1>23 DEF
     Next, Owner, Confirmation, Lifecycle

\* A row is inserted only when the URL has no ready row, and none becomes ready later.
LEMMA ReadyStep ==
    ASSUME TypeOK, OneReadyRow, [Next]_vars
    PROVE  OneReadyRow'
  <1>1. ASSUME NEW i \in Instances, InsertOwner(i) PROVE  OneReadyRow'
    BY <1>1, MarkedLostAt, MarkedLostType DEF InsertOwner, OneReadyRow
  <1>2. ASSUME NEW i \in Instances, MarkExpired(i) PROVE  OneReadyRow'
    BY <1>2, Fields, MarkedLostAt DEF MarkExpired, Expired, TypeOK, OwnerRow, OneReadyRow
  <1>3. ASSUME NEW i \in Instances, Close(i) PROVE  OneReadyRow'
    BY <1>3, Fields DEF Close, TypeOK, OwnerRow, Call, Txn, OneReadyRow
  <1>4. ASSUME NEW i \in Instances, StopIdentity(i) PROVE  OneReadyRow'
    BY <1>4, Fields DEF StopIdentity, Shared, TypeOK, OwnerRow, Call, Txn, OneReadyRow
  <1>5. ASSUME NEW i \in Instances, Crash(i) PROVE  OneReadyRow'
    BY <1>5, Fields DEF Crash, NoCall, TypeOK, OwnerRow, Call, Txn, OneReadyRow
  <1>6. ASSUME NEW i \in Instances, SendRenewal(i) PROVE  OneReadyRow'
    BY <1>6, Fields DEF SendRenewal, Asking, TypeOK, OwnerRow, Call, Txn, OneReadyRow
  <1>7. ASSUME NEW i \in Instances, Renew(i) PROVE  OneReadyRow'
    BY <1>7, Fields DEF Renew, Current, Shared, TypeOK, OwnerRow, Call, Txn, OneReadyRow
  <1>8. ASSUME NEW i \in Instances, RenewalFenced(i) PROVE  OneReadyRow'
    BY <1>8, Fields DEF RenewalFenced, NoCall, Loses, TypeOK, OwnerRow, Call, Txn,
       OneReadyRow
  <1>9. ASSUME NEW i \in Instances, RenewalReply(i) PROVE  OneReadyRow'
    BY <1>9, Fields DEF RenewalReply, NoCall, Alive, TypeOK, OwnerRow, Call, Txn,
       OneReadyRow
  <1>10. ASSUME NEW i \in Instances, RenewalFails(i) PROVE  OneReadyRow'
    BY <1>10, Fields DEF RenewalFails, NoCall, Loses, TypeOK, OwnerRow, Call, Txn,
       OneReadyRow
  <1>11. ASSUME NEW i \in Instances, AskHealth(i) PROVE  OneReadyRow'
    BY <1>11, Fields DEF AskHealth, TypeOK, OwnerRow, Call, Txn, OneReadyRow
  <1>12. ASSUME NEW i \in Instances, ReadHealth(i) PROVE  OneReadyRow'
    BY <1>12, Fields DEF ReadHealth, HealthAnswer, Current, TypeOK, OwnerRow, Call,
       Txn, OneReadyRow
  <1>13. ASSUME NEW i \in Instances, HealthFenced(i) PROVE  OneReadyRow'
    BY <1>13, Fields DEF HealthFenced, NoCall, Loses, TypeOK, OwnerRow, Call, Txn,
       OneReadyRow
  <1>14. ASSUME NEW i \in Instances, HealthReply(i) PROVE  OneReadyRow'
    BY <1>14, Fields DEF HealthReply, NoCall, TypeOK, OwnerRow, Call, Txn, OneReadyRow
  <1>15. ASSUME NEW i \in Instances, NoticeExpiry(i) PROVE  OneReadyRow'
    BY <1>15, Fields DEF NoticeExpiry, Loses, TypeOK, OwnerRow, Call, Txn, OneReadyRow
  <1>16. ASSUME NEW i \in Instances, Begin(i) PROVE  OneReadyRow'
    BY <1>16 DEF Begin, OneReadyRow
  <1>17. ASSUME NEW i \in Instances, LockOwner(i) PROVE  OneReadyRow'
    BY <1>17 DEF LockOwner, Current, OneReadyRow
  <1>18. ASSUME NEW i \in Instances, Recheck(i) PROVE  OneReadyRow'
    BY <1>18 DEF Recheck, OneReadyRow
  <1>19. ASSUME NEW i \in Instances, Commit(i) PROVE  OneReadyRow'
    BY <1>19 DEF Commit, OneReadyRow
  <1>20. ASSUME NEW i \in Instances, Fenced(i) PROVE  OneReadyRow'
    BY <1>20, Fields DEF Fenced, Loses, TypeOK, OneReadyRow
  <1>21. ASSUME NEW i \in Instances, Abort(i) PROVE  OneReadyRow'
    BY <1>21 DEF Abort, OneReadyRow
  <1>22. CASE Tick
    BY <1>22, Fields, TickAt DEF Down, OneReadyRow
  <1>23. CASE UNCHANGED vars
    BY <1>23 DEF vars, OneReadyRow
  <1> QED BY <1>1, <1>2, <1>3, <1>4, <1>5, <1>6, <1>7, <1>8, <1>9, <1>10, <1>11, <1>12,
     <1>13, <1>14, <1>15, <1>16, <1>17, <1>18, <1>19, <1>20, <1>21, <1>22, <1>23 DEF
     Next, Owner, Confirmation, Lifecycle

\* A transaction holds its owner's row: only the clock touches the lease it locked.
LEMMA LockedStep ==
    ASSUME TypeOK, FreshIsUnused, LockedInLease, [Next]_vars
    PROVE  LockedInLease'
  <1>1. ASSUME NEW i \in Instances, InsertOwner(i) PROVE  LockedInLease'
    BY <1>1, Fields, MarkedLostAt, MarkedLostType DEF InsertOwner, Expired, Shared,
       LockedInLease, FreshIsUnused
  <1>2. ASSUME NEW i \in Instances, MarkExpired(i) PROVE  LockedInLease'
    BY <1>2, Fields, MarkedLostAt DEF MarkExpired, Expired, Shared, LockedInLease
  <1>3. ASSUME NEW i \in Instances, Close(i) PROVE  LockedInLease'
    BY <1>3, Fields DEF Close, TypeOK, OwnerRow, Call, Txn, LockedInLease, Shared,
       FreshIsUnused
  <1>4. ASSUME NEW i \in Instances, StopIdentity(i) PROVE  LockedInLease'
    BY <1>4, Fields DEF StopIdentity, Shared, TypeOK, OwnerRow, Call, Txn,
       LockedInLease, FreshIsUnused
  <1>5. ASSUME NEW i \in Instances, Crash(i) PROVE  LockedInLease'
    BY <1>5, Fields DEF Crash, NoCall, TypeOK, OwnerRow, Call, Txn, LockedInLease,
       Shared, FreshIsUnused
  <1>6. ASSUME NEW i \in Instances, SendRenewal(i) PROVE  LockedInLease'
    BY <1>6, Fields DEF SendRenewal, Asking, TypeOK, OwnerRow, Call, Txn,
       LockedInLease, Shared, FreshIsUnused
  <1>7. ASSUME NEW i \in Instances, Renew(i) PROVE  LockedInLease'
    BY <1>7, Fields DEF Renew, Current, Shared, TypeOK, OwnerRow, Call, Txn,
       LockedInLease, FreshIsUnused
  <1>8. ASSUME NEW i \in Instances, RenewalFenced(i) PROVE  LockedInLease'
    BY <1>8, Fields DEF RenewalFenced, NoCall, Loses, TypeOK, OwnerRow, Call, Txn,
       LockedInLease, Shared, FreshIsUnused
  <1>9. ASSUME NEW i \in Instances, RenewalReply(i) PROVE  LockedInLease'
    BY <1>9, Fields DEF RenewalReply, NoCall, Alive, TypeOK, OwnerRow, Call, Txn,
       LockedInLease, Shared, FreshIsUnused
  <1>10. ASSUME NEW i \in Instances, RenewalFails(i) PROVE  LockedInLease'
    BY <1>10, Fields DEF RenewalFails, NoCall, Loses, TypeOK, OwnerRow, Call, Txn,
       LockedInLease, Shared, FreshIsUnused
  <1>11. ASSUME NEW i \in Instances, AskHealth(i) PROVE  LockedInLease'
    BY <1>11, Fields DEF AskHealth, TypeOK, OwnerRow, Call, Txn, LockedInLease,
       Shared, FreshIsUnused
  <1>12. ASSUME NEW i \in Instances, ReadHealth(i) PROVE  LockedInLease'
    BY <1>12, Fields DEF ReadHealth, HealthAnswer, Current, TypeOK, OwnerRow, Call,
       Txn, LockedInLease, Shared, FreshIsUnused
  <1>13. ASSUME NEW i \in Instances, HealthFenced(i) PROVE  LockedInLease'
    BY <1>13, Fields DEF HealthFenced, NoCall, Loses, TypeOK, OwnerRow, Call, Txn,
       LockedInLease, Shared, FreshIsUnused
  <1>14. ASSUME NEW i \in Instances, HealthReply(i) PROVE  LockedInLease'
    BY <1>14, Fields DEF HealthReply, NoCall, TypeOK, OwnerRow, Call, Txn,
       LockedInLease, Shared, FreshIsUnused
  <1>15. ASSUME NEW i \in Instances, NoticeExpiry(i) PROVE  LockedInLease'
    BY <1>15, Fields DEF NoticeExpiry, Loses, TypeOK, OwnerRow, Call, Txn,
       LockedInLease, Shared, FreshIsUnused
  <1>16. ASSUME NEW i \in Instances, Begin(i) PROVE  LockedInLease'
    BY <1>16, Fields DEF Begin, TypeOK, OwnerRow, Call, Txn, LockedInLease, Shared,
       FreshIsUnused
  <1>17. ASSUME NEW i \in Instances, LockOwner(i) PROVE  LockedInLease'
    BY <1>17, Fields, LeaseAssumption DEF LockOwner, Current, RoomLeft, TypeOK,
       OwnerRow, Call, Txn, LockedInLease, Shared, FreshIsUnused
  <1>18. ASSUME NEW i \in Instances, Recheck(i) PROVE  LockedInLease'
    BY <1>18, Fields DEF Recheck, TypeOK, OwnerRow, Call, Txn, LockedInLease, Shared,
       FreshIsUnused
  <1>19. ASSUME NEW i \in Instances, Commit(i) PROVE  LockedInLease'
    BY <1>19, Fields DEF Commit, NoTxn, TypeOK, OwnerRow, Call, Txn, LockedInLease,
       Shared, FreshIsUnused
  <1>20. ASSUME NEW i \in Instances, Fenced(i) PROVE  LockedInLease'
    BY <1>20, Fields DEF Fenced, NoTxn, Loses, TypeOK, OwnerRow, Call, Txn,
       LockedInLease, Shared, FreshIsUnused
  <1>21. ASSUME NEW i \in Instances, Abort(i) PROVE  LockedInLease'
    BY <1>21, Fields DEF Abort, NoTxn, TypeOK, OwnerRow, Call, Txn, LockedInLease,
       Shared, FreshIsUnused
  <1>22. CASE Tick
    BY <1>22, Fields, TickAt DEF Down, LockedInLease, Shared, FreshIsUnused
  <1>23. CASE UNCHANGED vars
    BY <1>23 DEF vars, LockedInLease, Shared, FreshIsUnused
  <1> QED BY <1>1, <1>2, <1>3, <1>4, <1>5, <1>6, <1>7, <1>8, <1>9, <1>10, <1>11, <1>12,
     <1>13, <1>14, <1>15, <1>16, <1>17, <1>18, <1>19, <1>20, <1>21, <1>22, <1>23 DEF
     Next, Owner, Confirmation, Lifecycle

\* The invariant holds before any controller has registered.
LEMMA LeaseInvInit == Init => LeaseInv
  <1> SUFFICES ASSUME Init PROVE LeaseInv
    OBVIOUS
  <1>1. TypeOK
    BY Stored DEF Init, TypeOK, OwnerRow
  <1>2. FreshIsUnused /\ DeadlineWithinLease /\ DeadlineOfOwner /\ OneReadyRow /\ LockedInLease
    BY DEF Init, FreshIsUnused, DeadlineWithinLease, DeadlineOfOwner, NothingLeft, Alive,
       OneReadyRow, LockedInLease, Shared, NoCall, NoTxn
  <1> QED BY <1>1, <1>2 DEF LeaseInv

\* The six parts together are inductive.
LEMMA LeaseInvStep == LeaseInv /\ [Next]_vars => LeaseInv'
  BY TypeStep, FreshStep, WithinStep, OfOwnerStep, ReadyStep, LockedStep DEF LeaseInv

\* The invariant holds in every reachable state.
LEMMA LeaseInvHolds == Spec => []LeaseInv
  BY LeaseInvInit, LeaseInvStep, PTL DEF Spec

\* Every field of the lease tables and of the calls under way keeps its type.
THEOREM LeaseTypeCorrect == Spec => []TypeOK
  BY LeaseInvHolds, PTL DEF LeaseInv

\* #renew and checkHealth never promise a process more than its row has left.
THEOREM DeadlineWithinLeaseHolds == Spec => []DeadlineWithinLease
  BY LeaseInvHolds, PTL DEF LeaseInv

-----------------------------------------------------------------------------
(* One sure owner, and the commits of lifecycle transactions.                *)

\* Whoever is sure of its identity holds a ready, unexpired row.
LEMMA SureIsCurrent ==
    ASSUME LeaseInv, NEW i \in Instances, Sure(i)
    PROVE  Current(i)
  BY Fields DEF LeaseInv, Sure, Current, DeadlineWithinLease, DeadlineOfOwner, NothingLeft

\* assertLocalOwnership never lets two controllers of one URL pass.
THEOREM OneSureOwnerHolds == Spec => []OneSureOwner
  <1>1. LeaseInv => OneSureOwner
    BY SureIsCurrent DEF LeaseInv, OneSureOwner, OneReadyRow, Current
  <1> QED BY <1>1, LeaseInvHolds, PTL

\* #ownedTransaction commits only under a current row, however long it took.
THEOREM CommitUnderLeaseHolds == Spec => CommitUnderLease
  <1>1. LeaseInv => \A i \in Instances : Commit(i) => Current(i)
    BY Fields DEF LeaseInv, Commit, Current, LockedInLease, Shared
  <1>2. LeaseInv /\ [Next]_vars => [\A i \in Instances : Commit(i) => Current(i)]_vars
    BY <1>1
  <1> QED BY <1>2, LeaseInvHolds, PTL DEF Spec, CommitUnderLease

-----------------------------------------------------------------------------
(* ControllerLease implements OwnerLease.                                    *)

\* The lease of an instance in terms of its row.
LEMMA LeaseOfRow ==
    ASSUME TypeOK, NEW i \in Instances
    PROVE  /\ LeaseOf(i) = "none" <=> row[i].state = "none"
           /\ LeaseOf(i) = "held" <=> Current(i)
           /\ LeaseOf(i) = "over" <=> row[i].state = "ready" /\ row[i].left = 0
           /\ LeaseOf(i) = "marked" <=> row[i].state \in {"lost", "stopped"}
  <1>1. row[i].left \in Nat /\ row[i].state \in {"none", "ready", "lost", "stopped"}
    BY Fields DEF TypeOK, OwnerRow
  <1> QED BY <1>1 DEF LeaseOf, Current

\* What one step does to the row of an instance.
RowMoves(i) ==
    \/ row'[i] = row[i]
    \/ row[i].state = "none" /\ Current(i)'
    \/ Current(i) /\ row'[i].state \in {"ready", "stopped"}
    \/ row[i].state = "ready" /\ row[i].left = 0 /\ row'[i].state \in {"lost", "stopped"}
    \/ row'[i].state = row[i].state /\ (row'[i].left = 0 <=> row[i].left = 0)
    \/ row'[i].state = row[i].state /\ row[i].state # "ready"

\* One row moves as the abstract lease allows.
LEMMA RowStep ==
    ASSUME LeaseInv, [Next]_vars, NEW k \in Instances
    PROVE  RowMoves(k)
  <1> USE DEF LeaseInv
  <1>1. ASSUME NEW i \in Instances, InsertOwner(i) PROVE  RowMoves(k)
    <2>1. MarkedLost \in [Instances -> OwnerRow] /\ row[i].state = "none" /\ Lease > 0
      BY <1>1, MarkedLostType, LeaseAssumption DEF InsertOwner, FreshIsUnused
    <2>2. row'[i].state = "ready" /\ row'[i].left = Lease
      BY <1>1, <2>1 DEF InsertOwner
    <2>3. k # i => row'[k] = MarkedLost[k]
      BY <1>1, <2>1 DEF InsertOwner
    <2> QED BY <2>1, <2>2, <2>3, Fields DEF RowMoves, Current, MarkedLost, Expired,
       TypeOK, OwnerRow
  <1>2. ASSUME NEW i \in Instances, MarkExpired(i) PROVE  RowMoves(k)
    BY <1>2 DEF MarkExpired, MarkedLost, Expired, RowMoves, TypeOK, OwnerRow
  <1>3. ASSUME NEW i \in Instances, StopIdentity(i) PROVE  RowMoves(k)
    BY <1>3, Fields DEF StopIdentity, RowMoves, Current, TypeOK, OwnerRow
  <1>4. ASSUME NEW i \in Instances, Renew(i) PROVE  RowMoves(k)
    BY <1>4 DEF Renew, RowMoves, Current, TypeOK, OwnerRow
  <1>5. CASE Tick
    BY <1>5, TickAt, Fields DEF RowMoves, Current, Down
  <1>6. CASE UNCHANGED row
    BY <1>6 DEF RowMoves
  <1>7. \/ Tick \/ UNCHANGED row
        \/ \E i \in Instances : InsertOwner(i) \/ MarkExpired(i) \/ StopIdentity(i) \/ Renew(i)
    <2>1. ASSUME NEW i \in Instances, Owner(i)
          PROVE  InsertOwner(i) \/ MarkExpired(i) \/ StopIdentity(i) \/ UNCHANGED row
      BY <2>1 DEF Owner, Close, Crash
    <2>2. ASSUME NEW i \in Instances, Confirmation(i) PROVE  Renew(i) \/ UNCHANGED row
      BY <2>2 DEF Confirmation, SendRenewal, RenewalFenced, RenewalReply, RenewalFails,
         AskHealth, ReadHealth, HealthFenced, HealthReply, NoticeExpiry
    <2>3. ASSUME NEW i \in Instances, Lifecycle(i) PROVE  UNCHANGED row
      BY <2>3 DEF Lifecycle, Begin, LockOwner, Recheck, Commit, Fenced, Abort
    <2> QED BY <2>1, <2>2, <2>3 DEF Next, vars
  <1> QED BY <1>1, <1>2, <1>3, <1>4, <1>5, <1>6, <1>7

\* The same step in terms of the lease.
LEMMA LeaseMoves ==
    ASSUME TypeOK, TypeOK', NEW i \in Instances, RowMoves(i)
    PROVE  \/ LeaseOf(i)' = LeaseOf(i)
           \/ LeaseOf(i) = "none" /\ LeaseOf(i)' = "held"
           \/ LeaseOf(i) = "held" /\ LeaseOf(i)' \in {"over", "marked"}
           \/ LeaseOf(i) = "over" /\ LeaseOf(i)' = "marked"
  <1>1. /\ row[i].left \in Nat /\ row[i].state \in {"none", "ready", "lost", "stopped"}
        /\ row'[i].left \in Nat /\ row'[i].state \in {"none", "ready", "lost", "stopped"}
    BY LeaseAssumption DEF TypeOK, OwnerRow, Time
  <1> QED BY <1>1 DEF RowMoves, LeaseOf, Current

\* The row, the deadline and the fences of a controller are an owned lease:
\* what the controller builds on it may forget how it is kept.
THEOREM ImplementsOwnerLeaseHolds == Spec => ImplementsOwnerLease
  <1> DEFINE L == [i \in Instances |-> LeaseOf(i)]
             S == [i \in Instances |-> Sure(i)]
  <1>1. Init => Abstract!NoLease
    <2> SUFFICES ASSUME Init PROVE L = [i \in Instances |-> "none"] /\ S = [i \in Instances |-> FALSE]
      BY DEF Abstract!NoLease
    <2>1. \A i \in Instances : LeaseOf(i) = "none" /\ Sure(i) = FALSE
      BY DEF Init, LeaseOf, Sure, Alive
    <2> QED BY <2>1
  <1>2. LeaseInv /\ LeaseInv' /\ [Next]_vars => [Abstract!LeaseStep]_<<L, S>>
    <2> SUFFICES ASSUME LeaseInv, LeaseInv', [Next]_vars PROVE Abstract!LeaseStep
      OBVIOUS
    <2>1. Abstract!OwnerLeaseType'
      <3>1. \A i \in Instances : LeaseOf(i)' \in {"none", "held", "over", "marked"}
        BY DEF LeaseOf
      <3>2. \A i \in Instances : Sure(i)' \in BOOLEAN
        BY DEF Sure, Alive
      <3> QED BY <3>1, <3>2 DEF Abstract!OwnerLeaseType, Abstract!LeaseStates
    <2>2. ASSUME NEW i \in Instances
          PROVE  Abstract!Moves(i)
      BY RowStep, LeaseMoves DEF Abstract!Moves, LeaseInv
    <2>3. ASSUME NEW i \in Instances, Sure(i)'
          PROVE  LeaseOf(i)' = "held"
      <3>1. row'[i].left \in Nat /\ deadline'[i] \in Nat
        BY LeaseAssumption DEF LeaseInv, TypeOK, OwnerRow, Time
      <3> QED BY <2>3, <3>1 DEF LeaseInv, Sure, LeaseOf, DeadlineWithinLease,
         DeadlineOfOwner,
                   NothingLeft
    <2>4. ASSUME NEW i \in Instances, NEW k \in Instances, UrlOf[i] = UrlOf[k],
                 Abstract!Ready(i)', Abstract!Ready(k)'
          PROVE  i = k
      <3>1. L'[i] = LeaseOf(i)' /\ L'[k] = LeaseOf(k)'
        OBVIOUS
      <3>2. row'[i].state = "ready" /\ row'[k].state = "ready"
        BY <2>4, <3>1 DEF Abstract!Ready, LeaseOf
      <3> QED BY <2>4, <3>2 DEF LeaseInv, OneReadyRow
    <2> QED BY <2>1, <2>2, <2>3, <2>4 DEF Abstract!LeaseStep
  <1> QED BY <1>1, <1>2, LeaseInvHolds, PTL DEF Spec, ImplementsOwnerLease,
     Abstract!LeaseSpec

=============================================================================
