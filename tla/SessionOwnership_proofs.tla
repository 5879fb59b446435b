----------------------- MODULE SessionOwnership_proofs -----------------------
(***************************************************************************)
(* Theorems of SessionOwnership for every value of its constants: its type *)
(* invariant, and WriterOrder with the inductive invariant it rests on;    *)
(* then how an execution and its Run end: a writer is closed by an         *)
(* accepted record of its own before it has a successor, and a Run ends    *)
(* once, as its terminal event says, behind all that its writers           *)
(* published, and never again; last the durable history, which is exactly  *)
(* the accepted commits in log order. The lemmas on the transactions of    *)
(* RunLedger come first: what each one does to the rows, whoever runs it.  *)
(***************************************************************************)
EXTENDS SessionOwnership, FiniteSetTheorems, WellFoundedInduction, TLAPS

-----------------------------------------------------------------------------
(* Transactions of PostgreSQL, one by one: each keeps the type invariant,   *)
(* and none reopens a writer or frees a lease whose writer is not closed.   *)

\* What a transaction that issues no lease may do to the lease rows.
LeasesKept(old, new) ==
    \A e \in Leases :
        /\ old[e].seal # 0 => new[e].seal # 0
        /\ old[e].released => new[e].released
        /\ new[e].released => old[e].released \/ new[e].seal # 0

-----------------------------------------------------------------------------
(* Helpers on rows.                                                          *)

\* Making Runs ready keeps their rows well formed.
LEMMA AdvanceType ==
    ASSUME NEW runs \in [Runs -> RunRow], NEW s
    PROVE  AdvanceLaneReadiness(runs, s) \in [Runs -> RunRow]
  <1>1. \A row \in RunRow : [row EXCEPT !.ready = TRUE] \in RunRow
    BY DEF RunRow
  <1>2. \A r \in Runs : [runs[r] EXCEPT !.ready = TRUE] \in RunRow
    BY <1>1
  <1> QED BY <1>2 DEF AdvanceLaneReadiness

\* Lane readiness is a truth value.
LEMMA ReadyType ==
    ASSUME NEW runs, NEW s, NEW r
    PROVE  LaneReady(runs, s, r) \in BOOLEAN
  BY DEF LaneReady

\* Replacing one Run row by a well-formed row keeps the table well formed.
LEMMA RowType ==
    ASSUME LedgerTypeOK, NEW r, NEW row, r \in Runs => row \in RunRow
    PROVE  [run EXCEPT ![r] = row] \in [Runs -> RunRow]
  BY DEF LedgerTypeOK

\* The marks that single transactions put on a Run row.
LEMMA MarkType ==
    ASSUME NEW row \in RunRow
    PROVE  /\ [row EXCEPT !.released = TRUE] \in RunRow
           /\ [row EXCEPT !.exited = TRUE] \in RunRow
           /\ [row EXCEPT !.state = "failed"] \in RunRow
  BY DEF RunRow, RunState

\* The marks that a Stop puts on a Run row.
LEMMA StopType ==
    ASSUME NEW row \in RunRow, NEW s \in RunState, NEW c \in ControlRequestState,
           NEW b \in BOOLEAN
    PROVE  /\ [row EXCEPT !.state = s, !.cancel = c] \in RunRow
           /\ [row EXCEPT !.state = s, !.ready = b, !.cancel = c] \in RunRow
           /\ [row EXCEPT !.state = s, !.ready = b] \in RunRow
           /\ [row EXCEPT !.cancel = c] \in RunRow
  BY DEF RunRow

\* The marks that a claim puts on the Run row and on the lease row.
LEMMA ClaimMarks ==
    ASSUME NEW row \in RunRow, NEW held \in LeaseRow, NEW s \in RunState,
           NEW e \in 0..MaxLease, NEW r \in 0..NumRuns
    PROVE  /\ [row EXCEPT !.state = s, !.ready = FALSE,
                          !.recovering = FALSE, !.lease = e] \in RunRow
           /\ [held EXCEPT !.run = r] \in LeaseRow
  <1>1. [row EXCEPT !.state = s, !.ready = FALSE,
                    !.recovering = FALSE, !.lease = e] \in RunRow
    BY DEF RunRow
  <1>2. [held EXCEPT !.run = r] \in LeaseRow
    BY DEF LeaseRow
  <1> QED BY <1>1, <1>2

\* The Run row that a recovery writes: detached and back in the mailbox.
LEMMA RequeueMarks ==
    ASSUME NEW row \in RunRow, NEW s \in RunState, NEW e \in 0..MaxLease,
           NEW c \in ControlRequestState \cup {"none"}
    PROVE  [row EXCEPT !.state = s, !.ready = FALSE,
                       !.lease = e, !.released = FALSE, !.exited = FALSE,
                       !.sealId = e, !.sealedAt = 0, !.first = 0,
                       !.cancel = c] \in RunRow
  BY DEF RunRow

\* The marks that closing a writer puts on its lease row.
LEMMA SealMarks ==
    ASSUME NEW held \in LeaseRow, NEW i \in Nat
    PROVE  /\ [held EXCEPT !.seal = i] \in LeaseRow
           /\ [held EXCEPT !.published = TRUE] \in LeaseRow
  BY DEF LeaseRow

\* An idle lease is only released behind a seal.
LEMMA ReleaseIdleKeeps ==
    ASSUME NEW leases \in [Leases -> LeaseRow], NEW runs, NEW e \in Leases
    PROVE  /\ ReleaseIdle(leases, runs, e) \in [Leases -> LeaseRow]
           /\ LeasesKept(leases, ReleaseIdle(leases, runs, e))
  <1>1. [leases[e] EXCEPT !.released = TRUE] \in LeaseRow
    BY DEF LeaseRow
  <1>2. CASE leases[e].seal # 0 /\ (\A r \in Runs : runs[r].lease = e => runs[r].released)
    <2>1. ReleaseIdle(leases, runs, e) = [leases EXCEPT ![e].released = TRUE]
      BY <1>2 DEF ReleaseIdle
    <2>2. [leases EXCEPT ![e].released = TRUE] \in [Leases -> LeaseRow]
      BY <1>1
    <2>3. LeasesKept(leases, [leases EXCEPT ![e].released = TRUE])
      BY <1>2 DEF LeasesKept, LeaseRow
    <2> QED BY <2>1, <2>2, <2>3
  <1>3. CASE ~(leases[e].seal # 0 /\ (\A r \in Runs : runs[r].lease = e => runs[r].released))
    <2>1. ReleaseIdle(leases, runs, e) = leases
      BY <1>3 DEF ReleaseIdle
    <2> QED BY <2>1 DEF LeasesKept
  <1> QED BY <1>2, <1>3

\* Marking a writer failed keeps its row well formed, its seal and its release.
LEMMA WriterFailedKeeps ==
    ASSUME NEW row \in LeaseRow, NEW recover \in BOOLEAN
    PROVE  /\ WriterFailed(row, recover) \in LeaseRow
           /\ WriterFailed(row, recover).seal = row.seal
           /\ WriterFailed(row, recover).released = row.released
  BY DEF WriterFailed, LeaseRow

\* Closing a writer keeps its row well formed and its release.
LEMMA ClosedKeeps ==
    ASSUME LedgerTypeOK, NEW e \in Leases, NEW i \in Nat \ {0}
    PROVE  /\ Closed(e, i) \in [Leases -> LeaseRow]
           /\ LeasesKept(lease, Closed(e, i))
  <1> DEFINE s == IF lease[e].seal = 0 THEN i ELSE lease[e].seal
  <1>1. lease \in [Leases -> LeaseRow] /\ lease[e] \in LeaseRow
    BY DEF LedgerTypeOK
  <1>2. lease[e].seal \in Nat
    BY <1>1 DEF LeaseRow
  <1>3. s \in Nat
    BY <1>2
  <1>4. Closed(e, i) = [lease EXCEPT ![e] = [lease[e] EXCEPT !.seal = s]]
    BY <1>1 DEF Closed, LeaseRow
  <1>5. [lease[e] EXCEPT !.seal = s] \in LeaseRow
    BY <1>1, <1>3, SealMarks
  <1>6. Closed(e, i) \in [Leases -> LeaseRow]
    BY <1>1, <1>4, <1>5
  <1>7. LeasesKept(lease, Closed(e, i))
    <2>1. \A d \in Leases : d # e => Closed(e, i)[d] = lease[d]
      BY <1>1, <1>4
    <2>2. Closed(e, i)[e].released = lease[e].released /\ Closed(e, i)[e].seal = s
      BY <1>1, <1>4 DEF LeaseRow
    <2> QED BY <2>1, <2>2, <1>2 DEF LeasesKept
  <1> QED BY <1>6, <1>7

\* Two steps that each keep the leases keep them together.
LEMMA KeptTwice ==
    ASSUME NEW a, NEW b, NEW c, LeasesKept(a, b), LeasesKept(b, c)
    PROVE  LeasesKept(a, c)
  BY DEF LeasesKept

\* The projected position is an offset.
LEMMA RecordedType ==
    ASSUME LedgerTypeOK, NEW i \in Nat \ {0}
    PROVE  Recorded(i) \in Nat \ {0}
  BY DEF Recorded, LedgerTypeOK

\* The common tail of every way an execution is given up.
LEMMA GiveUpKeeps ==
    ASSUME LedgerTypeOK, NEW e \in Leases, NEW row, NEW recover \in BOOLEAN,
           lease[e].run \in Runs => row \in RunRow,
           GiveUp(e, row, recover)
    PROVE  run' \in [Runs -> RunRow] /\ lease' \in [Leases -> LeaseRow] /\ LeasesKept(lease, lease')
  <1> DEFINE given == [SealRequested(row, e, recover) EXCEPT !.released = TRUE]
             runs == [run EXCEPT ![lease[e].run] = given]
             leases == IF row.sealId # 0 THEN lease
                       ELSE [lease EXCEPT ![e] = WriterFailed(@, recover)]
  <1>1. row \in RunRow => given \in RunRow
    <2> SUFFICES ASSUME row \in RunRow PROVE given \in RunRow
      OBVIOUS
    <2> DEFINE asked == [row EXCEPT !.sealId = e]
    <2>1. e \in 0..MaxLease
      BY LedgerAssumption DEF Leases
    <2>2. asked \in RunRow
      BY <2>1 DEF RunRow
    <2>3. \A b \in BOOLEAN : [asked EXCEPT !.recovering = b] \in RunRow
      <3> HIDE DEF asked
      <3> QED BY <2>2 DEF RunRow
    <2>4. row.recovering \in BOOLEAN
      BY DEF RunRow
    <2>5. (row.recovering \/ recover) \in BOOLEAN
      OBVIOUS
    <2>6. [row EXCEPT !.sealId = e, !.recovering = @ \/ recover]
            = [asked EXCEPT !.recovering = row.recovering \/ recover]
      BY Zenon
    <2>7. SealRequested(row, e, recover) \in RunRow
      BY <2>3, <2>5, <2>6 DEF SealRequested
    <2> QED BY <2>7, MarkType
  <1>2. runs \in [Runs -> RunRow]
    BY <1>1, RowType
  <1>3. leases \in [Leases -> LeaseRow] /\ LeasesKept(lease, leases)
    BY WriterFailedKeeps DEF LedgerTypeOK, LeasesKept
  <1>4. ReleaseIdle(leases, runs, e) \in [Leases -> LeaseRow]
    BY <1>3, ReleaseIdleKeeps
  <1>5. LeasesKept(lease, ReleaseIdle(leases, runs, e))
    BY <1>3, ReleaseIdleKeeps, KeptTwice
  <1>6. run' = runs /\ lease' = ReleaseIdle(leases, runs, e)
    BY DEF GiveUp
  <1> QED BY <1>2, <1>4, <1>5, <1>6

-----------------------------------------------------------------------------
(* Acceptance, claims and the reconcilers.                                   *)

\* Accepting input into the mailbox keeps the rows well formed.
LEMMA EnqueueType ==
    ASSUME LedgerTypeOK, NEW r \in Runs, Enqueue(r)
    PROVE  LedgerTypeOK'
  <1>1. \A b \in BOOLEAN : [run[r] EXCEPT !.state = "queued", !.ready = b] \in RunRow
    <2>1. run[r] \in RunRow /\ "queued" \in RunState
      BY DEF LedgerTypeOK, RunState
    <2>2. "completed" \in ControlRequestState
      BY DEF ControlRequestState
    <2> QED BY <2>1, <2>2, StopType
  <1>2. run' \in [Runs -> RunRow]
    BY <1>1, ReadyType, RowType DEF Enqueue
  <1> QED BY <1>2 DEF Enqueue, LedgerTypeOK

\* A change of one cancellation request.
LEMMA CancelType ==
    ASSUME LedgerTypeOK, NEW r \in Runs, NEW c \in ControlRequestState,
           run' = [run EXCEPT ![r].cancel = c],
           UNCHANGED <<session, lease, leaseEpoch, native, nextOffset>>
    PROVE  LedgerTypeOK'
  <1>1. [run[r] EXCEPT !.cancel = c] \in RunRow
    <2>1. run[r] \in RunRow /\ "queued" \in RunState
      BY DEF LedgerTypeOK, RunState
    <2> QED BY <2>1, StopType
  <1> QED BY <1>1 DEF LedgerTypeOK

\* Accepting a Stop keeps the rows well formed.
LEMMA AcceptCancelType ==
    ASSUME LedgerTypeOK, NEW r \in Runs, AcceptCancel(r)
    PROVE  LedgerTypeOK'
  BY CancelType DEF AcceptCancel, ControlRequestState

\* A Stop of unclaimed input keeps the rows well formed.
LEMMA CancelUnclaimedType ==
    ASSUME LedgerTypeOK, NEW r \in Runs, CancelUnclaimed(r)
    PROVE  LedgerTypeOK'
  <1> DEFINE row == [run[r] EXCEPT !.state = "cancelled", !.ready = FALSE,
                                   !.cancel = "completed"]
  <1>1. row \in RunRow
    <2>1. run[r] \in RunRow
      BY DEF LedgerTypeOK
    <2>2. "cancelled" \in RunState /\ "completed" \in ControlRequestState
      BY DEF RunState, ControlRequestState
    <2> QED BY <2>1, <2>2, StopType
  <1>2. [run EXCEPT ![r] = row] \in [Runs -> RunRow]
    BY <1>1, RowType
  <1>3. run' = AdvanceLaneReadiness([run EXCEPT ![r] = row], session)
    BY DEF CancelUnclaimed
  <1>4. run' \in [Runs -> RunRow]
    BY <1>2, <1>3, AdvanceType
  <1> QED BY <1>4 DEF CancelUnclaimed, LedgerTypeOK

\* A claim keeps the rows well formed.
LEMMA ClaimType ==
    ASSUME LedgerTypeOK, NEW r \in Runs, Claim(r)
    PROVE  LedgerTypeOK'
  <1> DEFINE e == leaseEpoch + 1
  <1>1. e \in Leases /\ e \in 0..MaxLease
    BY LedgerAssumption DEF Claim, Leases
  <1>2. [run[r] EXCEPT !.state = "running", !.ready = FALSE,
                       !.recovering = FALSE, !.lease = e] \in RunRow
    <2>1. run[r] \in RunRow /\ lease[e] \in LeaseRow /\ "running" \in RunState
      BY <1>1 DEF LedgerTypeOK, RunState
    <2>2. r \in 0..NumRuns
      BY LedgerAssumption DEF Runs
    <2> QED BY <1>1, <2>1, <2>2, ClaimMarks
  <1>3. run' \in [Runs -> RunRow]
    BY <1>2 DEF Claim, LedgerTypeOK
  <1>4. [lease[e] EXCEPT !.run = r] \in LeaseRow
    <2>1. run[r] \in RunRow /\ lease[e] \in LeaseRow /\ "running" \in RunState
      BY <1>1 DEF LedgerTypeOK, RunState
    <2>2. r \in 0..NumRuns
      BY LedgerAssumption DEF Runs
    <2> QED BY <1>1, <2>1, <2>2, ClaimMarks
  <1>5. lease' \in [Leases -> LeaseRow]
    BY <1>4 DEF Claim, LedgerTypeOK
  <1> QED BY <1>1, <1>3, <1>5 DEF Claim, LedgerTypeOK, SessionState

\* An expired lease keeps its seal and its release.
LEMMA ExpireType ==
    ASSUME LedgerTypeOK, NEW e \in Leases, Expire(e)
    PROVE  LedgerTypeOK' /\ LeasesKept(lease, lease')
  <1>1. [lease[e] EXCEPT !.expired = TRUE] \in LeaseRow
    BY DEF LedgerTypeOK, LeaseRow
  <1>2. lease' \in [Leases -> LeaseRow]
    BY <1>1 DEF Expire, LedgerTypeOK
  <1>3. LeasesKept(lease, lease')
    BY DEF Expire, LedgerTypeOK, LeaseRow, LeasesKept
  <1> QED BY <1>2, <1>3 DEF Expire, LedgerTypeOK

\* The request for a recovery keeps the leases.
LEMMA RequestRecoveryType ==
    ASSUME LedgerTypeOK, NEW e \in Leases, RequestRecovery(e)
    PROVE  LedgerTypeOK' /\ LeasesKept(lease, lease')
  <1>1. lease[e].run \in Runs => run[lease[e].run] \in RunRow
    BY DEF LedgerTypeOK
  <1>2. run' \in [Runs -> RunRow] /\ lease' \in [Leases -> LeaseRow] /\ LeasesKept(lease, lease')
    BY <1>1, GiveUpKeeps DEF RequestRecovery
  <1> QED BY <1>2 DEF RequestRecovery, LedgerTypeOK

\* A terminal decision keeps the leases.
LEMMA RecordFailureType ==
    ASSUME LedgerTypeOK, NEW e \in Leases, NEW quarantine, RecordFailure(e, quarantine)
    PROVE  LedgerTypeOK' /\ LeasesKept(lease, lease')
  <1> DEFINE row == [run[lease[e].run] EXCEPT !.state = "failed"]
  <1>1. lease[e].run \in Runs => row \in RunRow
    BY MarkType DEF LedgerTypeOK
  <1>2. GiveUp(e, row, FALSE)
    BY DEF RecordFailure
  <1>3. run' \in [Runs -> RunRow] /\ lease' \in [Leases -> LeaseRow] /\ LeasesKept(lease, lease')
    BY <1>1, <1>2, GiveUpKeeps
  <1>4. session' \in SessionState
    BY DEF RecordFailure, SessionState
  <1> QED BY <1>3, <1>4 DEF RecordFailure, LedgerTypeOK

\* The reconciler keeps the leases.
LEMMA ReconcileType ==
    ASSUME LedgerTypeOK, NEW e \in Leases, NEW requireExpired, Reconcile(e, requireExpired)
    PROVE  LedgerTypeOK' /\ LeasesKept(lease, lease')
  <1> DEFINE r == lease[e].run
  <1>1. CASE IsActiveRunState(run[r].state)
    <2>1. r \in Runs => run[r] \in RunRow
      BY DEF LedgerTypeOK
    <2>2. GiveUp(e, run[r], TRUE)
      BY <1>1 DEF Reconcile
    <2>3. run' \in [Runs -> RunRow] /\ lease' \in [Leases -> LeaseRow] /\ LeasesKept(lease, lease')
      BY <2>1, <2>2, GiveUpKeeps
    <2> QED BY <2>3 DEF Reconcile, LedgerTypeOK
  <1>2. CASE ~IsActiveRunState(run[r].state)
    <2>1. r \in Runs => [run[r] EXCEPT !.released = TRUE] \in RunRow
      BY MarkType DEF LedgerTypeOK
    <2>2. run' \in [Runs -> RunRow]
      BY <1>2, <2>1 DEF Reconcile, LedgerTypeOK
    <2>3. lease' = ReleaseIdle(lease, run', e)
      BY <1>2 DEF Reconcile
    <2>4. lease' \in [Leases -> LeaseRow] /\ LeasesKept(lease, lease')
      BY <2>3, ReleaseIdleKeeps DEF LedgerTypeOK
    <2> QED BY <2>2, <2>4 DEF Reconcile, LedgerTypeOK
  <1> QED BY <1>1, <1>2

\* A confirmed exit keeps the rows well formed.
LEMMA ConfirmAgentExitType ==
    ASSUME LedgerTypeOK, NEW e \in Leases, ConfirmAgentExit(e)
    PROVE  LedgerTypeOK'
  <1> DEFINE runs == [run EXCEPT ![lease[e].run].exited = TRUE]
             over == QuarantineOver(runs, session, lease[e].run)
             idle == IF over THEN "idle" ELSE session
  <1>1. lease[e].run \in Runs => [run[lease[e].run] EXCEPT !.exited = TRUE] \in RunRow
    BY MarkType DEF LedgerTypeOK
  <1>2. runs \in [Runs -> RunRow]
    BY <1>1 DEF LedgerTypeOK
  <1>3. AdvanceLaneReadiness(runs, idle) \in [Runs -> RunRow]
    BY <1>2, AdvanceType
  <1>4. run' \in [Runs -> RunRow]
    BY <1>2, <1>3 DEF ConfirmAgentExit
  <1>5. session' \in SessionState
    BY DEF ConfirmAgentExit, LedgerTypeOK, SessionState
  <1> QED BY <1>4, <1>5 DEF ConfirmAgentExit, LedgerTypeOK

-----------------------------------------------------------------------------
(* Cancellation.                                                             *)

\* Dispatching a Stop keeps the rows well formed.
LEMMA DispatchCancelType ==
    ASSUME LedgerTypeOK, NEW r \in Runs, DispatchCancel(r)
    PROVE  LedgerTypeOK'
  BY CancelType DEF DispatchCancel, ControlRequestState

\* Starting a Stop keeps the rows well formed.
LEMMA StartCancelType ==
    ASSUME LedgerTypeOK, NEW r \in Runs, StartCancel(r)
    PROVE  LedgerTypeOK'
  <1>1. [run[r] EXCEPT !.state = "cancel_requested", !.cancel = "acknowledged"] \in RunRow
    <2>1. run[r] \in RunRow
      BY DEF LedgerTypeOK
    <2>2. "cancel_requested" \in RunState /\ "acknowledged" \in ControlRequestState
      BY DEF RunState, ControlRequestState
    <2> QED BY <2>1, <2>2, StopType
  <1>2. run' \in [Runs -> RunRow]
    BY <1>1 DEF StartCancel, LedgerTypeOK
  <1> QED BY <1>2 DEF StartCancel, LedgerTypeOK, SessionState

\* A Stop that did not start keeps the rows well formed.
LEMMA CancelNotStartedType ==
    ASSUME LedgerTypeOK, NEW r \in Runs, NEW retry, CancelNotStarted(r, retry)
    PROVE  LedgerTypeOK'
  <1>1. (IF retry THEN "pending" ELSE "failed") \in ControlRequestState
    BY DEF ControlRequestState
  <1> QED BY <1>1, CancelType DEF CancelNotStarted

\* A started Stop that fails keeps the leases.
LEMMA FailStartedCancelType ==
    ASSUME LedgerTypeOK, NEW r \in Runs, FailStartedCancel(r)
    PROVE  LedgerTypeOK' /\ LeasesKept(lease, lease')
  <1> DEFINE e == run[r].lease
             row == [run[r] EXCEPT !.state = "failed", !.cancel = "failed"]
  <1>1. e \in Leases
    BY LedgerAssumption DEF FailStartedCancel, ActiveScope, LedgerTypeOK, Leases
  <1>2. row \in RunRow
    <2>1. run[r] \in RunRow
      BY DEF LedgerTypeOK
    <2>2. "failed" \in RunState /\ "failed" \in ControlRequestState
      BY DEF RunState, ControlRequestState
    <2> QED BY <2>1, <2>2, StopType
  <1>3. GiveUp(e, row, FALSE)
    BY DEF FailStartedCancel
  <1>4. run' \in [Runs -> RunRow] /\ lease' \in [Leases -> LeaseRow] /\ LeasesKept(lease, lease')
    BY <1>1, <1>2, <1>3, GiveUpKeeps
  <1> QED BY <1>4 DEF FailStartedCancel, LedgerTypeOK, SessionState

-----------------------------------------------------------------------------
(* The Session Projector.                                                    *)

\* A record that is only counted keeps the leases.
LEMMA RecordOnlyType ==
    ASSUME LedgerTypeOK, NEW i \in Nat \ {0}, RecordOnly(i)
    PROVE  LedgerTypeOK' /\ LeasesKept(lease, lease')
  BY RecordedType DEF RecordOnly, LedgerTypeOK, LeasesKept

\* A native commit keeps the leases.
LEMMA ApplyCommitType ==
    ASSUME LedgerTypeOK, NEW i \in Nat \ {0}, NEW e \in Leases, NEW seq, ApplyCommit(i, e, seq)
    PROVE  LedgerTypeOK' /\ LeasesKept(lease, lease')
  <1> DEFINE r == lease[e].run
  <1>1. r \in Runs => [run[r] EXCEPT !.first = IF @ = 0 THEN i ELSE @] \in RunRow
    <2>1. \A row \in RunRow : [row EXCEPT !.first = IF @ = 0 THEN i ELSE @] \in RunRow
      BY DEF RunRow
    <2> QED BY <2>1 DEF LedgerTypeOK
  <1>2. run' \in [Runs -> RunRow]
    BY <1>1 DEF ApplyCommit, LedgerTypeOK
  <1>3. native' \in Seq(Nat)
    BY DEF ApplyCommit, LedgerTypeOK
  <1>4. nextOffset' \in Nat \ {0}
    BY RecordedType DEF ApplyCommit
  <1> QED BY <1>2, <1>3, <1>4 DEF ApplyCommit, LedgerTypeOK, LeasesKept

\* An exit behind a terminal decision keeps the leases.
LEMMA FinishOverruledType ==
    ASSUME LedgerTypeOK, NEW i \in Nat \ {0}, NEW e \in Leases, FinishOverruled(i, e)
    PROVE  LedgerTypeOK' /\ LeasesKept(lease, lease')
  <1> DEFINE r == lease[e].run
  <1>1. r \in Runs => [run[r] EXCEPT !.exited = TRUE, !.released = TRUE] \in RunRow
    <2>1. \A row \in RunRow : [row EXCEPT !.exited = TRUE, !.released = TRUE] \in RunRow
      BY DEF RunRow
    <2> QED BY <2>1 DEF LedgerTypeOK
  <1>2. run' \in [Runs -> RunRow]
    BY <1>1 DEF FinishOverruled, LedgerTypeOK
  <1>3. nextOffset' \in Nat \ {0}
    BY RecordedType DEF FinishOverruled
  <1> QED BY <1>2, <1>3 DEF FinishOverruled, LedgerTypeOK, LeasesKept

\* What a settled Run keeps of the row it had.
LEMMA SettledRowType ==
    ASSUME NEW row \in RunRow, NEW i \in Nat \ {0}, NEW outcome \in Outcome
    PROVE  [row EXCEPT
                !.state = outcome, !.terminals = @ \cup {<<i, outcome>>},
                !.sealedAt = i, !.released = TRUE, !.exited = TRUE, !.recovering = FALSE,
                !.first = IF @ = 0 THEN i ELSE @,
                !.cancel = IF @ \in ActiveCancel THEN "completed" ELSE @] \in RunRow
  <1>1. row.terminals \cup {<<i, outcome>>} \in SUBSET (Nat \X Outcome)
    BY DEF RunRow
  <1>2. (IF row.first = 0 THEN i ELSE row.first) \in Nat
    BY DEF RunRow
  <1>3. (IF row.cancel \in ActiveCancel THEN "completed" ELSE row.cancel)
          \in ControlRequestState \cup {"none"}
    BY DEF RunRow, ControlRequestState
  <1>4. outcome \in RunState
    BY DEF Outcome, RunState
  <1> QED BY <1>1, <1>2, <1>3, <1>4 DEF RunRow

\* A settled work_finished closes the writer it releases.
LEMMA FinishSettlesType ==
    ASSUME LedgerTypeOK, NEW i \in Nat \ {0}, NEW e \in Leases, NEW outcome \in Outcome,
           FinishSettles(i, e, outcome)
    PROVE  LedgerTypeOK' /\ LeasesKept(lease, lease')
  <1> DEFINE r == lease[e].run
             row == [run[r] EXCEPT
                        !.state = outcome, !.terminals = @ \cup {<<i, outcome>>},
                        !.sealedAt = i, !.released = TRUE, !.exited = TRUE,
                        !.recovering = FALSE,
                        !.first = IF @ = 0 THEN i ELSE @,
                        !.cancel = IF @ \in ActiveCancel THEN "completed" ELSE @]
  <1>1. r \in Runs => row \in RunRow
    BY SettledRowType DEF LedgerTypeOK
  <1>2. [run EXCEPT ![r] = row] \in [Runs -> RunRow]
    BY <1>1, RowType
  <1>3. run' = AdvanceLaneReadiness([run EXCEPT ![r] = row], "idle")
    BY DEF FinishSettles
  <1>4. run' \in [Runs -> RunRow]
    BY <1>2, <1>3, AdvanceType
  <1>5. [lease[e] EXCEPT !.seal = i, !.released = TRUE] \in LeaseRow
    BY DEF LedgerTypeOK, LeaseRow
  <1>6. lease' \in [Leases -> LeaseRow]
    BY <1>5 DEF FinishSettles, LedgerTypeOK
  <1>7. LeasesKept(lease, lease')
    BY DEF FinishSettles, LedgerTypeOK, LeaseRow, LeasesKept
  <1>8. nextOffset' \in Nat \ {0} /\ session' \in SessionState
    BY RecordedType DEF FinishSettles, SessionState
  <1> QED BY <1>4, <1>6, <1>7, <1>8 DEF FinishSettles, LedgerTypeOK

\* Closing a writer and then releasing its idle lease.
LEMMA CloseAndReleaseKeeps ==
    ASSUME LedgerTypeOK, NEW i \in Nat \ {0}, NEW e \in Leases, NEW runs
    PROVE  /\ ReleaseIdle(Closed(e, i), runs, e) \in [Leases -> LeaseRow]
           /\ LeasesKept(lease, ReleaseIdle(Closed(e, i), runs, e))
  BY ClosedKeeps, ReleaseIdleKeeps, KeptTwice

\* A seal of a settled Run only closes its writer.
LEMMA SealSettledType ==
    ASSUME LedgerTypeOK, NEW i \in Nat \ {0}, NEW e \in Leases, SealSettled(i, e)
    PROVE  LedgerTypeOK' /\ LeasesKept(lease, lease')
  <1>1. lease' \in [Leases -> LeaseRow] /\ LeasesKept(lease, lease')
    <2>1. LeasesKept(lease, lease)
      BY DEF LeasesKept
    <2> QED BY <2>1, CloseAndReleaseKeeps DEF SealSettled, LedgerTypeOK
  <1>2. nextOffset' \in Nat \ {0}
    BY RecordedType DEF SealSettled
  <1> QED BY <1>1, <1>2 DEF SealSettled, LedgerTypeOK

\* A recovery seal releases the writer it closes.
LEMMA SealRecoversType ==
    ASSUME LedgerTypeOK, NEW i \in Nat \ {0}, NEW e \in Leases, SealRecovers(i, e)
    PROVE  LedgerTypeOK' /\ LeasesKept(lease, lease')
  <1> DEFINE r == lease[e].run
             gone == [run EXCEPT ![r].released = TRUE]
             row == [run[r] EXCEPT
                        !.state = "queued", !.ready = FALSE,
                        !.lease = 0, !.released = FALSE, !.exited = FALSE,
                        !.sealId = 0, !.sealedAt = 0, !.first = 0,
                        !.cancel = IF @ \in {"dispatched", "acknowledged"}
                                   THEN "pending" ELSE @]
  <1>1. r \in Runs => row \in RunRow
    <2> SUFFICES ASSUME r \in Runs PROVE row \in RunRow
      OBVIOUS
    <2>1. run[r] \in RunRow
      BY DEF LedgerTypeOK
    <2>2. (IF run[r].cancel \in {"dispatched", "acknowledged"} THEN "pending"
           ELSE run[r].cancel) \in ControlRequestState \cup {"none"}
      BY <2>1 DEF RunRow, ControlRequestState
    <2>3. 0 \in 0..MaxLease /\ "queued" \in RunState
      BY LedgerAssumption DEF RunState
    <2>4. row = [run[r] EXCEPT
                    !.state = "queued", !.ready = FALSE,
                    !.lease = 0, !.released = FALSE, !.exited = FALSE,
                    !.sealId = 0, !.sealedAt = 0, !.first = 0,
                    !.cancel = IF run[r].cancel \in {"dispatched", "acknowledged"}
                               THEN "pending" ELSE run[r].cancel]
      BY Zenon
    <2> QED BY <2>1, <2>2, <2>3, <2>4, RequeueMarks
  <1>2. [run EXCEPT ![r] = row] \in [Runs -> RunRow]
    BY <1>1, RowType
  <1>3. run' = AdvanceLaneReadiness([run EXCEPT ![r] = row], "idle")
    BY DEF SealRecovers
  <1>4. run' \in [Runs -> RunRow]
    BY <1>2, <1>3, AdvanceType
  <1>5. lease' = ReleaseIdle(Closed(e, i), gone, e)
    BY DEF SealRecovers
  <1>6. lease' \in [Leases -> LeaseRow] /\ LeasesKept(lease, lease')
    BY <1>5, CloseAndReleaseKeeps
  <1>7. nextOffset' \in Nat \ {0} /\ session' \in SessionState
    BY RecordedType DEF SealRecovers, SessionState
  <1> QED BY <1>4, <1>6, <1>7 DEF SealRecovers, LedgerTypeOK

\* A terminal seal releases the writer it closes.
LEMMA SealTerminatesType ==
    ASSUME LedgerTypeOK, NEW i \in Nat \ {0}, NEW e \in Leases, SealTerminates(i, e)
    PROVE  LedgerTypeOK' /\ LeasesKept(lease, lease')
  <1> DEFINE r == lease[e].run
             row == [run[r] EXCEPT
                        !.released = TRUE, !.sealedAt = i,
                        !.first = IF @ = 0 THEN i ELSE @,
                        !.terminals = @ \cup {<<i, "failed">>}]
             runs == [run EXCEPT ![r] = row]
             s == IF QuarantineOver(runs, session, r) THEN "idle" ELSE session
  <1>1. r \in Runs => row \in RunRow
    <2> SUFFICES ASSUME r \in Runs PROVE row \in RunRow
      OBVIOUS
    <2>1. run[r] \in RunRow
      BY DEF LedgerTypeOK
    <2>2. run[r].terminals \cup {<<i, "failed">>} \in SUBSET (Nat \X Outcome)
      BY <2>1 DEF RunRow, Outcome
    <2>3. (IF run[r].first = 0 THEN i ELSE run[r].first) \in Nat
      BY <2>1 DEF RunRow
    <2> QED BY <2>1, <2>2, <2>3 DEF RunRow
  <1>2. runs \in [Runs -> RunRow]
    BY <1>1, RowType
  <1>3. run' = AdvanceLaneReadiness(runs, s)
    BY DEF SealTerminates
  <1>4. run' \in [Runs -> RunRow]
    BY <1>2, <1>3, AdvanceType
  <1>5. lease' = ReleaseIdle(Closed(e, i), runs, e)
    BY DEF SealTerminates
  <1>6. lease' \in [Leases -> LeaseRow] /\ LeasesKept(lease, lease')
    BY <1>5, CloseAndReleaseKeeps
  <1>7. nextOffset' \in Nat \ {0} /\ session' \in SessionState
    BY RecordedType DEF SealTerminates, SessionState, LedgerTypeOK
  <1> QED BY <1>4, <1>6, <1>7 DEF SealTerminates, LedgerTypeOK

-----------------------------------------------------------------------------
(* The inductive invariant.                                                  *)

\* A lease is released only behind its closure, and every older one is released.
LeaseInv ==
    /\ \A e \in Leases : lease[e].released => lease[e].seal # 0
    /\ \A e \in 1..(leaseEpoch - 1) : lease[e].released

\* A client that was ever started writes for a lease that was issued.
ScopeInv ==
    /\ \A e \in Leases : IF e <= leaseEpoch THEN scope[e] = e ELSE phase[e] = "idle"
    /\ \A c \in Clients : phase[c] # "idle" => scope[c] \in 1..leaseEpoch

\* Producer epochs are handed out once, the newest one last.
EpochInv ==
    /\ \A c \in Clients :
          /\ epoch[c] <= producerEpoch
          /\ phase[c] \in {"initialized", "open", "sending"} => epoch[c] # 0
          /\ \A d \in Clients : epoch[c] = epoch[d] /\ epoch[c] # 0 => c = d

\* Nobody who may still reach the broker is behind a record of a later lease.
Overtaken(c) == \E i \in DOMAIN log : log[i].writer > scope[c]

FenceInv ==
    \A c \in Clients :
        phase[c] \in {"open", "sending"} /\ Overtaken(c) => ~Unfenced(c)

\* The transaction the broker holds is the newest producer's.
InflightInv ==
    \A t \in transaction :
        /\ phase[t.client] \in {"sending", "closed"}
        /\ epoch[t.client] # 0 /\ Unfenced(t.client)
        /\ t.fact.writer = scope[t.client]
        /\ ~Overtaken(t.client)

LogInv == \A i \in DOMAIN log : log[i].writer <= leaseEpoch

WriterInv ==
    /\ ScopeInv /\ EpochInv /\ FenceInv /\ InflightInv /\ LogInv
    /\ WriterOrder

OrderInv == LeaseInv /\ WriterInv

-----------------------------------------------------------------------------
(* What one step of a producer does to the writer part of the invariant.     *)

\* Steps that touch no producer, no scope and issue no lease.
LEMMA QuietKeepsWriterInv ==
    ASSUME WriterInv, UNCHANGED <<writers, scope, leaseEpoch>>
    PROVE  WriterInv'
  BY DEF WriterInv, ScopeInv, EpochInv, FenceInv, InflightInv, LogInv, WriterOrder,
         Overtaken, Unfenced, writers

\* Steps that leave the leases they find as closed and as released as they were.
LEMMA LeasesKeptKeepsLeaseInv ==
    ASSUME TypeOK, LeaseInv, LeasesKept(lease, lease'), UNCHANGED leaseEpoch
    PROVE  LeaseInv'
  <1>1. 1..(leaseEpoch - 1) \subseteq Leases
    BY LedgerAssumption DEF TypeOK, LedgerTypeOK, Leases
  <1> QED BY <1>1 DEF LeaseInv, LeasesKept

\* A client begins to open: it has a lease to write for, and had no epoch before.
LEMMA BeginKeepsWriterInv ==
    ASSUME TypeOK, WriterInv, NEW c \in Clients, BeginOpen(c), UNCHANGED leaseEpoch,
           scope'[c] \in 1..leaseEpoch,
           c \in Leases => c <= leaseEpoch /\ scope'[c] = c,
           \A d \in Clients \ {c} : scope'[d] = scope[d]
    PROVE  WriterInv'
  <1> USE DEF WriterInv
  <1>1. /\ phase[c] = "idle" /\ phase'[c] = "granted"
        /\ \A d \in Clients \ {c} : phase'[d] = phase[d]
        /\ UNCHANGED <<log, producerEpoch, transaction, epoch, sent>>
    BY DEF BeginOpen, TypeOK
  <1>2. ScopeInv'
    BY <1>1, OwnershipAssumption DEF ScopeInv
  <1>3. EpochInv'
    BY <1>1 DEF EpochInv
  <1>4. FenceInv'
    BY <1>1 DEF FenceInv, Overtaken, Unfenced
  <1>5. InflightInv'
    <2> SUFFICES ASSUME NEW t \in transaction
                 PROVE  /\ phase'[t.client] \in {"sending", "closed"}
                        /\ epoch[t.client] # 0 /\ epoch[t.client] = producerEpoch
                        /\ t.fact.writer = scope'[t.client]
                        /\ ~ \E i \in DOMAIN log : log[i].writer > scope'[t.client]
      BY <1>1 DEF InflightInv, Overtaken, Unfenced
    <2>1. t.client \in Clients /\ t.client # c
      BY <1>1 DEF InflightInv, TypeOK
    <2> QED BY <1>1, <2>1 DEF InflightInv, Overtaken, Unfenced
  <1>6. LogInv' /\ WriterOrder'
    BY <1>1 DEF LogInv, WriterOrder
  <1> QED BY <1>2, <1>3, <1>4, <1>5, <1>6

\* A client takes the producer over: everybody else is fenced by it.
LEMMA InitKeepsWriterInv ==
    ASSUME TypeOK, WriterInv, NEW c \in Clients, InitTransactions(c),
           UNCHANGED <<scope, leaseEpoch>>
    PROVE  WriterInv'
  <1> USE DEF WriterInv
  <1>1. /\ phase[c] = "granted" /\ phase'[c] = "initialized"
        /\ epoch'[c] = producerEpoch + 1 /\ producerEpoch' = producerEpoch + 1
        /\ \A d \in Clients \ {c} : phase'[d] = phase[d] /\ epoch'[d] = epoch[d]
        /\ transaction' = {} /\ log' = log
    BY DEF InitTransactions, TypeOK
  <1>2. \A d \in Clients : epoch[d] \in Nat /\ producerEpoch \in Nat
    BY DEF TypeOK
  <1>3. ScopeInv'
    BY <1>1, OwnershipAssumption DEF ScopeInv
  <1>4. EpochInv'
    BY <1>1, <1>2 DEF EpochInv
  <1>5. FenceInv'
    BY <1>1, <1>2 DEF FenceInv, Overtaken, Unfenced, EpochInv
  <1>6. InflightInv' /\ LogInv' /\ WriterOrder'
    BY <1>1 DEF InflightInv, LogInv, WriterOrder
  <1> QED BY <1>3, <1>4, <1>5, <1>6

\* A client finishes opening on a fresh grant: only the newest lease is unsealed,
\* so no record of a later lease can be in the log.
LEMMA FinishOpenKeepsWriterInv ==
    ASSUME TypeOK, OrderInv, NEW c \in Clients, FinishOpen(c), lease[scope[c]].seal = 0,
           UNCHANGED <<scope, leaseEpoch>>
    PROVE  WriterInv'
  <1> USE DEF OrderInv, WriterInv
  <1>1. /\ phase[c] = "initialized" /\ phase'[c] = "open"
        /\ \A d \in Clients \ {c} : phase'[d] = phase[d]
        /\ UNCHANGED <<log, producerEpoch, transaction, epoch, sent>>
    BY DEF FinishOpen, TypeOK
  <1>2. scope[c] = leaseEpoch
    <2>1. scope[c] \in 1..leaseEpoch /\ leaseEpoch \in 0..MaxLease
      BY <1>1 DEF ScopeInv, TypeOK, LedgerTypeOK
    <2>2. scope[c] \in Leases
      BY <2>1, LedgerAssumption DEF Leases
    <2>3. ~lease[scope[c]].released
      BY <2>2 DEF LeaseInv
    <2> QED BY <2>1, <2>3 DEF LeaseInv
  <1>3. ~Overtaken(c)
    <2>1. \A i \in DOMAIN log : log[i].writer \in Leases
      BY DEF TypeOK, Facts
    <2> QED BY <1>2, <2>1, LedgerAssumption DEF Overtaken, LogInv, TypeOK, LedgerTypeOK, Leases
  <1>4. ScopeInv'
    BY <1>1, OwnershipAssumption DEF ScopeInv
  <1>5. EpochInv'
    BY <1>1 DEF EpochInv
  <1>6. FenceInv'
    BY <1>1, <1>3 DEF FenceInv, Overtaken, Unfenced
  <1>7. InflightInv'
    <2>1. \A t \in transaction : t.client \in Clients /\ t.client # c
      BY <1>1 DEF InflightInv, TypeOK
    <2> QED BY <1>1, <2>1 DEF InflightInv, Overtaken, Unfenced
  <1>8. LogInv' /\ WriterOrder'
    BY <1>1 DEF LogInv, WriterOrder
  <1> QED BY <1>4, <1>5, <1>6, <1>7, <1>8

\* A client ends: closed, failed, in doubt or crashed.  What it left at the broker
\* may still be committed.
LEMMA CloseKeepsWriterInv ==
    ASSUME TypeOK, WriterInv, NEW c \in Clients, c \in Leases => c <= leaseEpoch,
           phase' = [phase EXCEPT ![c] = "closed"],
           UNCHANGED <<log, producerEpoch, transaction, epoch, scope, leaseEpoch>>,
           scope[c] \in 1..leaseEpoch
    PROVE  WriterInv'
  <1> USE DEF WriterInv
  <1>1. /\ phase'[c] = "closed"
        /\ \A d \in Clients \ {c} : phase'[d] = phase[d]
    BY DEF TypeOK
  <1>2. ScopeInv'
    BY <1>1, OwnershipAssumption DEF ScopeInv
  <1>3. EpochInv'
    BY <1>1 DEF EpochInv
  <1>4. FenceInv'
    BY <1>1 DEF FenceInv, Overtaken, Unfenced
  <1>5. InflightInv'
    BY <1>1 DEF InflightInv, Overtaken, Unfenced, TypeOK
  <1>6. LogInv' /\ WriterOrder'
    BY DEF LogInv, WriterOrder
  <1> QED BY <1>2, <1>3, <1>4, <1>5, <1>6

\* A record is handed to the broker only by the newest producer, which no record
\* of a later lease has overtaken.
LEMMA SubmitKeepsWriterInv ==
    ASSUME TypeOK, WriterInv, NEW c \in Clients, NEW fact, fact.writer = scope[c],
           Submit(c, fact), UNCHANGED <<scope, leaseEpoch>>
    PROVE  WriterInv'
  <1> USE DEF WriterInv
  <1>1. /\ phase[c] = "open" /\ phase'[c] = "sending"
        /\ \A d \in Clients \ {c} : phase'[d] = phase[d]
        /\ UNCHANGED <<log, producerEpoch, epoch>>
    BY DEF Submit, TypeOK
  <1>2. ScopeInv'
    BY <1>1, OwnershipAssumption DEF ScopeInv
  <1>3. EpochInv'
    BY <1>1 DEF EpochInv
  <1>4. FenceInv'
    BY <1>1 DEF FenceInv, Overtaken, Unfenced
  <1>5. InflightInv'
    <2>1. CASE Unfenced(c)
      <3>1. transaction' = {[client |-> c, fact |-> fact]}
        BY <2>1 DEF Submit
      <3>2. ~Overtaken(c) /\ epoch[c] # 0
        BY <1>1, <2>1 DEF FenceInv, EpochInv
      <3> QED BY <1>1, <2>1, <3>1, <3>2 DEF InflightInv, Overtaken, Unfenced
    <2>2. CASE ~Unfenced(c)
      <3>1. transaction' = transaction
        BY <2>2 DEF Submit
      <3>2. \A t \in transaction : t.client \in Clients /\ t.client # c
        BY <1>1 DEF InflightInv, TypeOK
      <3> QED BY <1>1, <3>1, <3>2 DEF InflightInv, Overtaken, Unfenced
    <2> QED BY <2>1, <2>2
  <1>6. LogInv' /\ WriterOrder'
    BY <1>1 DEF LogInv, WriterOrder
  <1> QED BY <1>2, <1>3, <1>4, <1>5, <1>6

\* The broker commits: the record belongs to the newest lease that has written.
LEMMA CommitKeepsWriterInv ==
    ASSUME TypeOK, WriterInv, NEW t \in transaction, NEW acknowledged, Commit(t, acknowledged),
           UNCHANGED <<scope, leaseEpoch>>
    PROVE  WriterInv'
  <1> USE DEF WriterInv
  <1> DEFINE c == t.client
  <1>1. c \in Clients /\ t.fact \in Facts
    BY DEF TypeOK
  <1>2. /\ log' = Append(log, t.fact) /\ transaction' = {}
        /\ UNCHANGED <<producerEpoch, epoch, sent>>
        /\ \A d \in Clients \ {c} : phase'[d] = phase[d]
        /\ phase'[c] = phase[c] \/ (phase[c] = "sending" /\ phase'[c] = "open")
    BY <1>1 DEF Commit, TypeOK
  <1>3. /\ epoch[c] # 0 /\ epoch[c] = producerEpoch
        /\ t.fact.writer = scope[c]
        /\ \A i \in DOMAIN log : log[i].writer <= scope[c]
    <2>1. \A i \in DOMAIN log : log[i].writer \in Int
      BY DEF TypeOK, Facts, Leases
    <2>2. scope[c] \in Int
      BY <1>1 DEF TypeOK
    <2> QED BY <2>1, <2>2 DEF InflightInv, Overtaken, Unfenced
  <1>4. phase[c] # "idle"
    BY DEF InflightInv
  <1>5. scope[c] \in 1..leaseEpoch
    BY <1>1, <1>4 DEF ScopeInv
  <1>6. /\ DOMAIN log' = 1..(Len(log) + 1) /\ DOMAIN log = 1..Len(log) /\ Len(log) \in Nat
        /\ log'[Len(log) + 1] = t.fact
        /\ \A i \in DOMAIN log : log'[i] = log[i]
    BY <1>1, <1>2 DEF TypeOK
  <1>7. ScopeInv'
    BY <1>1, <1>2, <1>4, OwnershipAssumption DEF ScopeInv
  <1>8. EpochInv'
    BY <1>1, <1>2, <1>3 DEF EpochInv
  <1>9. FenceInv'
    <2> SUFFICES ASSUME NEW d \in Clients, phase'[d] \in {"open", "sending"}, Overtaken(d)',
                        Unfenced(d)
                 PROVE  FALSE
      BY <1>2 DEF FenceInv, Unfenced
    <2>1. phase[d] \in {"open", "sending"}
      BY <1>1, <1>2
    <2>2. d # c => epoch[d] # producerEpoch
      BY <1>1, <1>3 DEF EpochInv
    <2>3. d = c
      BY <2>2 DEF Unfenced
    <2>4. PICK i \in DOMAIN log' : log'[i].writer > scope[c]
      BY <2>3 DEF Overtaken
    <2>5. log'[i].writer <= scope[c]
      BY <1>3, <1>5, <1>6
    <2>6. scope[c] \in Int /\ log'[i].writer \in Int
      <3>1. t.fact.writer \in Int /\ \A j \in DOMAIN log : log[j].writer \in Int
        BY <1>1 DEF TypeOK, Facts, Leases
      <3> QED BY <1>5, <1>6, <3>1
    <2> QED BY <2>4, <2>5, <2>6
  <1>10. InflightInv'
    BY <1>2 DEF InflightInv
  <1>11. LogInv'
    BY <1>2, <1>3, <1>5, <1>6 DEF LogInv
  <1>12. WriterOrder'
    <2> SUFFICES ASSUME NEW i \in DOMAIN log', NEW j \in DOMAIN log', i < j
                 PROVE  log'[i].writer <= log'[j].writer
      BY DEF WriterOrder
    <2>1. i \in DOMAIN log /\ log'[i] = log[i]
      BY <1>6
    <2>2. CASE j = Len(log) + 1
      BY <1>3, <1>6, <2>1, <2>2
    <2>3. CASE j # Len(log) + 1
      BY <1>6, <2>1, <2>3 DEF WriterOrder
    <2> QED BY <2>2, <2>3
  <1> QED BY <1>7, <1>8, <1>9, <1>10, <1>11, <1>12

\* The broker aborts.
LEMMA AbortKeepsWriterInv ==
    ASSUME WriterInv, Abort, UNCHANGED <<scope, leaseEpoch>>
    PROVE  WriterInv'
  BY DEF WriterInv, Abort, ScopeInv, EpochInv, FenceInv, InflightInv, LogInv, WriterOrder,
         Overtaken, Unfenced

-----------------------------------------------------------------------------
(* Types, split by the part of the state a step changes.                     *)

WritersTypeOK ==
    /\ log \in Seq(Facts)
    /\ producerEpoch \in Nat
    /\ transaction \subseteq [client : Clients, fact : Facts]
    /\ phase \in [Clients -> Phase]
    /\ epoch \in [Clients -> Nat]
    /\ sent \in [Clients -> Nat]

ActorsTypeOK ==
    /\ worker \in [Leases -> WorkerState]
    /\ head \in [Leases -> Nat]
    /\ scope \in [Clients -> 0..MaxLease]
    /\ pos \in Nat \ {0} /\ groupOffset \in Nat \ {0}
    /\ prefixes \subseteq Leases
    /\ faults \in 0..MaxFaults

\* The type invariant, by the part of the state it is about.
LEMMA TypeParts == TypeOK <=> LedgerTypeOK /\ WritersTypeOK /\ ActorsTypeOK
  BY DEF TypeOK, WritersTypeOK, ActorsTypeOK

IInv == TypeOK /\ OrderInv

\* A lease that was issued is a lease of the model, and its writer is a client.
LEMMA Issued ==
    ASSUME TypeOK, NEW e \in 1..leaseEpoch
    PROVE  e \in Leases /\ e \in Clients
  BY LedgerAssumption, OwnershipAssumption DEF TypeOK, LedgerTypeOK, Leases

\* A step spends at most the failures that are left.
LEMMA FaultType ==
    ASSUME TypeOK, Fault \/ NoFault
    PROVE  faults' \in 0..MaxFaults
  BY OwnershipAssumption DEF Fault, NoFault, TypeOK

\* A step that leaves PostgreSQL alone keeps its rows.
LEMMA LedgerUnchanged ==
    ASSUME TypeOK, UNCHANGED ledger
    PROVE  LedgerTypeOK' /\ LeasesKept(lease, lease') /\ leaseEpoch' = leaseEpoch
  BY DEF ledger, TypeOK, LedgerTypeOK, LeasesKept

\* Marking an outbox row published changes nothing about its writer.
LEMMA PublishedType ==
    ASSUME TypeOK, NEW e \in Leases, Published(e),
           UNCHANGED <<session, run, leaseEpoch, native, nextOffset>>
    PROVE  LedgerTypeOK' /\ LeasesKept(lease, lease')
  <1>1. [lease[e] EXCEPT !.published = TRUE] \in LeaseRow
    <2>1. lease[e] \in LeaseRow
      BY DEF TypeOK, LedgerTypeOK
    <2> QED BY <2>1, SealMarks
  <1>2. lease' \in [Leases -> LeaseRow]
    BY <1>1 DEF Published, TypeOK, LedgerTypeOK
  <1>3. LeasesKept(lease, lease')
    BY DEF Published, TypeOK, LedgerTypeOK, LeaseRow, LeasesKept
  <1> QED BY <1>2, <1>3 DEF TypeOK, LedgerTypeOK

\* Every step of a producer keeps the producers well formed.
LEMMA ClientStepType ==
    ASSUME WritersTypeOK, NEW c \in Clients, NEW fact \in Facts
    PROVE  /\ BeginOpen(c) => WritersTypeOK'
           /\ InitTransactions(c) => WritersTypeOK'
           /\ FinishOpen(c) => WritersTypeOK'
           /\ CloseWriter(c) => WritersTypeOK'
           /\ Submit(c, fact) => WritersTypeOK'
           /\ AppendFails(c) => WritersTypeOK'
           /\ AppendInDoubt(c) => WritersTypeOK'
  <1> USE DEF WritersTypeOK, Phase
  <1>1. BeginOpen(c) => WritersTypeOK'
    BY DEF BeginOpen
  <1>2. InitTransactions(c) => WritersTypeOK'
    BY DEF InitTransactions
  <1>3. FinishOpen(c) => WritersTypeOK'
    BY DEF FinishOpen
  <1>4. CloseWriter(c) => WritersTypeOK'
    BY DEF CloseWriter
  <1>5. Submit(c, fact) => WritersTypeOK'
    BY DEF Submit
  <1>6. AppendFails(c) => WritersTypeOK'
    BY DEF AppendFails
  <1>7. AppendInDoubt(c) => WritersTypeOK'
    BY DEF AppendInDoubt
  <1> QED BY <1>1, <1>2, <1>3, <1>4, <1>5, <1>6, <1>7

\* Every step of the broker keeps the producers well formed.
LEMMA BrokerStepType ==
    ASSUME WritersTypeOK
    PROVE  /\ \A t \in transaction, acknowledged \in BOOLEAN :
                 Commit(t, acknowledged) => WritersTypeOK'
           /\ Abort => WritersTypeOK'
  <1> USE DEF WritersTypeOK, Phase
  <1>1. ASSUME NEW t \in transaction, NEW acknowledged \in BOOLEAN, Commit(t, acknowledged)
        PROVE  WritersTypeOK'
    <2>1. log' \in Seq(Facts)
      BY <1>1 DEF Commit
    <2>2. phase' \in [Clients -> Phase]
      BY <1>1 DEF Commit
    <2> QED BY <1>1, <2>1, <2>2 DEF Commit
  <1>2. Abort => WritersTypeOK'
    BY DEF Abort
  <1> QED BY <1>1, <1>2

\* Every step that leaves producers and scopes alone and issues no lease.
LEMMA QuietStep ==
    ASSUME IInv, UNCHANGED <<writers, scope, leaseEpoch>>,
           LedgerTypeOK', LeasesKept(lease, lease'), ActorsTypeOK'
    PROVE  IInv'
  <1>1. WritersTypeOK'
    BY TypeParts DEF IInv, WritersTypeOK, writers
  <1>2. TypeOK'
    BY <1>1 DEF TypeOK, WritersTypeOK, ActorsTypeOK
  <1>3. LeaseInv'
    BY LeasesKeptKeepsLeaseInv DEF IInv, OrderInv
  <1>4. WriterInv'
    BY QuietKeepsWriterInv DEF IInv, OrderInv
  <1> QED BY <1>2, <1>3, <1>4 DEF IInv, OrderInv

\* Every step of a producer or of the broker under the leases as they are.
LEMMA WriterStepKeeps ==
    ASSUME IInv, WritersTypeOK', WriterInv', ActorsTypeOK',
           LedgerTypeOK', LeasesKept(lease, lease'), UNCHANGED leaseEpoch
    PROVE  IInv'
  <1>1. TypeOK'
    BY DEF TypeOK, WritersTypeOK, ActorsTypeOK
  <1>2. LeaseInv'
    BY LeasesKeptKeepsLeaseInv DEF IInv, OrderInv
  <1> QED BY <1>1, <1>2 DEF IInv, OrderInv

-----------------------------------------------------------------------------
(* The steps of the Worker's writer.                                         *)

\* A step of one client under unchanged ledger and actors, but for a fault.
LEMMA WriterStepActors ==
    ASSUME IInv, WriterStep, Fault \/ NoFault
    PROVE  /\ LedgerTypeOK' /\ LeasesKept(lease, lease')
           /\ ActorsTypeOK' /\ UNCHANGED <<scope, leaseEpoch>>
  <1>1. faults' \in 0..MaxFaults
    BY FaultType DEF IInv
  <1>2. LedgerTypeOK' /\ LeasesKept(lease, lease') /\ leaseEpoch' = leaseEpoch
    BY LedgerUnchanged DEF IInv, WriterStep
  <1> QED BY <1>1, <1>2 DEF WriterStep, IInv, TypeOK, ActorsTypeOK, workers, projector

\* The scope of a client that was started.
LEMMA ScopeOfClient ==
    ASSUME IInv, NEW c \in Clients, phase[c] # "idle" \/ c \in 1..leaseEpoch
    PROVE  /\ scope[c] \in 1..leaseEpoch /\ scope[c] \in Leases
           /\ c \in Leases => c <= leaseEpoch /\ scope[c] = c
  <1>1. scope[c] \in 1..leaseEpoch
    BY Issued DEF IInv, OrderInv, WriterInv, ScopeInv
  <1>2. scope[c] \in Leases
    BY <1>1, Issued DEF IInv
  <1>3. c \in Leases => c <= leaseEpoch
    BY DEF IInv, OrderInv, WriterInv, ScopeInv
  <1> QED BY <1>1, <1>2, <1>3 DEF IInv, OrderInv, WriterInv, ScopeInv

\* Any way a client ends while the ledger stays as it is.
LEMMA ClosingStep ==
    ASSUME IInv, NEW c \in Clients, CloseWriter(c) \/ AppendFails(c) \/ AppendInDoubt(c),
           LedgerTypeOK', LeasesKept(lease, lease'), ActorsTypeOK',
           UNCHANGED <<scope, leaseEpoch>>
    PROVE  IInv'
  <1>1. /\ phase[c] # "idle"
        /\ phase' = [phase EXCEPT ![c] = "closed"]
        /\ UNCHANGED <<log, producerEpoch, transaction, epoch, sent>>
    BY DEF CloseWriter, AppendFails, AppendInDoubt
  <1>2. WriterInv'
    BY <1>1, ScopeOfClient, CloseKeepsWriterInv DEF IInv, OrderInv
  <1>3. WritersTypeOK'
    BY <1>1, TypeParts DEF IInv, WritersTypeOK, Phase
  <1> QED BY <1>2, <1>3, WriterStepKeeps

\* Opening, refused and failed openings of a Worker keep the invariant.
LEMMA OpeningSteps ==
    ASSUME IInv, NEW e \in 1..leaseEpoch,
           WorkerBeginsOpen(e) \/ WorkerInitializes(e) \/ WorkerOpens(e)
             \/ WorkerOpenRefused(e) \/ WorkerOpenFails(e)
    PROVE  IInv'
  <1> USE DEF IInv
  <1>0. e \in Leases /\ e \in Clients /\ scope[e] = e /\ e <= leaseEpoch
    BY Issued, ScopeOfClient
  <1>w. WritersTypeOK
    BY TypeParts
  <1>1. CASE WorkerBeginsOpen(e)
    <2>1. BeginOpen(e) /\ WriterStep /\ NoFault
      BY <1>1 DEF WorkerBeginsOpen
    <2>2. /\ LedgerTypeOK' /\ LeasesKept(lease, lease')
          /\ ActorsTypeOK' /\ UNCHANGED <<scope, leaseEpoch>>
      BY <2>1, WriterStepActors
    <2>3. WriterInv'
      BY <1>0, <2>1, <2>2, BeginKeepsWriterInv DEF OrderInv
    <2>4. WritersTypeOK'
      BY <1>0, <1>w, <2>1 DEF WritersTypeOK, BeginOpen, Phase
    <2> QED BY <2>2, <2>3, <2>4, WriterStepKeeps
  <1>2. CASE WorkerInitializes(e)
    <2>1. InitTransactions(e) /\ WriterStep /\ NoFault
      BY <1>2 DEF WorkerInitializes
    <2>2. /\ LedgerTypeOK' /\ LeasesKept(lease, lease')
          /\ ActorsTypeOK' /\ UNCHANGED <<scope, leaseEpoch>>
      BY <2>1, WriterStepActors
    <2>3. WriterInv'
      BY <1>0, <2>1, <2>2, InitKeepsWriterInv DEF OrderInv
    <2>4. WritersTypeOK'
      BY <1>0, <1>w, <2>1 DEF WritersTypeOK, InitTransactions, Phase
    <2> QED BY <2>2, <2>3, <2>4, WriterStepKeeps
  <1>3. CASE WorkerOpens(e)
    <2>1. FinishOpen(e) /\ UNCHANGED <<ledger, worker, scope, projector>> /\ NoFault
      BY <1>3 DEF WorkerOpens
    <2>2. LedgerTypeOK' /\ LeasesKept(lease, lease') /\ leaseEpoch' = leaseEpoch
      BY <2>1, LedgerUnchanged
    <2>3. lease[scope[e]].seal = 0
      BY <1>0, <1>3 DEF WorkerOpens, Granted
    <2>4. WriterInv'
      BY <1>0, <2>1, <2>2, <2>3, FinishOpenKeepsWriterInv
    <2>5. WritersTypeOK'
      BY <1>0, <1>w, <2>1 DEF WritersTypeOK, FinishOpen, Phase
    <2>6. head' \in [Leases -> Nat]
      <3>1. Len(native) \in Nat
        BY DEF TypeOK, LedgerTypeOK
      <3> QED BY <1>0, <1>3, <3>1 DEF WorkerOpens, TypeOK
    <2>7. ActorsTypeOK'
      BY <2>1, <2>6, FaultType DEF TypeOK, ActorsTypeOK, projector
    <2> QED BY <2>1, <2>2, <2>4, <2>5, <2>7, WriterStepKeeps
  <1>4. CASE WorkerOpenRefused(e) \/ WorkerOpenFails(e)
    <2>1. CloseWriter(e) /\ WriterStep /\ (Fault \/ NoFault)
      BY <1>4 DEF WorkerOpenRefused, WorkerOpenFails
    <2>2. /\ LedgerTypeOK' /\ LeasesKept(lease, lease')
          /\ ActorsTypeOK' /\ UNCHANGED <<scope, leaseEpoch>>
      BY <2>1, WriterStepActors
    <2> QED BY <1>0, <2>1, <2>2, ClosingStep
  <1> QED BY <1>1, <1>2, <1>3, <1>4

\* Records a Worker hands over keep the invariant.
LEMMA SendingSteps ==
    ASSUME IInv, NEW e \in 1..leaseEpoch,
           SendCommit(e) \/ (\E o \in Outcome : SendFinish(e, o))
    PROVE  IInv'
  <1> USE DEF IInv
  <1>0. e \in Leases /\ e \in Clients /\ scope[e] = e /\ e <= leaseEpoch
    BY Issued, ScopeOfClient
  <1>w. WritersTypeOK
    BY TypeParts
  <1>n. head[e] + sent[e] + 1 \in Nat /\ head[e] + sent[e] \in Nat /\ sent[e] \in Nat
    BY <1>0 DEF TypeOK
  <1>1. CASE SendCommit(e)
    <2>1. Submit(e, CommitFact(e)) /\ WriterStep /\ NoFault
      BY <1>1 DEF SendCommit
    <2>2. CommitFact(e) \in Facts /\ CommitFact(e).writer = scope[e]
      BY <1>0, <1>n DEF CommitFact, Facts
    <2>3. /\ LedgerTypeOK' /\ LeasesKept(lease, lease')
          /\ ActorsTypeOK' /\ UNCHANGED <<scope, leaseEpoch>>
      BY <2>1, WriterStepActors
    <2>4. WriterInv'
      BY <1>0, <2>1, <2>2, <2>3, SubmitKeepsWriterInv DEF OrderInv
    <2>5. WritersTypeOK'
      BY <1>0, <1>w, <2>1, <2>2, ClientStepType
    <2> QED BY <2>3, <2>4, <2>5, WriterStepKeeps
  <1>2. ASSUME NEW o \in Outcome, SendFinish(e, o)
        PROVE  IInv'
    <2>1. /\ Submit(e, FinishFact(e, o)) /\ NoFault
          /\ worker' = [worker EXCEPT ![e] = "finishing"]
          /\ UNCHANGED <<ledger, head, scope, projector>>
      BY <1>2 DEF SendFinish
    <2>2. FinishFact(e, o) \in Facts /\ FinishFact(e, o).writer = scope[e]
      <3>1. (IF sent[e] = 0 THEN 0 ELSE head[e] + sent[e]) \in Nat
        BY <1>n
      <3> QED BY <1>0, <3>1 DEF FinishFact, Facts
    <2>3. LedgerTypeOK' /\ LeasesKept(lease, lease') /\ leaseEpoch' = leaseEpoch
      BY <2>1, LedgerUnchanged
    <2>4. WriterInv'
      BY <1>0, <2>1, <2>2, <2>3, SubmitKeepsWriterInv DEF OrderInv
    <2>5. WritersTypeOK'
      BY <1>0, <1>w, <2>1, <2>2, ClientStepType
    <2>6. ActorsTypeOK'
      BY <2>1, FaultType DEF TypeOK, ActorsTypeOK, WorkerState, projector
    <2> QED BY <2>3, <2>4, <2>5, <2>6, WriterStepKeeps
  <1> QED BY <1>1, <1>2

-----------------------------------------------------------------------------
(* How executions end.                                                       *)

\* A ledger step of an executor that leaves.
LEMMA LeavingSteps ==
    ASSUME IInv, NEW e \in 1..leaseEpoch,
           \/ WorkerRequestsRecovery(e) \/ WorkerLeaves(e)
           \/ \E quarantine \in BOOLEAN : WorkerRecordsFailure(e, quarantine)
    PROVE  IInv'
  <1> USE DEF IInv
  <1>0. e \in Leases
    BY Issued
  <1>t. LedgerTypeOK
    BY TypeParts
  <1>1. /\ worker' = [worker EXCEPT ![e] = "left"]
        /\ UNCHANGED <<writers, head, scope, projector>>
        /\ Fault \/ NoFault
    BY DEF WorkerRequestsRecovery, WorkerRecordsFailure, WorkerLeaves, MayRecover
  <1>2. ActorsTypeOK'
    BY <1>1, FaultType DEF TypeOK, ActorsTypeOK, WorkerState, projector
  <1>3. LedgerTypeOK' /\ LeasesKept(lease, lease') /\ leaseEpoch' = leaseEpoch
    <2>1. CASE WorkerRequestsRecovery(e)
      <3>1. RequestRecovery(e)
        BY <2>1 DEF WorkerRequestsRecovery
      <3> QED BY <1>0, <1>t, <3>1, RequestRecoveryType DEF RequestRecovery
    <2>2. ASSUME NEW quarantine \in BOOLEAN, WorkerRecordsFailure(e, quarantine)
          PROVE  LedgerTypeOK' /\ LeasesKept(lease, lease') /\ leaseEpoch' = leaseEpoch
      <3>1. RecordFailure(e, quarantine)
        BY <2>2 DEF WorkerRecordsFailure
      <3> QED BY <1>0, <1>t, <3>1, RecordFailureType DEF RecordFailure
    <2>3. CASE WorkerLeaves(e)
      BY <2>3, LedgerUnchanged DEF WorkerLeaves
    <2> QED BY <2>1, <2>2, <2>3
  <1> QED BY <1>1, <1>2, <1>3, QuietStep

\* The writer of an execution that is over goes away.
LEMMA WriterGone ==
    ASSUME IInv, NEW e \in 1..leaseEpoch, WorkerCloses(e) \/ WorkerCrashes(e) \/ AppendFailed(e) \/ InDoubt(e)
    PROVE  IInv'
  <1> USE DEF IInv
  <1>0. e \in Leases /\ e \in Clients
    BY Issued
  <1>1. CASE WorkerCloses(e) \/ AppendFailed(e) \/ InDoubt(e)
    <2>1. /\ CloseWriter(e) \/ AppendFails(e) \/ AppendInDoubt(e)
          /\ WriterStep /\ (Fault \/ NoFault)
      BY <1>1 DEF WorkerCloses, AppendFailed, InDoubt
    <2>2. /\ LedgerTypeOK' /\ LeasesKept(lease, lease')
          /\ ActorsTypeOK' /\ UNCHANGED <<scope, leaseEpoch>>
      BY <2>1, WriterStepActors
    <2> QED BY <1>0, <2>1, <2>2, ClosingStep
  <1>2. CASE WorkerCrashes(e)
    <2>1. /\ worker' = [worker EXCEPT ![e] = "crashed"]
          /\ phase' = [phase EXCEPT ![e] = "closed"]
          /\ UNCHANGED <<ledger, log, producerEpoch, transaction, epoch, sent,
                         head, scope, projector>>
          /\ Fault
      BY <1>2 DEF WorkerCrashes
    <2>2. LedgerTypeOK' /\ LeasesKept(lease, lease') /\ leaseEpoch' = leaseEpoch
      BY <2>1, LedgerUnchanged
    <2>3. WriterInv'
      BY <1>0, <2>1, <2>2, ScopeOfClient, CloseKeepsWriterInv DEF OrderInv
    <2>4. WritersTypeOK'
      BY <2>1, TypeParts DEF WritersTypeOK, Phase
    <2>5. ActorsTypeOK'
      BY <2>1, FaultType DEF TypeOK, ActorsTypeOK, WorkerState, projector
    <2> QED BY <2>2, <2>3, <2>4, <2>5, WriterStepKeeps
  <1> QED BY <1>1, <1>2

\* The reconcilers and the confirmed exit.
LEMMA LeaseSteps ==
    ASSUME IInv, NEW e \in 1..leaseEpoch,
           ExitConfirmed(e) \/ LeaseExpires(e) \/ SweepExpired(e) \/ WorkerRetired(e)
    PROVE  IInv'
  <1> USE DEF IInv
  <1>0. e \in Leases
    BY Issued
  <1>t. LedgerTypeOK
    BY TypeParts
  <1>1. UNCHANGED <<writers, workers, projector>> /\ faults' \in 0..MaxFaults
    <2>1. CASE ExitConfirmed(e) \/ SweepExpired(e)
      BY <2>1 DEF ExitConfirmed, SweepExpired, LedgerStep, TypeOK
    <2>2. CASE LeaseExpires(e) \/ WorkerRetired(e)
      BY <2>2, FaultType DEF LeaseExpires, WorkerRetired
    <2> QED BY <2>1, <2>2
  <1>2. ActorsTypeOK'
    BY <1>1 DEF TypeOK, ActorsTypeOK, workers, projector
  <1>3. LedgerTypeOK' /\ LeasesKept(lease, lease') /\ leaseEpoch' = leaseEpoch
    <2>1. CASE ExitConfirmed(e)
      BY <1>0, <1>t, <2>1, ConfirmAgentExitType DEF ExitConfirmed, ConfirmAgentExit, LeasesKept
    <2>2. CASE LeaseExpires(e)
      BY <1>0, <1>t, <2>2, ExpireType DEF LeaseExpires, Expire
    <2>3. CASE SweepExpired(e)
      BY <1>0, <1>t, <2>3, ReconcileType DEF SweepExpired, Reconcile
    <2>4. CASE WorkerRetired(e)
      BY <1>0, <1>t, <2>4, ReconcileType DEF WorkerRetired, Reconcile
    <2> QED BY <2>1, <2>2, <2>3, <2>4
  <1> QED BY <1>1, <1>2, <1>3, QuietStep DEF workers

\* Every step of a Worker keeps the invariant.
LEMMA WorkerSteps ==
    ASSUME IInv, WorkerNext
    PROVE  IInv'
  <1> PICK e \in 1..leaseEpoch :
       \/ WorkerBeginsOpen(e) \/ WorkerInitializes(e) \/ WorkerOpens(e)
       \/ WorkerOpenRefused(e) \/ WorkerOpenFails(e)
       \/ SendCommit(e) \/ (\E o \in Outcome : SendFinish(e, o))
       \/ WorkerRequestsRecovery(e) \/ WorkerLeaves(e) \/ WorkerCloses(e)
       \/ (\E quarantine \in BOOLEAN : WorkerRecordsFailure(e, quarantine))
       \/ ExitConfirmed(e) \/ WorkerCrashes(e)
       \/ LeaseExpires(e) \/ SweepExpired(e) \/ WorkerRetired(e)
       \/ AppendFailed(e) \/ InDoubt(e)
    BY Zenon DEF WorkerNext
  <1> QED BY OpeningSteps, SendingSteps, LeavingSteps, WriterGone, LeaseSteps

-----------------------------------------------------------------------------
(* The publication control and the broker.                                   *)

\* A control attempt begins on a lease that was issued.
LEMMA ControlBeginStep ==
    ASSUME IInv, NEW k \in Controls, NEW e \in 1..leaseEpoch, ControlBegins(k, e)
    PROVE  IInv'
  <1> USE DEF IInv
  <1>0. k \in Clients /\ k \notin Leases /\ e \in 0..MaxLease
    BY Issued, LedgerAssumption DEF Controls, Leases
  <1>1. /\ BeginOpen(k) /\ scope' = [scope EXCEPT ![k] = e]
        /\ UNCHANGED <<ledger, worker, head, projector>> /\ NoFault
    BY DEF ControlBegins
  <1>2. LedgerTypeOK' /\ LeasesKept(lease, lease') /\ leaseEpoch' = leaseEpoch
    BY <1>1, LedgerUnchanged
  <1>3. scope'[k] = e /\ \A d \in Clients \ {k} : scope'[d] = scope[d]
    BY <1>0, <1>1 DEF TypeOK
  <1>4. WriterInv'
    BY <1>0, <1>1, <1>2, <1>3, BeginKeepsWriterInv DEF OrderInv
  <1>5. WritersTypeOK'
    BY <1>0, <1>1, TypeParts DEF WritersTypeOK, BeginOpen, Phase
  <1>6. ActorsTypeOK'
    BY <1>0, <1>1, FaultType DEF TypeOK, ActorsTypeOK, projector
  <1> QED BY <1>2, <1>4, <1>5, <1>6, WriterStepKeeps

\* The other steps of a control attempt.
LEMMA ControlSteps ==
    ASSUME IInv, NEW k \in Controls,
           \/ ControlInitializes(k) \/ ControlOpens(k) \/ ControlRefused(k)
           \/ ControlAppends(k) \/ ControlReceipt(k) \/ ControlFails(k)
           \/ AppendFailed(k) \/ InDoubt(k)
    PROVE  IInv'
  <1> USE DEF IInv
  <1>0. k \in Clients /\ k \notin Leases
    BY DEF Controls
  <1>w. WritersTypeOK
    BY TypeParts
  <1>1. CASE ControlInitializes(k)
    <2>1. InitTransactions(k) /\ WriterStep /\ NoFault
      BY <1>1 DEF ControlInitializes
    <2>2. /\ LedgerTypeOK' /\ LeasesKept(lease, lease')
          /\ ActorsTypeOK' /\ UNCHANGED <<scope, leaseEpoch>>
      BY <2>1, WriterStepActors
    <2>3. WriterInv'
      BY <1>0, <2>1, <2>2, InitKeepsWriterInv DEF OrderInv
    <2>4. WritersTypeOK'
      BY <1>0, <1>w, <2>1 DEF WritersTypeOK, InitTransactions, Phase
    <2> QED BY <2>2, <2>3, <2>4, WriterStepKeeps
  <1>2. CASE ControlOpens(k)
    <2>1. FinishOpen(k) /\ WriterStep /\ NoFault /\ lease[scope[k]].seal = 0
      BY <1>2 DEF ControlOpens, SealWanted
    <2>2. /\ LedgerTypeOK' /\ LeasesKept(lease, lease')
          /\ ActorsTypeOK' /\ UNCHANGED <<scope, leaseEpoch>>
      BY <2>1, WriterStepActors
    <2>3. WriterInv'
      BY <1>0, <2>1, <2>2, FinishOpenKeepsWriterInv
    <2>4. WritersTypeOK'
      BY <1>0, <1>w, <2>1 DEF WritersTypeOK, FinishOpen, Phase
    <2> QED BY <2>2, <2>3, <2>4, WriterStepKeeps
  <1>3. CASE ControlAppends(k)
    <2>1. Submit(k, SealFact(scope[k])) /\ WriterStep /\ NoFault
      BY <1>3 DEF ControlAppends
    <2>2. scope[k] \in Leases
      BY <1>0, <2>1, ScopeOfClient DEF Submit
    <2>3. SealFact(scope[k]) \in Facts /\ SealFact(scope[k]).writer = scope[k]
      <3>1. lease[scope[k]].outbox \in {"none", "recover", "terminal"}
        BY <2>2 DEF TypeOK, LedgerTypeOK, LeaseRow
      <3> QED BY <2>2, <3>1 DEF SealFact, Facts
    <2>4. /\ LedgerTypeOK' /\ LeasesKept(lease, lease')
          /\ ActorsTypeOK' /\ UNCHANGED <<scope, leaseEpoch>>
      BY <2>1, WriterStepActors
    <2>5. WriterInv'
      BY <1>0, <2>1, <2>3, <2>4, SubmitKeepsWriterInv DEF OrderInv
    <2>6. WritersTypeOK'
      BY <1>0, <1>w, <2>1, <2>3, ClientStepType
    <2> QED BY <2>4, <2>5, <2>6, WriterStepKeeps
  <1>4. CASE ControlRefused(k) \/ ControlReceipt(k)
    <2>1. /\ CloseWriter(k) /\ NoFault
          /\ Published(scope[k]) \/ UNCHANGED lease
          /\ UNCHANGED <<session, run, leaseEpoch, native, nextOffset, workers, projector>>
      BY <1>4 DEF ControlRefused, ControlReceipt
    <2>2. scope[k] \in Leases
      BY <1>0, <2>1, ScopeOfClient DEF CloseWriter
    <2>3. LedgerTypeOK' /\ LeasesKept(lease, lease')
      <3>1. CASE Published(scope[k])
        BY <2>1, <2>2, <3>1, PublishedType
      <3>2. CASE UNCHANGED lease
        BY <2>1, <3>2, LedgerUnchanged DEF ledger
      <3> QED BY <2>1, <3>1, <3>2
    <2>4. ActorsTypeOK' /\ UNCHANGED scope
      BY <2>1, FaultType DEF TypeOK, ActorsTypeOK, workers, projector
    <2> QED BY <1>0, <2>1, <2>3, <2>4, ClosingStep
  <1>5. CASE ControlFails(k) \/ AppendFailed(k) \/ InDoubt(k)
    <2>1. /\ CloseWriter(k) \/ AppendFails(k) \/ AppendInDoubt(k)
          /\ WriterStep /\ (Fault \/ NoFault)
      BY <1>5 DEF ControlFails, AppendFailed, InDoubt
    <2>2. /\ LedgerTypeOK' /\ LeasesKept(lease, lease')
          /\ ActorsTypeOK' /\ UNCHANGED <<scope, leaseEpoch>>
      BY <2>1, WriterStepActors
    <2> QED BY <1>0, <2>1, <2>2, ClosingStep
  <1> QED BY <1>1, <1>2, <1>3, <1>4, <1>5

\* Completed evidence is acknowledged without a producer.
LEMMA ControlSkipStep ==
    ASSUME IInv, NEW e \in 1..leaseEpoch, ControlSkips(e)
    PROVE  IInv'
  <1>1. e \in Leases
    BY Issued DEF IInv
  <1>2. LedgerTypeOK' /\ LeasesKept(lease, lease')
    BY <1>1, PublishedType DEF ControlSkips, IInv
  <1>3. UNCHANGED <<writers, workers, projector, faults, leaseEpoch>>
    BY DEF ControlSkips, LedgerStep
  <1>4. ActorsTypeOK'
    BY <1>3 DEF IInv, TypeOK, ActorsTypeOK, workers, projector
  <1> QED BY <1>2, <1>3, <1>4, QuietStep DEF workers

\* The broker decides the open transaction.
LEMMA BrokerSteps ==
    ASSUME IInv, BrokerNext
    PROVE  IInv'
  <1> USE DEF IInv
  <1>w. WritersTypeOK
    BY TypeParts
  <1>1. ASSUME NEW t \in transaction, Acknowledged(t) \/ ReplyLost(t)
        PROVE  IInv'
    <2>1. PICK acknowledged \in BOOLEAN : Commit(t, acknowledged)
      BY <1>1 DEF Acknowledged, ReplyLost
    <2>2. /\ UNCHANGED <<ledger, head, scope, projector>>
          /\ worker' \in [Leases -> WorkerState]
          /\ Fault \/ NoFault
      <3>1. CASE Acknowledged(t)
        BY <3>1 DEF Acknowledged, TypeOK, WorkerState
      <3>2. CASE ReplyLost(t)
        BY <3>2 DEF ReplyLost, WriterStep, workers, TypeOK
      <3> QED BY <1>1, <3>1, <3>2
    <2>3. LedgerTypeOK' /\ LeasesKept(lease, lease') /\ leaseEpoch' = leaseEpoch
      BY <2>2, LedgerUnchanged
    <2>4. WriterInv'
      BY <2>1, <2>2, <2>3, CommitKeepsWriterInv DEF OrderInv
    <2>5. WritersTypeOK'
      BY <1>w, <2>1, BrokerStepType
    <2>6. ActorsTypeOK'
      BY <2>2, FaultType DEF TypeOK, ActorsTypeOK, projector
    <2> QED BY <2>3, <2>4, <2>5, <2>6, WriterStepKeeps
  <1>2. CASE Aborted
    <2>1. Abort /\ WriterStep /\ (Fault \/ NoFault)
      BY <1>2 DEF Aborted
    <2>2. /\ LedgerTypeOK' /\ LeasesKept(lease, lease')
          /\ ActorsTypeOK' /\ UNCHANGED <<scope, leaseEpoch>>
      BY <2>1, WriterStepActors
    <2>3. WriterInv'
      BY <2>1, <2>2, AbortKeepsWriterInv DEF OrderInv
    <2>4. WritersTypeOK'
      BY <1>w, <2>1, BrokerStepType
    <2> QED BY <2>2, <2>3, <2>4, WriterStepKeeps
  <1> QED BY <1>1, <1>2 DEF BrokerNext

-----------------------------------------------------------------------------
(* The Session Projector.                                                    *)

\* A projected record keeps the invariant when its transaction keeps the ledger's.
LEMMA ProjectStep ==
    ASSUME IInv, ProjectorStep, pos' = pos + 1, prefixes' \subseteq Leases,
           LedgerTypeOK', LeasesKept(lease, lease'), UNCHANGED leaseEpoch
    PROVE  IInv'
  <1>1. ActorsTypeOK'
    BY DEF IInv, TypeOK, ActorsTypeOK, ProjectorStep, workers
  <1> QED BY <1>1, QuietStep DEF ProjectorStep, workers

\* Every projected record keeps the invariant.
LEMMA ProjectSteps ==
    ASSUME IInv, ProjectCommit \/ ProjectFinish \/ ProjectSeal
    PROVE  IInv'
  <1> USE DEF IInv
  <1> DEFINE e == Record.writer
  <1>t. LedgerTypeOK
    BY TypeParts
  <1>0. /\ pos' = pos + 1 /\ ProjectorStep
        /\ pos \in 1..Len(log) /\ pos \in Nat \ {0}
    BY DEF ProjectCommit, ProjectFinish, ProjectSeal, Projects, TypeOK
  <1>1. Record \in Facts
    BY <1>0 DEF Record, TypeOK
  <1>2. e \in Leases
    BY <1>1 DEF Facts
  <1>3. prefixes' \subseteq Leases
    BY <1>2 DEF ProjectCommit, ProjectFinish, ProjectSeal, Forget, TypeOK
  <1>4. CASE ProjectCommit
    <2>1. LedgerTypeOK' /\ LeasesKept(lease, lease') /\ leaseEpoch' = leaseEpoch
      <3>1. CASE ApplyCommit(pos, e, Record.seq)
        BY <1>t, <1>0, <1>2, <3>1, ApplyCommitType DEF ApplyCommit
      <3>2. CASE UNCHANGED ledger
        BY <3>2, LedgerUnchanged
      <3> QED BY <1>4, <3>1, <3>2 DEF ProjectCommit
    <2> QED BY <1>0, <1>3, <2>1, ProjectStep
  <1>5. CASE ProjectFinish
    <2>1. Record.outcome \in Outcome
      BY <1>1, <1>5 DEF ProjectFinish, Projects, Facts
    <2>2. LedgerTypeOK' /\ LeasesKept(lease, lease') /\ leaseEpoch' = leaseEpoch
      <3>1. CASE RecordOnly(pos)
        BY <1>t, <1>0, <3>1, RecordOnlyType DEF RecordOnly
      <3>2. CASE FinishOverruled(pos, e)
        BY <1>t, <1>0, <1>2, <3>2, FinishOverruledType DEF FinishOverruled
      <3>3. CASE FinishSettles(pos, e, Record.outcome)
        BY <1>t, <1>0, <1>2, <2>1, <3>3, FinishSettlesType DEF FinishSettles
      <3> QED BY <1>5, <3>1, <3>2, <3>3 DEF ProjectFinish
    <2> QED BY <1>0, <1>3, <2>2, ProjectStep
  <1>6. CASE ProjectSeal
    <2>1. LedgerTypeOK' /\ LeasesKept(lease, lease') /\ leaseEpoch' = leaseEpoch
      <3>1. CASE RecordOnly(pos)
        BY <1>t, <1>0, <3>1, RecordOnlyType DEF RecordOnly
      <3>2. CASE SealSettled(pos, e)
        BY <1>t, <1>0, <1>2, <3>2, SealSettledType DEF SealSettled
      <3>3. CASE SealRecovers(pos, e)
        BY <1>t, <1>0, <1>2, <3>3, SealRecoversType DEF SealRecovers
      <3>4. CASE SealTerminates(pos, e)
        BY <1>t, <1>0, <1>2, <3>4, SealTerminatesType DEF SealTerminates
      <3> QED BY <1>6, <3>1, <3>2, <3>3, <3>4 DEF ProjectSeal
    <2> QED BY <1>0, <1>3, <2>1, ProjectStep
  <1> QED BY <1>4, <1>5, <1>6

\* A non-empty set of naturals has the minimum the replay position is.
LEMMA MinOfNaturals ==
    ASSUME NEW S \in SUBSET Nat, S # {}
    PROVE  Min(S) \in S /\ \A n \in S : Min(S) <= n
  <1>1. PICK x \in S : \A y \in S : ~(<<y, x>> \in OpToRel(<, Nat))
    BY NatLessThanWellFounded, WFMin, Zenon
  <1>2. \A y \in S : ~(y < x)
    BY <1>1, Zenon DEF OpToRel
  <1>3. \A y \in S : x <= y
    BY <1>2
  <1> QED BY <1>3 DEF Min

\* The position reading resumes at is an offset of the partition.
LEMMA ReplayFloorType ==
    ASSUME TypeOK
    PROVE  ReplayFloor \in Nat \ {0} /\ Min({groupOffset, ReplayFloor}) \in Nat \ {0}
  <1> DEFINE open == {run[r].first : r \in {q \in Runs : run[q].first # 0 /\ run[q].sealedAt = 0}}
             floor == {nextOffset, Len(log) + 1} \cup open
  <1>1. {nextOffset, Len(log) + 1} \subseteq Nat \ {0}
    BY DEF TypeOK, LedgerTypeOK
  <1>2. open \subseteq Nat \ {0}
    <2>1. \A r \in Runs : run[r].first \in Nat
      BY DEF TypeOK, LedgerTypeOK, RunRow
    <2> QED BY <2>1
  <1>3. Min(floor) \in Nat \ {0}
    <2> HIDE DEF open
    <2>1. floor \subseteq Nat \ {0} /\ floor # {}
      BY <1>1, <1>2
    <2> HIDE DEF floor
    <2>2. Min(floor) \in floor
      BY <2>1, MinOfNaturals
    <2> QED BY <2>1, <2>2
  <1>4. ReplayFloor = Min(floor)
    BY DEF ReplayFloor
  <1>5. {groupOffset, ReplayFloor} \subseteq Nat \ {0}
    BY <1>3, <1>4 DEF TypeOK
  <1> QED BY <1>3, <1>4, <1>5, MinOfNaturals

\* Committing progress and starting over move the Projector only.
LEMMA ProjectorMoves ==
    ASSUME IInv, CommitProgress \/ ProjectorRestarts
    PROVE  IInv'
  <1> USE DEF IInv
  <1>1. UNCHANGED <<ledger, writers, workers>> /\ (Fault \/ NoFault)
    BY DEF CommitProgress, ProjectorRestarts
  <1>2. pos' \in Nat \ {0} /\ groupOffset' \in Nat \ {0} /\ prefixes' \subseteq Leases
    <2>1. CASE CommitProgress
      BY <2>1 DEF CommitProgress, TypeOK
    <2>2. CASE ProjectorRestarts
      BY <2>2, ReplayFloorType DEF ProjectorRestarts, TypeOK
    <2> QED BY <2>1, <2>2
  <1>3. ActorsTypeOK'
    BY <1>1, <1>2, FaultType DEF TypeOK, ActorsTypeOK, workers
  <1>4. LedgerTypeOK' /\ LeasesKept(lease, lease') /\ leaseEpoch' = leaseEpoch
    BY <1>1, LedgerUnchanged
  <1> QED BY <1>1, <1>3, <1>4, QuietStep DEF workers

-----------------------------------------------------------------------------
(* Acceptance, cancellation and claims.                                      *)

\* Acceptance and cancellation change Runs, and give a lease up at most.
LEMMA RunSteps ==
    ASSUME IInv, NEW r \in Runs,
           \/ (Enqueue(r) \/ AcceptCancel(r) \/ CancelUnclaimed(r)) /\ LedgerStep
           \/ (DispatchCancel(r) \/ StartCancel(r) \/ CancelNotStarted(r, TRUE)) /\ LedgerStep
           \/ (CancelNotStarted(r, FALSE) \/ FailStartedCancel(r))
              /\ UNCHANGED <<writers, workers, projector>> /\ Fault
    PROVE  IInv'
  <1> USE DEF IInv
  <1>t. LedgerTypeOK
    BY TypeParts
  <1>1. UNCHANGED <<writers, workers, projector>> /\ faults' \in 0..MaxFaults
    BY FaultType DEF LedgerStep, TypeOK
  <1>2. ActorsTypeOK'
    BY <1>1 DEF TypeOK, ActorsTypeOK, workers, projector
  <1>3. LedgerTypeOK'
    BY <1>t, EnqueueType, AcceptCancelType, CancelUnclaimedType, DispatchCancelType,
       StartCancelType, CancelNotStartedType, FailStartedCancelType
  <1>4. LeasesKept(lease, lease') /\ leaseEpoch' = leaseEpoch
    <2>1. CASE FailStartedCancel(r)
      BY <1>t, <2>1, FailStartedCancelType DEF FailStartedCancel
    <2>2. CASE ~FailStartedCancel(r)
      <3>1. UNCHANGED <<lease, leaseEpoch>>
        BY <2>2 DEF Enqueue, AcceptCancel, CancelUnclaimed, DispatchCancel, StartCancel,
                    CancelNotStarted
      <3> QED BY <3>1 DEF LeasesKept
    <2> QED BY <2>1, <2>2
  <1> QED BY <1>1, <1>2, <1>3, <1>4, QuietStep DEF workers

\* A claim issues the next lease, when every lease before it is released.
LEMMA ClaimStep ==
    ASSUME IInv, NEW r \in Runs, ClaimRun(r)
    PROVE  IInv'
  <1> DEFINE e == leaseEpoch + 1
  <1> USE DEF IInv, OrderInv, WriterInv
  <1>1. /\ Claim(r)
        /\ worker' = [worker EXCEPT ![e] = "running"]
        /\ scope' = [scope EXCEPT ![e] = e]
        /\ UNCHANGED <<writers, head, projector, faults>>
    BY DEF ClaimRun
  <1>2. /\ e \in Leases /\ e \in Clients /\ e \in 0..MaxLease
        /\ leaseEpoch' = e /\ leaseEpoch \in Nat
        /\ \A d \in 1..leaseEpoch : lease[d].released /\ d \in Leases
    <2>1. /\ e \in Leases /\ leaseEpoch' = e
          /\ \A d \in 1..leaseEpoch : lease[d].released
      BY <1>1 DEF Claim, Claimable, SessionWorkerAvailable
    <2>2. leaseEpoch \in 0..MaxLease
      BY DEF TypeOK, LedgerTypeOK
    <2> QED BY <2>1, <2>2, Issued, LedgerAssumption, OwnershipAssumption DEF Leases
  <1>3. LedgerTypeOK'
    BY <1>1, ClaimType, TypeParts
  <1>4. WritersTypeOK' /\ ActorsTypeOK'
    BY <1>1, <1>2 DEF TypeOK, WritersTypeOK, ActorsTypeOK, writers, projector, WorkerState
  <1>5. scope'[e] = e /\ \A c \in Clients \ {e} : scope'[c] = scope[c]
    BY <1>1, <1>2 DEF TypeOK
  <1>6. phase[e] = "idle"
    BY <1>2 DEF ScopeInv
  <1>7. LeaseInv'
    <2>1. \A d \in Leases : lease'[d].seal = lease[d].seal /\ lease'[d].released = lease[d].released
      <3>1. lease \in [Leases -> LeaseRow]
        BY DEF TypeOK, LedgerTypeOK
      <3>2. lease' = [lease EXCEPT ![e].run = r]
        BY <1>1 DEF Claim
      <3> HIDE DEF e, IInv
      <3> QED BY <3>1, <3>2 DEF LeaseRow
    <2>2. \A d \in 1..(e - 1) : d \in 1..leaseEpoch
      BY <1>2
    <2> QED BY <1>2, <2>1, <2>2 DEF LeaseInv
  <1>8. ScopeInv'
    <2>1. \A d \in Leases : IF d <= e THEN scope'[d] = d ELSE phase[d] = "idle"
      <3> SUFFICES ASSUME NEW d \in Leases
                   PROVE  IF d <= e THEN scope'[d] = d ELSE phase[d] = "idle"
        OBVIOUS
      <3>1. d \in Clients /\ d \in Int
        BY OwnershipAssumption DEF Leases
      <3> QED BY <1>2, <1>5, <3>1 DEF ScopeInv
    <2>2. \A c \in Clients : phase[c] # "idle" => scope'[c] \in 1..e
      BY <1>2, <1>5, <1>6 DEF ScopeInv
    <2> QED BY <1>1, <1>2, <2>1, <2>2 DEF ScopeInv, writers
  <1>9. EpochInv' /\ WriterOrder'
    BY <1>1 DEF EpochInv, WriterOrder, writers
  <1>10. FenceInv'
    BY <1>1, <1>5, <1>6 DEF FenceInv, Overtaken, Unfenced, writers
  <1>11. InflightInv'
    <2>1. \A t \in transaction : t.client \in Clients /\ t.client # e
      BY <1>6 DEF InflightInv, TypeOK
    <2> QED BY <1>1, <1>5, <2>1 DEF InflightInv, Overtaken, Unfenced, writers
  <1>12. LogInv'
    <2>1. \A i \in DOMAIN log : log[i].writer \in Int
      BY DEF TypeOK, Facts, Leases
    <2> QED BY <1>1, <1>2, <2>1 DEF LogInv, writers
  <1>13. TypeOK'
    BY <1>3, <1>4 DEF TypeOK, WritersTypeOK, ActorsTypeOK
  <1> QED BY <1>7, <1>8, <1>9, <1>10, <1>11, <1>12, <1>13

-----------------------------------------------------------------------------
(* The specification.                                                        *)

\* The empty Session satisfies the invariant.
LEMMA InitKeeps == Init => IInv
  <1> SUFFICES ASSUME Init PROVE IInv
    OBVIOUS
  <1>1. LedgerTypeOK
    <2>1. NoRun \in RunRow
      BY LedgerAssumption DEF NoRun, RunRow
    <2>2. NoLease \in LeaseRow
      BY LedgerAssumption DEF NoLease, LeaseRow
    <2> QED BY <2>1, <2>2, LedgerAssumption DEF Init, LedgerInit, LedgerTypeOK, SessionState
  <1>2. WritersTypeOK
    BY DEF Init, WritersInit, WritersTypeOK, Phase
  <1>3. ActorsTypeOK
    BY LedgerAssumption, OwnershipAssumption DEF Init, ActorsTypeOK, WorkerState
  <1>4. LeaseInv
    BY DEF Init, LedgerInit, NoLease, LeaseInv
  <1>5. ScopeInv
    BY LedgerAssumption, OwnershipAssumption DEF Init, LedgerInit, WritersInit, ScopeInv, Leases
  <1>6. EpochInv /\ FenceInv /\ InflightInv /\ LogInv /\ WriterOrder
    BY DEF Init, WritersInit, EpochInv, FenceInv, InflightInv, LogInv, WriterOrder
  <1> QED BY <1>1, <1>2, <1>3, <1>4, <1>5, <1>6, TypeParts DEF IInv, OrderInv, WriterInv

\* Every step, and stuttering, keeps it.
LEMMA NextKeeps == IInv /\ [Next]_vars => IInv'
  <1> SUFFICES ASSUME IInv, [Next]_vars PROVE IInv'
    OBVIOUS
  <1>1. CASE LedgerNext
    <2> PICK r \in Runs :
           \/ (Enqueue(r) \/ AcceptCancel(r) \/ CancelUnclaimed(r)) /\ LedgerStep
           \/ (DispatchCancel(r) \/ StartCancel(r) \/ CancelNotStarted(r, TRUE)) /\ LedgerStep
           \/ (CancelNotStarted(r, FALSE) \/ FailStartedCancel(r))
              /\ UNCHANGED <<writers, workers, projector>> /\ Fault
           \/ ClaimRun(r)
      BY <1>1, Zenon DEF LedgerNext
    <2> QED BY RunSteps, ClaimStep
  <1>2. CASE WorkerNext
    BY <1>2, WorkerSteps
  <1>3. CASE ControlNext
    <2>1. ASSUME NEW e \in 1..leaseEpoch, ControlSkips(e) PROVE IInv'
      BY <2>1, ControlSkipStep
    <2>2. ASSUME NEW k \in Controls, NEW e \in 1..leaseEpoch, ControlBegins(k, e) PROVE IInv'
      BY <2>2, ControlBeginStep
    <2>3. ASSUME NEW k \in Controls,
                 \/ ControlInitializes(k) \/ ControlOpens(k) \/ ControlRefused(k)
                 \/ ControlAppends(k) \/ ControlReceipt(k) \/ ControlFails(k)
                 \/ AppendFailed(k) \/ InDoubt(k)
          PROVE IInv'
      BY <2>3, ControlSteps
    <2> QED BY <1>3, <2>1, <2>2, <2>3, Zenon DEF ControlNext
  <1>4. CASE BrokerNext
    BY <1>4, BrokerSteps
  <1>5. CASE ProjectorNext
    BY <1>5, ProjectSteps, ProjectorMoves DEF ProjectorNext
  <1>6. CASE UNCHANGED vars
    <2>1. UNCHANGED <<ledger, writers, workers, projector, faults>>
      BY <1>6 DEF vars
    <2>2. LedgerTypeOK' /\ LeasesKept(lease, lease') /\ leaseEpoch' = leaseEpoch
      BY <2>1, LedgerUnchanged DEF IInv
    <2>3. ActorsTypeOK'
      BY <2>1 DEF IInv, TypeOK, ActorsTypeOK, workers, projector
    <2> QED BY <2>1, <2>2, <2>3, QuietStep DEF workers
  <1> QED BY <1>1, <1>2, <1>3, <1>4, <1>5, <1>6 DEF Next

\* The state of a Session keeps its shape: rows, log records, producers, offsets.
THEOREM TypeCorrect == Spec => []TypeOK
  <1>1. IInv => TypeOK
    BY DEF IInv
  <1> QED BY InitKeeps, NextKeeps, <1>1, PTL DEF Spec

\* For any number of Runs, leases, control attempts and failures, the records of
\* the Session's partition lie in lease order (kafka-session-writer.ts #open,
\* direct-session-kafka.ts #authorize).
THEOREM WriterOrderHolds == Spec => []WriterOrder
  <1>1. IInv => WriterOrder
    BY DEF IInv, OrderInv, WriterInv
  <1> QED BY InitKeeps, NextKeeps, <1>1, PTL DEF Spec

\* A lease is only released behind the closure of its writer, and none is issued
\* before all earlier ones are released (session-lease-release.ts,
\* pi-session-worker-ownership.ts): at most the newest writer is unclosed.
THEOREM ReleasedBehindClosure == Spec => []LeaseInv
  <1>1. IInv => LeaseInv
    BY DEF IInv, OrderInv
  <1> QED BY InitKeeps, NextKeeps, <1>1, PTL DEF Spec

-----------------------------------------------------------------------------
(* Closures.                                                                 *)

\* The record at offset i ends the execution that holds lease e.
Closes(i, e) ==
    /\ i \in DOMAIN log
    /\ log[i].writer = e
    /\ log[i].kind \in {"finish", "seal"}

ClosureInv == \A e \in Leases : lease[e].seal # 0 => Closes(lease[e].seal, e)

\* What a transaction may do to the recorded closures: nothing, or close one
\* writer at one offset.
SealsKept(old, new) == \A e \in Leases : new[e].seal = old[e].seal

SealedAt(old, new, i, w) ==
    \A e \in Leases : new[e].seal # old[e].seal => e = w /\ new[e].seal = i

LogGrows == log' = log \/ \E t \in transaction : log' = Append(log, t.fact)

-----------------------------------------------------------------------------
(* Transactions that close nobody.                                           *)

\* Releasing an idle lease closes nobody.
LEMMA ReleaseIdleSeals ==
    ASSUME NEW leases \in [Leases -> LeaseRow], NEW runs, NEW e \in Leases
    PROVE  SealsKept(leases, ReleaseIdle(leases, runs, e))
  BY DEF ReleaseIdle, SealsKept, LeaseRow

\* Giving an execution up closes nobody.
LEMMA GiveUpSeals ==
    ASSUME LedgerTypeOK, NEW e \in Leases, NEW row, NEW recover \in BOOLEAN,
           GiveUp(e, row, recover)
    PROVE  SealsKept(lease, lease')
  <1> DEFINE given == [SealRequested(row, e, recover) EXCEPT !.released = TRUE]
             runs == [run EXCEPT ![lease[e].run] = given]
             leases == IF row.sealId # 0 THEN lease
                       ELSE [lease EXCEPT ![e] = WriterFailed(@, recover)]
  <1>1. leases \in [Leases -> LeaseRow] /\ SealsKept(lease, leases)
    BY WriterFailedKeeps DEF LedgerTypeOK, SealsKept
  <1>2. lease' = ReleaseIdle(leases, runs, e)
    BY DEF GiveUp
  <1>3. SealsKept(leases, ReleaseIdle(leases, runs, e))
    BY <1>1, ReleaseIdleSeals
  <1> QED BY <1>1, <1>2, <1>3 DEF SealsKept

\* The reconciler closes nobody.
LEMMA ReconcileSeals ==
    ASSUME LedgerTypeOK, NEW e \in Leases, NEW requireExpired, Reconcile(e, requireExpired)
    PROVE  SealsKept(lease, lease')
  <1> DEFINE r == lease[e].run
  <1>1. CASE IsActiveRunState(run[r].state)
    BY <1>1, GiveUpSeals DEF Reconcile
  <1>2. CASE ~IsActiveRunState(run[r].state)
    BY <1>2, ReleaseIdleSeals DEF Reconcile, LedgerTypeOK
  <1> QED BY <1>1, <1>2

\* Admission, Stops and claims close nobody.
LEMMA RunSeals ==
    ASSUME TypeOK, LedgerNext
    PROVE  SealsKept(lease, lease') /\ log' = log
  <1>t. LedgerTypeOK
    BY TypeParts
  <1> PICK r \in Runs :
         \/ (Enqueue(r) \/ AcceptCancel(r) \/ CancelUnclaimed(r)) /\ LedgerStep
         \/ (DispatchCancel(r) \/ StartCancel(r) \/ CancelNotStarted(r, TRUE)) /\ LedgerStep
         \/ (CancelNotStarted(r, FALSE) \/ FailStartedCancel(r))
            /\ UNCHANGED <<writers, workers, projector>> /\ Fault
         \/ ClaimRun(r)
    BY Zenon DEF LedgerNext
  <1>1. log' = log
    BY DEF LedgerStep, ClaimRun, writers
  <1>2. CASE ClaimRun(r)
    <2>1. lease' = [lease EXCEPT ![leaseEpoch + 1].run = r]
      BY <1>2 DEF ClaimRun, Claim
    <2> QED BY <1>1, <1>t, <2>1 DEF SealsKept, LedgerTypeOK, LeaseRow
  <1>3. CASE FailStartedCancel(r)
    <2>1. run[r].lease \in Leases
      BY <1>3, <1>t, LedgerAssumption DEF FailStartedCancel, ActiveScope, LedgerTypeOK, Leases
    <2>2. PICK row : GiveUp(run[r].lease, row, FALSE)
      BY <1>3 DEF FailStartedCancel
    <2> QED BY <1>1, <1>t, <2>1, <2>2, GiveUpSeals
  <1>4. CASE ~ClaimRun(r) /\ ~FailStartedCancel(r)
    <2>1. UNCHANGED lease
      BY <1>4 DEF Enqueue, AcceptCancel, CancelUnclaimed, DispatchCancel, StartCancel,
                  CancelNotStarted
    <2> QED BY <1>1, <2>1 DEF SealsKept
  <1> QED BY <1>1, <1>2, <1>3, <1>4

\* No step of a Worker, of its lease or of its exit closes a writer.
LEMMA WorkerSeals ==
    ASSUME TypeOK, WorkerNext
    PROVE  SealsKept(lease, lease') /\ log' = log
  <1>t. LedgerTypeOK
    BY TypeParts
  <1> PICK e \in 1..leaseEpoch :
       \/ WorkerBeginsOpen(e) \/ WorkerInitializes(e) \/ WorkerOpens(e)
       \/ WorkerOpenRefused(e) \/ WorkerOpenFails(e)
       \/ SendCommit(e) \/ (\E o \in Outcome : SendFinish(e, o))
       \/ WorkerRequestsRecovery(e) \/ WorkerLeaves(e) \/ WorkerCloses(e)
       \/ (\E quarantine \in BOOLEAN : WorkerRecordsFailure(e, quarantine))
       \/ ExitConfirmed(e) \/ WorkerCrashes(e)
       \/ LeaseExpires(e) \/ SweepExpired(e) \/ WorkerRetired(e)
       \/ AppendFailed(e) \/ InDoubt(e)
    BY Zenon DEF WorkerNext
  <1>0. e \in Leases
    BY Issued
  <1>1. CASE \/ WorkerBeginsOpen(e) \/ WorkerInitializes(e) \/ WorkerOpenRefused(e)
             \/ WorkerOpenFails(e) \/ WorkerCloses(e) \/ AppendFailed(e) \/ InDoubt(e)
    <2>1. /\ UNCHANGED ledger
          /\ \/ BeginOpen(e) \/ InitTransactions(e) \/ CloseWriter(e)
             \/ AppendFails(e) \/ AppendInDoubt(e)
      BY <1>1, Zenon DEF WorkerBeginsOpen, WorkerInitializes, WorkerOpenRefused,
           WorkerOpenFails, WorkerCloses, AppendFailed, InDoubt, WriterStep
    <2> QED BY <2>1 DEF ledger, SealsKept, BeginOpen, InitTransactions, CloseWriter,
                        AppendFails, AppendInDoubt
  <1>2. CASE SendCommit(e) \/ (\E o \in Outcome : SendFinish(e, o))
    <2>1. UNCHANGED ledger /\ \E fact : Submit(e, fact)
      BY <1>2, Zenon DEF SendCommit, SendFinish, WriterStep
    <2> QED BY <2>1 DEF ledger, SealsKept, Submit
  <1>3. CASE WorkerOpens(e) \/ WorkerLeaves(e) \/ WorkerCrashes(e)
    BY <1>3 DEF WorkerOpens, FinishOpen, WorkerLeaves, WorkerCrashes, ledger, writers, SealsKept
  <1>4. CASE WorkerRequestsRecovery(e)
    BY <1>0, <1>t, <1>4, GiveUpSeals DEF WorkerRequestsRecovery, RequestRecovery, writers
  <1>5. CASE \E quarantine \in BOOLEAN : WorkerRecordsFailure(e, quarantine)
    BY <1>0, <1>t, <1>5, GiveUpSeals DEF WorkerRecordsFailure, RecordFailure, writers
  <1>6. CASE ExitConfirmed(e)
    BY <1>6 DEF ExitConfirmed, ConfirmAgentExit, LedgerStep, writers, SealsKept
  <1>7. CASE LeaseExpires(e)
    BY <1>t, <1>7 DEF LeaseExpires, Expire, writers, SealsKept, LedgerTypeOK, LeaseRow
  <1>8. CASE SweepExpired(e) \/ WorkerRetired(e)
    BY <1>0, <1>t, <1>8, ReconcileSeals DEF SweepExpired, WorkerRetired, LedgerStep, writers
  <1> QED BY <1>1, <1>2, <1>3, <1>4, <1>5, <1>6, <1>7, <1>8

\* Marking an outbox row published closes nobody.
LEMMA PublishedSeals ==
    ASSUME LedgerTypeOK, NEW e, Published(e) \/ UNCHANGED lease
    PROVE  SealsKept(lease, lease')
  <1>1. CASE Published(e)
    BY <1>1 DEF Published, SealsKept, LedgerTypeOK, LeaseRow
  <1>2. CASE UNCHANGED lease
    BY <1>2 DEF SealsKept
  <1> QED BY <1>1, <1>2

\* Neither does an attempt of the publication control: the record has to be
\* projected first.
LEMMA ControlSeals ==
    ASSUME TypeOK, ControlNext
    PROVE  SealsKept(lease, lease') /\ log' = log
  <1>t. LedgerTypeOK
    BY TypeParts
  <1>1. ASSUME NEW e \in 1..leaseEpoch, ControlSkips(e)
        PROVE  SealsKept(lease, lease') /\ log' = log
    BY <1>t, <1>1, PublishedSeals DEF ControlSkips, LedgerStep, writers
  <1>2. ASSUME NEW k \in Controls, NEW e \in 1..leaseEpoch, ControlBegins(k, e)
        PROVE  SealsKept(lease, lease') /\ log' = log
    BY <1>2 DEF ControlBegins, BeginOpen, ledger, SealsKept
  <1>3. ASSUME NEW k \in Controls, ControlRefused(k) \/ ControlReceipt(k)
        PROVE  SealsKept(lease, lease') /\ log' = log
    <2>1. Published(scope[k]) \/ UNCHANGED lease
      BY <1>3 DEF ControlRefused, ControlReceipt
    <2>2. log' = log
      BY <1>3 DEF ControlRefused, ControlReceipt, CloseWriter
    <2> QED BY <1>t, <2>1, <2>2, PublishedSeals
  <1>4. ASSUME NEW k \in Controls,
               \/ ControlInitializes(k) \/ ControlOpens(k) \/ ControlAppends(k)
               \/ ControlFails(k) \/ AppendFailed(k) \/ InDoubt(k)
        PROVE  SealsKept(lease, lease') /\ log' = log
    <2>1. /\ UNCHANGED ledger
          /\ \/ InitTransactions(k) \/ FinishOpen(k) \/ Submit(k, SealFact(scope[k]))
             \/ CloseWriter(k) \/ AppendFails(k) \/ AppendInDoubt(k)
      BY <1>4, Zenon DEF ControlInitializes, ControlOpens, ControlAppends, ControlFails,
           AppendFailed, InDoubt, WriterStep
    <2> QED BY <2>1 DEF ledger, SealsKept, InitTransactions, FinishOpen, Submit, CloseWriter,
                        AppendFails, AppendInDoubt
  <1> QED BY <1>1, <1>2, <1>3, <1>4, Zenon DEF ControlNext

\* The broker only adds the record of the open transaction.
LEMMA BrokerSeals ==
    ASSUME BrokerNext
    PROVE  SealsKept(lease, lease') /\ LogGrows
  <1>1. ASSUME NEW t \in transaction, Acknowledged(t) \/ ReplyLost(t)
        PROVE  SealsKept(lease, lease') /\ LogGrows
    <2>1. PICK acknowledged \in BOOLEAN : Commit(t, acknowledged)
      BY <1>1 DEF Acknowledged, ReplyLost
    <2>2. UNCHANGED lease
      BY <1>1 DEF Acknowledged, ReplyLost, WriterStep, ledger
    <2> QED BY <2>1, <2>2 DEF SealsKept, LogGrows, Commit
  <1>2. CASE Aborted
    BY <1>2 DEF Aborted, Abort, WriterStep, ledger, SealsKept, LogGrows
  <1> QED BY <1>1, <1>2 DEF BrokerNext

-----------------------------------------------------------------------------
(* Transactions that close a writer.                                         *)

\* Closing a writer and releasing its idle lease, at the offset of the record.
LEMMA CloseAndReleaseSeals ==
    ASSUME LedgerTypeOK, NEW i \in Nat \ {0}, NEW e \in Leases, NEW runs
    PROVE  SealedAt(lease, ReleaseIdle(Closed(e, i), runs, e), i, e)
  <1>1. Closed(e, i) \in [Leases -> LeaseRow] /\ SealedAt(lease, Closed(e, i), i, e)
    <2>1. ASSUME NEW d \in Leases, Closed(e, i)[d].seal # lease[d].seal
          PROVE  d = e /\ Closed(e, i)[d].seal = i
      BY <2>1 DEF Closed, LedgerTypeOK, LeaseRow
    <2> QED BY <2>1, ClosedKeeps DEF SealedAt
  <1>2. SealsKept(Closed(e, i), ReleaseIdle(Closed(e, i), runs, e))
    BY <1>1, ReleaseIdleSeals
  <1> QED BY <1>1, <1>2 DEF SealsKept, SealedAt

\* The Projector closes at most the writer of the record it reads, at its offset,
\* and only for a work_finished or a seal.
LEMMA ProjectorSeals ==
    ASSUME TypeOK, ProjectCommit \/ ProjectFinish \/ ProjectSeal
    PROVE  /\ log' = log
           /\ \/ SealsKept(lease, lease')
              \/ SealedAt(lease, lease', pos, Record.writer) /\ Closes(pos, Record.writer)
  <1> DEFINE e == Record.writer
  <1>t. LedgerTypeOK
    BY TypeParts
  <1>0. pos \in DOMAIN log /\ pos \in Nat \ {0} /\ log' = log
    BY DEF ProjectCommit, ProjectFinish, ProjectSeal, Projects, TypeOK, ProjectorStep, writers
  <1>1. e \in Leases
    BY <1>0 DEF Record, TypeOK, Facts
  <1>2. CASE ProjectCommit
    BY <1>0, <1>2 DEF ProjectCommit, ApplyCommit, ledger, SealsKept
  <1>3. CASE ProjectFinish
    <2>1. Closes(pos, e)
      BY <1>0, <1>3 DEF ProjectFinish, Projects, Record, Closes
    <2>2. SealsKept(lease, lease') \/ SealedAt(lease, lease', pos, e)
      <3>1. CASE RecordOnly(pos) \/ FinishOverruled(pos, e)
        BY <3>1 DEF RecordOnly, FinishOverruled, SealsKept
      <3>2. CASE FinishSettles(pos, e, Record.outcome)
        BY <1>t, <1>0, <1>1, <3>2 DEF FinishSettles, SealedAt, LedgerTypeOK, LeaseRow
      <3> QED BY <1>3, <3>1, <3>2 DEF ProjectFinish
    <2> QED BY <1>0, <2>1, <2>2
  <1>4. CASE ProjectSeal
    <2>1. Closes(pos, e)
      BY <1>0, <1>4 DEF ProjectSeal, Projects, Record, Closes
    <2>2. SealsKept(lease, lease') \/ SealedAt(lease, lease', pos, e)
      <3>1. CASE RecordOnly(pos)
        BY <3>1 DEF RecordOnly, SealsKept
      <3>2. CASE SealSettled(pos, e)
        <4>1. SealsKept(lease, lease)
          BY DEF SealsKept
        <4> QED BY <1>t, <1>0, <1>1, <3>2, <4>1, CloseAndReleaseSeals DEF SealSettled
      <3>3. CASE SealRecovers(pos, e) \/ SealTerminates(pos, e)
        <4>1. \E runs : lease' = ReleaseIdle(Closed(e, pos), runs, e)
          BY <3>3, Zenon DEF SealRecovers, SealTerminates
        <4> QED BY <1>t, <1>0, <1>1, <4>1, CloseAndReleaseSeals
      <3> QED BY <1>4, <3>1, <3>2, <3>3 DEF ProjectSeal
    <2> QED BY <1>0, <2>1, <2>2
  <1> QED BY <1>2, <1>3, <1>4

-----------------------------------------------------------------------------
(* The closures of every reachable state.                                    *)

\* A record that closes a writer stays where it is.
LEMMA ClosesStays ==
    ASSUME TypeOK, LogGrows, NEW i, NEW e, Closes(i, e)
    PROVE  Closes(i, e)'
  <1>1. CASE log' = log
    BY <1>1 DEF Closes
  <1>2. ASSUME NEW t \in transaction, log' = Append(log, t.fact)
        PROVE  Closes(i, e)'
    <2>1. i \in 1..Len(log) /\ log'[i] = log[i] /\ i \in DOMAIN log'
      BY <1>2 DEF Closes, TypeOK
    <2> QED BY <2>1 DEF Closes
  <1> QED BY <1>1, <1>2 DEF LogGrows

\* Every step keeps the closures where the log has them.
LEMMA ClosureKept ==
    ASSUME TypeOK, ClosureInv, [Next]_vars
    PROVE  ClosureInv'
  <1>1. ASSUME SealsKept(lease, lease'), LogGrows
        PROVE  ClosureInv'
    BY <1>1, ClosesStays DEF SealsKept, ClosureInv
  <1>2. ASSUME log' = log, SealedAt(lease, lease', pos, Record.writer), Closes(pos, Record.writer)
        PROVE  ClosureInv'
    <2>1. LogGrows
      BY <1>2 DEF LogGrows
    <2> QED BY <1>2, <2>1, ClosesStays DEF SealedAt, ClosureInv
  <1>3. CASE LedgerNext
    BY <1>1, <1>3, RunSeals DEF LogGrows
  <1>4. CASE WorkerNext
    BY <1>1, <1>4, WorkerSeals DEF LogGrows
  <1>5. CASE ControlNext
    BY <1>1, <1>5, ControlSeals DEF LogGrows
  <1>6. CASE BrokerNext
    BY <1>1, <1>6, BrokerSeals
  <1>7. CASE ProjectCommit \/ ProjectFinish \/ ProjectSeal
    BY <1>1, <1>2, <1>7, ProjectorSeals DEF LogGrows
  <1>8. CASE CommitProgress \/ ProjectorRestarts \/ UNCHANGED vars
    BY <1>1, <1>8 DEF CommitProgress, ProjectorRestarts, vars, ledger, writers,
                      SealsKept, LogGrows
  <1> QED BY <1>3, <1>4, <1>5, <1>6, <1>7, <1>8 DEF Next, ProjectorNext

\* For any number of Runs, leases, attempts and failures, a lease that has a
\* successor is released, and its writer was closed by a work_finished or an
\* execution_seal of its own that the log holds (finishWorkIn, #seal,
\* releaseIdleSessionLease, acquireInTransaction).
THEOREM ClosureBeforeSuccessorHolds == Spec => []ClosureBeforeSuccessor
  <1> DEFINE Inv == IInv /\ ClosureInv
  <1>1. Init => Inv
    <2>1. Init => ClosureInv
      BY DEF Init, LedgerInit, NoLease, ClosureInv
    <2> QED BY <2>1, InitKeeps
  <1>2. Inv /\ [Next]_vars => Inv'
    BY NextKeeps, ClosureKept DEF IInv
  <1>3. Inv => ClosureBeforeSuccessor
    <2> SUFFICES ASSUME IInv, ClosureInv, NEW e \in 1..(leaseEpoch - 1)
                 PROVE  lease[e].released /\ Closes(lease[e].seal, e)
      BY DEF ClosureBeforeSuccessor, Closes
    <2>1. e \in 1..leaseEpoch /\ lease[e].released
      BY DEF IInv, OrderInv, LeaseInv, TypeOK, LedgerTypeOK
    <2>2. e \in Leases
      BY <2>1, Issued DEF IInv
    <2> QED BY <2>1, <2>2 DEF IInv, OrderInv, LeaseInv, ClosureInv
  <1> QED
    <2> HIDE DEF Inv
    <2> QED BY <1>1, <1>2, <1>3, PTL DEF Spec

-----------------------------------------------------------------------------
(* The rows.                                                                 *)

\* The terminal event is the one of the offset that sealed the output.
ToldOf(row) ==
    /\ row.terminals = IF row.sealedAt = 0 THEN {} ELSE {<<row.sealedAt, row.state>>}
    /\ row.sealedAt # 0 => IsTerminalRunState(row.state)

Told == \A r \in Runs : ToldOf(run[r])

\* A Run holds the lease that was issued for it last, if any.
Held ==
    /\ \A e \in 1..leaseEpoch : lease[e].run \in Runs
    /\ \A r \in Runs :
          /\ run[r].lease \in 0..leaseEpoch
          /\ run[r].lease # 0 =>
                /\ lease[run[r].lease].run = r
                /\ \A e \in 1..leaseEpoch : lease[e].run = r => e <= run[r].lease

\* A seal that was asked for names the lease that was given up with it.
GivenUp ==
    \A r \in Runs :
        run[r].sealId # 0 =>
            /\ run[r].sealId = run[r].lease /\ run[r].released
            /\ lease[run[r].sealId].failed
            /\ lease[run[r].sealId].outbox = "terminal" => run[r].state = "failed"

Failed ==
    \A e \in Leases :
        lease[e].failed =>
            /\ e <= leaseEpoch /\ lease[e].outbox # "none"
            /\ run[lease[e].run].lease = e => run[lease[e].run].sealId = e

RowsInv == Told /\ Held /\ GivenUp /\ Failed

-----------------------------------------------------------------------------
(* The log.                                                                  *)

\* A seal repeats what the outbox row of its lease asks for.
Asked(f) == lease[f.writer].failed /\ f.outcome = lease[f.writer].outbox

\* Nobody appends for lease e any more, except to seal it.
Silent(e) ==
    /\ \A t \in transaction : t.client # e
    /\ phase[e] = "open" /\ Unfenced(e) => worker[e] = "completed"

\* Whose the open transaction is.
SenderInv ==
    \A t \in transaction :
        IF t.fact.kind = "seal" THEN t.client \in Controls /\ Asked(t.fact)
        ELSE t.client = t.fact.writer

\* The publication control only opens a writer for a lease that was given up.
ControlInv ==
    \A k \in Controls : phase[k] \in {"open", "sending"} => lease[scope[k]].failed

ClosedLog ==
    \A i, j \in DOMAIN log :
        i < j /\ log[i].kind # "commit" /\ log[i].writer = log[j].writer => log[j].kind = "seal"

RecordInv ==
    \A i \in DOMAIN log :
        /\ log[i].kind = "seal" => Asked(log[i])
        /\ log[i].kind # "seal" => phase[log[i].writer] \in {"open", "sending", "closed"}
        /\ log[i].kind # "commit" => Silent(log[i].writer)

SilenceInv == SenderInv /\ ControlInv /\ RecordInv /\ ClosedLog

-----------------------------------------------------------------------------
(* The Projector.                                                            *)

Ended(e) == IsTerminalRunState(run[lease[e].run].state)

\* A work_finished leaves its Run with the lease that wrote it, or terminal.
ResultKept ==
    \A i \in DOMAIN log :
        log[i].kind = "finish" =>
            /\ run[lease[log[i].writer].run].lease = log[i].writer \/ Ended(log[i].writer)
            /\ i < pos \/ i < groupOffset => Ended(log[i].writer)

\* A lease is only taken from its Run behind a seal of it.
TakenBehindSeal ==
    \A e \in 1..leaseEpoch :
        run[lease[e].run].lease # e =>
            \E i \in DOMAIN log : log[i].kind = "seal" /\ log[i].writer = e

Offsets == pos <= Len(log) + 1 /\ groupOffset <= Len(log) + 1

ResultInv == ResultKept /\ TakenBehindSeal /\ Offsets /\ NoReexecution

-----------------------------------------------------------------------------
(* What a transaction may do to the rows.                                    *)

\* A row that keeps its lease, its seal and its terminal event.
Like(x, y) ==
    /\ y.lease = x.lease /\ y.sealId = x.sealId
    /\ y.sealedAt = x.sealedAt /\ y.terminals = x.terminals
    /\ x.released => y.released

\* So does its end, if it came.
Steady(x, y) == Like(x, y) /\ (IsTerminalRunState(x.state) => y.state = x.state)

Same(x, y) == Like(x, y) /\ y.state = x.state

Others(r) == \A p \in Runs \ {r} : Steady(run[p], run'[p])

SameLease(x, y) == y.run = x.run /\ y.failed = x.failed /\ y.outbox = x.outbox

LeasesSteady == leaseEpoch' = leaseEpoch /\ \A e \in Leases : SameLease(lease[e], lease'[e])

Rests == (\A r \in Runs : Steady(run[r], run'[r])) /\ LeasesSteady

Claims(r) ==
    LET e == leaseEpoch + 1 IN
    /\ e \in Leases /\ leaseEpoch' = e
    /\ lease'[e].run = r /\ lease'[e].failed = lease[e].failed /\ lease'[e].outbox = lease[e].outbox
    /\ \A d \in Leases \ {e} : SameLease(lease[d], lease'[d])
    /\ run[r].state = "queued" /\ run[r].lease = 0
    /\ run'[r].state = "running" /\ run'[r].lease = e
    /\ Like([run[r] EXCEPT !.lease = e], run'[r]) /\ Others(r)

Gives(e, recover) ==
    LET r == lease[e].run IN
    /\ e \in 1..leaseEpoch /\ leaseEpoch' = leaseEpoch
    /\ lease'[e].run = r /\ lease'[e].failed
    /\ lease'[e].outbox = IF recover THEN "recover" ELSE "terminal"
    /\ \A d \in Leases \ {e} : SameLease(lease[d], lease'[d])
    /\ run[r].lease = e /\ run[r].sealId = 0
    /\ IF recover THEN run'[r].state = run[r].state
                  ELSE ~IsTerminalRunState(run[r].state) /\ run'[r].state = "failed"
    /\ run'[r].sealId = e /\ run'[r].released /\ run'[r].lease = e
    /\ run'[r].sealedAt = run[r].sealedAt /\ run'[r].terminals = run[r].terminals
    /\ Others(r)

\* The output of r is sealed at offset i with outcome o.
Settles(r, i, o) ==
    /\ run[r].sealedAt = 0 /\ run'[r].sealedAt = i
    /\ run'[r].terminals = run[r].terminals \cup {<<i, o>>}
    /\ run'[r].state = o /\ (IsTerminalRunState(run[r].state) => run[r].state = o)
    /\ run'[r].lease = run[r].lease /\ run'[r].sealId = run[r].sealId /\ run'[r].released
    /\ Others(r) /\ LeasesSteady

Requeues(r) ==
    /\ ~IsTerminalRunState(run[r].state) /\ run'[r].state = "queued"
    /\ run[r].sealedAt = 0 /\ run'[r].sealedAt = 0 /\ run'[r].terminals = run[r].terminals
    /\ run'[r].lease = 0 /\ run'[r].sealId = 0
    /\ Others(r) /\ LeasesSteady

\* A row that keeps its end tells it as before.
LEMMA SteadyTold ==
    ASSUME NEW x, NEW y, Steady(x, y), ToldOf(x)
    PROVE  ToldOf(y)
  BY DEF Steady, Like, ToldOf

\* Every move keeps what the rows agree on: steps that change none of it,
LEMMA RestsKeeps ==
    ASSUME TypeOK, RowsInv, Rests
    PROVE  RowsInv'
  <1>1. /\ \A r \in Runs : run[r] \in RunRow
        /\ leaseEpoch \in 0..MaxLease
    BY DEF TypeOK, LedgerTypeOK
  <1>2. Told'
    BY SteadyTold DEF RowsInv, Told, Rests
  <1>3. Held'
    BY <1>1, LedgerAssumption DEF RowsInv, Held, Rests, LeasesSteady, SameLease, Steady, Like, Leases
  <1>4. GivenUp'
    <2>1. ASSUME NEW p \in Runs, run'[p].sealId # 0
          PROVE  /\ run'[p].sealId = run'[p].lease /\ run'[p].released
                 /\ lease'[run'[p].sealId].failed
                 /\ (lease'[run'[p].sealId].outbox = "terminal" => run'[p].state = "failed")
      <3>1. Steady(run[p], run'[p])
        BY DEF Rests
      <3>2. run[p].sealId \in Leases
        BY <1>1, <2>1, <3>1, LedgerAssumption DEF RunRow, Leases, Steady, Like
      <3> QED BY <2>1, <3>1, <3>2 DEF Rests, LeasesSteady, SameLease, RowsInv, GivenUp,
                                     Steady, Like, IsTerminalRunState
    <2> QED BY <2>1 DEF GivenUp
  <1>5. Failed'
    <2>1. ASSUME NEW d \in Leases, lease'[d].failed
          PROVE  d <= leaseEpoch' /\ lease'[d].outbox # "none"
                 /\ (run'[lease'[d].run].lease = d => run'[lease'[d].run].sealId = d)
      <3>1. SameLease(lease[d], lease'[d]) /\ leaseEpoch' = leaseEpoch
        BY DEF Rests, LeasesSteady
      <3>2. lease[d].run \in Runs
        BY <1>1, <2>1, <3>1, LedgerAssumption DEF RowsInv, Held, Failed, Leases, SameLease
      <3> QED BY <2>1, <3>1, <3>2 DEF Rests, Steady, Like, SameLease, RowsInv, Failed
    <2> QED BY <2>1 DEF Failed
  <1> QED BY <1>2, <1>3, <1>4, <1>5 DEF RowsInv

\* a claim,
LEMMA ClaimsKeeps ==
    ASSUME TypeOK, RowsInv, NEW r \in Runs, Claims(r)
    PROVE  RowsInv'
  <1> DEFINE e == leaseEpoch + 1
  <1>1. /\ \A p \in Runs : run[p] \in RunRow
        /\ leaseEpoch \in 0..MaxLease /\ e \in Leases /\ ~(e \in 1..leaseEpoch)
    BY DEF TypeOK, LedgerTypeOK, Claims
  <1>2. /\ run'[r].sealId = run[r].sealId /\ run'[r].sealedAt = run[r].sealedAt
        /\ run'[r].terminals = run[r].terminals
    BY <1>1 DEF Claims, Like, RunRow
  <1>3. run[r].sealId = 0 /\ run[r].sealedAt = 0
    BY DEF RowsInv, GivenUp, Told, ToldOf, Claims, IsTerminalRunState
  <1>4. Told'
    <2>1. ASSUME NEW p \in Runs, p # r
          PROVE  ToldOf(run'[p])
      BY <2>1, SteadyTold DEF RowsInv, Told, Claims, Others
    <2>2. ToldOf(run'[r])
      <3>1. run[r].terminals = {}
        BY <1>3 DEF RowsInv, Told, ToldOf
      <3> QED BY <1>2, <1>3, <3>1 DEF ToldOf
    <2> QED BY <2>1, <2>2 DEF Told
  <1>5. Held'
    <2>1. \A d \in 1..leaseEpoch : d \in Leases /\ d # e /\ lease'[d].run = lease[d].run
      BY <1>1, LedgerAssumption DEF Claims, SameLease, Leases
    <2>2. \A p \in Runs \ {r} : run'[p].lease = run[p].lease
      BY DEF Claims, Others, Steady, Like
    <2>3. lease'[e].run = r /\ run'[r].lease = e /\ leaseEpoch' = e
      BY DEF Claims
    <2> QED BY <1>1, <2>1, <2>2, <2>3 DEF RowsInv, Held
  <1>6. GivenUp'
    BY <1>1, <1>2, <1>3, LedgerAssumption
       DEF RowsInv, GivenUp, Held, Claims, Others, SameLease, Steady, Like, Leases,
           IsTerminalRunState
  <1>7. Failed'
    <2>1. ASSUME NEW d \in Leases, lease'[d].failed
          PROVE  d <= leaseEpoch' /\ lease'[d].outbox # "none"
                 /\ (run'[lease'[d].run].lease = d => run'[lease'[d].run].sealId = d)
      <3>1. lease[d].failed /\ lease'[d].outbox = lease[d].outbox
        BY <2>1 DEF Claims, SameLease
      <3>2. d \in 1..leaseEpoch /\ d # e
        BY <3>1, <1>1, LedgerAssumption DEF RowsInv, Failed, Leases
      <3>3. lease'[d].run = lease[d].run /\ lease[d].run \in Runs
        BY <3>2 DEF Claims, SameLease, RowsInv, Held
      <3>4. CASE lease[d].run = r
        BY <1>1, <3>1, <3>2, <3>3, <3>4 DEF Claims, RowsInv, Failed
      <3>5. CASE lease[d].run # r
        BY <1>1, <3>1, <3>2, <3>3, <3>5 DEF Claims, RowsInv, Failed, Others, Steady, Like
      <3> QED BY <3>4, <3>5
    <2> QED BY <2>1 DEF Failed
  <1> QED BY <1>4, <1>5, <1>6, <1>7 DEF RowsInv

\* an execution given up,
LEMMA GivesKeeps ==
    ASSUME TypeOK, RowsInv, NEW e \in Leases, NEW recover \in BOOLEAN, Gives(e, recover)
    PROVE  RowsInv'
  <1> DEFINE r == lease[e].run
  <1>0. e \in 1..leaseEpoch /\ run[r].lease = e /\ run[r].sealId = 0
    BY DEF Gives
  <1>a. r \in Runs
    BY <1>0 DEF RowsInv, Held
  <1>b. ~lease[e].failed
    BY <1>0 DEF RowsInv, Failed
  <1>1. /\ \A p \in Runs : run[p] \in RunRow
        /\ leaseEpoch \in 0..MaxLease /\ r \in Runs /\ e \in 1..leaseEpoch
        /\ ~lease[e].failed
    BY <1>0, <1>a, <1>b DEF TypeOK, LedgerTypeOK
  <1>2. Told'
    <2>1. ASSUME NEW p \in Runs
          PROVE  /\ run'[p].sealedAt = run[p].sealedAt /\ run'[p].terminals = run[p].terminals
                 /\ (run[p].sealedAt # 0 => run'[p].state = run[p].state)
      <3>1. CASE p = r
        BY <1>1, <3>1 DEF Gives, RowsInv, Told, ToldOf
      <3>2. CASE p # r
        BY <3>2 DEF Gives, Others, Steady, Like, RowsInv, Told, ToldOf
      <3> QED BY <3>1, <3>2
    <2> QED BY <2>1 DEF RowsInv, Told, ToldOf
  <1>3. Held'
    BY <1>1, LedgerAssumption DEF RowsInv, Held, Gives, Others, SameLease, Steady, Like, Leases
  <1>4. GivenUp'
    <2>1. ASSUME NEW p \in Runs, run'[p].sealId # 0
          PROVE  /\ run'[p].sealId = run'[p].lease /\ run'[p].released
                 /\ lease'[run'[p].sealId].failed
                 /\ (lease'[run'[p].sealId].outbox = "terminal" => run'[p].state = "failed")
      <3>1. CASE p = r
        BY <1>1, <2>1, <3>1 DEF Gives
      <3>2. CASE p # r
        <4>1. Steady(run[p], run'[p])
          BY <3>2 DEF Gives, Others
        <4>2. /\ run[p].sealId # 0 /\ run[p].sealId = run[p].lease /\ run[p].released
              /\ lease[run[p].sealId].failed
              /\ (lease[run[p].sealId].outbox = "terminal" => run[p].state = "failed")
          BY <2>1, <4>1 DEF Steady, Like, RowsInv, GivenUp
        <4>3. run[p].sealId \in Leases \ {e}
          BY <1>1, <4>2, LedgerAssumption DEF RunRow, Leases
        <4> QED BY <4>1, <4>2, <4>3 DEF Gives, SameLease, Steady, Like, IsTerminalRunState
      <3> QED BY <3>1, <3>2
    <2> QED BY <2>1 DEF GivenUp
  <1>5. Failed'
    <2>1. ASSUME NEW d \in Leases, lease'[d].failed
          PROVE  d <= leaseEpoch' /\ lease'[d].outbox # "none"
                 /\ (run'[lease'[d].run].lease = d => run'[lease'[d].run].sealId = d)
      <3>1. CASE d = e
        BY <1>1, <3>1 DEF Gives
      <3>2. CASE d # e
        <4>1. lease[d].failed /\ lease'[d].run = lease[d].run /\ lease'[d].outbox = lease[d].outbox
          BY <2>1, <3>2 DEF Gives, SameLease
        <4>2. lease[d].run \in Runs
          BY <1>1, <4>1, LedgerAssumption DEF RowsInv, Held, Failed, Leases
        <4>3. CASE lease[d].run = r
          BY <1>1, <3>2, <4>1, <4>3 DEF Gives, RowsInv, Failed
        <4>4. CASE lease[d].run # r
          BY <1>1, <4>1, <4>2, <4>4 DEF Gives, RowsInv, Failed, Others, Steady, Like
        <4> QED BY <4>3, <4>4
      <3> QED BY <3>1, <3>2
    <2> QED BY <2>1 DEF Failed
  <1> QED BY <1>2, <1>3, <1>4, <1>5 DEF RowsInv

\* an output sealed with the outcome its row has,
LEMMA SettlesKeeps ==
    ASSUME TypeOK, RowsInv, NEW r \in Runs, NEW i \in Nat \ {0}, NEW o \in Outcome,
           Settles(r, i, o)
    PROVE  RowsInv'
  <1>1. /\ \A p \in Runs : run[p] \in RunRow
        /\ leaseEpoch \in 0..MaxLease
    BY DEF TypeOK, LedgerTypeOK
  <1>2. Told'
    <2>1. ASSUME NEW p \in Runs, p # r
          PROVE  ToldOf(run'[p])
      BY <2>1, SteadyTold DEF RowsInv, Told, Settles, Others
    <2>2. ToldOf(run'[r])
      <3>1. run[r].terminals = {}
        BY DEF RowsInv, Told, ToldOf, Settles
      <3>2. IsTerminalRunState(o)
        BY DEF IsTerminalRunState, Outcome
      <3>3. run'[r].sealedAt = i /\ run'[r].terminals = {<<i, o>>} /\ run'[r].state = o
        BY <3>1 DEF Settles
      <3> QED BY <3>2, <3>3 DEF ToldOf
    <2> QED BY <2>1, <2>2 DEF Told
  <1>3. Held'
    BY <1>1, LedgerAssumption DEF RowsInv, Held, Settles, LeasesSteady, Others, SameLease, Steady, Like, Leases
  <1>4. GivenUp'
    <2>1. ASSUME NEW p \in Runs, run'[p].sealId # 0
          PROVE  /\ run'[p].sealId = run'[p].lease /\ run'[p].released
                 /\ lease'[run'[p].sealId].failed
                 /\ (lease'[run'[p].sealId].outbox = "terminal" => run'[p].state = "failed")
      <3>1. /\ run'[p].sealId = run[p].sealId /\ run'[p].lease = run[p].lease
            /\ (run[p].released => run'[p].released)
            /\ (run[p].state = "failed" => run'[p].state = "failed")
        BY DEF Settles, Others, Steady, Like, IsTerminalRunState
      <3>2. run[p].sealId \in Leases
        BY <1>1, <2>1, <3>1, LedgerAssumption DEF RunRow, Leases
      <3> QED BY <2>1, <3>1, <3>2 DEF Settles, LeasesSteady, SameLease, RowsInv, GivenUp
    <2> QED BY <2>1 DEF GivenUp
  <1>5. Failed'
    <2>1. \A p \in Runs : run'[p].sealId = run[p].sealId /\ run'[p].lease = run[p].lease
      BY DEF Settles, Others, Steady, Like
    <2>2. \A d \in Leases : lease[d].failed => lease[d].run \in Runs
      BY <1>1, LedgerAssumption DEF RowsInv, Held, Failed, Leases
    <2> QED BY <2>1, <2>2 DEF Settles, LeasesSteady, SameLease, RowsInv, Failed
  <1> QED BY <1>2, <1>3, <1>4, <1>5 DEF RowsInv

\* and a Run queued again.
LEMMA RequeuesKeeps ==
    ASSUME TypeOK, RowsInv, NEW r \in Runs, Requeues(r)
    PROVE  RowsInv'
  <1>1. /\ \A p \in Runs : run[p] \in RunRow
        /\ leaseEpoch \in 0..MaxLease
    BY DEF TypeOK, LedgerTypeOK
  <1>2. Told'
    <2>1. ASSUME NEW p \in Runs, p # r
          PROVE  ToldOf(run'[p])
      BY <2>1, SteadyTold DEF RowsInv, Told, Requeues, Others
    <2>2. ToldOf(run'[r])
      BY DEF RowsInv, Told, ToldOf, Requeues
    <2> QED BY <2>1, <2>2 DEF Told
  <1>3. Held'
    BY <1>1, LedgerAssumption DEF RowsInv, Held, Requeues, LeasesSteady, Others, SameLease, Steady, Like, Leases
  <1>4. GivenUp'
    <2>1. ASSUME NEW p \in Runs, run'[p].sealId # 0
          PROVE  /\ run'[p].sealId = run'[p].lease /\ run'[p].released
                 /\ lease'[run'[p].sealId].failed
                 /\ (lease'[run'[p].sealId].outbox = "terminal" => run'[p].state = "failed")
      <3>1. p # r /\ Steady(run[p], run'[p])
        BY <2>1 DEF Requeues, Others
      <3>2. run[p].sealId \in Leases
        BY <1>1, <2>1, <3>1, LedgerAssumption DEF RunRow, Leases, Steady, Like
      <3> QED BY <2>1, <3>1, <3>2 DEF Requeues, LeasesSteady, SameLease, RowsInv, GivenUp,
                                     Steady, Like, IsTerminalRunState
    <2> QED BY <2>1 DEF GivenUp
  <1>5. Failed'
    <2>1. ASSUME NEW d \in Leases, lease'[d].failed
          PROVE  d <= leaseEpoch' /\ lease'[d].outbox # "none"
                 /\ (run'[lease'[d].run].lease = d => run'[lease'[d].run].sealId = d)
      <3>1. SameLease(lease[d], lease'[d]) /\ leaseEpoch' = leaseEpoch
        BY DEF Requeues, LeasesSteady
      <3>2. lease[d].run \in Runs /\ d # 0
        BY <1>1, <2>1, <3>1, LedgerAssumption DEF RowsInv, Held, Failed, Leases, SameLease
      <3>3. CASE lease[d].run = r
        BY <2>1, <3>1, <3>2, <3>3 DEF Requeues, SameLease, RowsInv, Failed
      <3>4. CASE lease[d].run # r
        BY <2>1, <3>1, <3>2, <3>4 DEF Requeues, Others, Steady, Like, SameLease, RowsInv, Failed
      <3> QED BY <3>3, <3>4
    <2> QED BY <2>1 DEF Failed
  <1> QED BY <1>2, <1>3, <1>4, <1>5 DEF RowsInv

-----------------------------------------------------------------------------
(* Which move a transaction is.                                              *)

\* Advancing the lane only changes who is ready.
LEMMA AdvanceSame ==
    ASSUME NEW runs \in [Runs -> RunRow], NEW s, NEW p \in Runs
    PROVE  Same(runs[p], AdvanceLaneReadiness(runs, s)[p])
  <1>1. runs[p] \in RunRow
    OBVIOUS
  <1>2. Same(runs[p], runs[p]) /\ Same(runs[p], [runs[p] EXCEPT !.ready = TRUE])
    BY <1>1 DEF Same, Like, RunRow
  <1> QED BY <1>2 DEF AdvanceLaneReadiness

\* Rows of one Run changed and the lane advanced: the others are as they were.
LEMMA OneRowChanges ==
    ASSUME LedgerTypeOK, NEW r \in Runs, NEW row \in RunRow, NEW s,
           \/ run' = [run EXCEPT ![r] = row]
           \/ run' = AdvanceLaneReadiness([run EXCEPT ![r] = row], s)
    PROVE  Same(row, run'[r]) /\ Others(r)
  <1> DEFINE runs == [run EXCEPT ![r] = row]
  <1>1. /\ runs \in [Runs -> RunRow] /\ runs[r] = row
        /\ \A p \in Runs \ {r} : runs[p] = run[p]
    BY DEF LedgerTypeOK
  <1>2. \A p \in Runs : Same(runs[p], run'[p])
    <2>1. CASE run' = runs
      BY <2>1 DEF Same, Like
    <2>2. CASE run' = AdvanceLaneReadiness(runs, s)
      BY <1>1, <2>2, AdvanceSame
    <2> QED BY <2>1, <2>2
  <1> QED BY <1>1, <1>2 DEF Others, Same, Steady

\* Marks of a lease that are neither its Run nor its failure.
LEMMA ReleaseSame ==
    ASSUME NEW leases \in [Leases -> LeaseRow], NEW runs, NEW e \in Leases, NEW d \in Leases
    PROVE  SameLease(leases[d], ReleaseIdle(leases, runs, e)[d])
  BY DEF ReleaseIdle, SameLease, LeaseRow

\* Closing the writer as well.
LEMMA ClosedSame ==
    ASSUME LedgerTypeOK, NEW i \in Nat \ {0}, NEW e \in Leases, NEW runs, NEW d \in Leases
    PROVE  SameLease(lease[d], ReleaseIdle(Closed(e, i), runs, e)[d])
  <1>1. Closed(e, i) \in [Leases -> LeaseRow]
    BY ClosedKeeps
  <1>2. SameLease(lease[d], Closed(e, i)[d])
    BY DEF Closed, SameLease, LedgerTypeOK, LeaseRow
  <1> QED BY <1>1, <1>2, ReleaseSame DEF SameLease

\* Steps that touch no row.
LEMMA UntouchedRests ==
    ASSUME UNCHANGED <<run, lease, leaseEpoch>>
    PROVE  Rests
  BY DEF Rests, LeasesSteady, SameLease, Steady, Like

\* Steps that change neither the leases nor the end of a Run.
LEMMA RowRests ==
    ASSUME LedgerTypeOK, NEW r \in Runs, NEW row \in RunRow, NEW s,
           \/ run' = [run EXCEPT ![r] = row]
           \/ run' = AdvanceLaneReadiness([run EXCEPT ![r] = row], s),
           Steady(run[r], row),
           LeasesSteady
    PROVE  Rests
  BY OneRowChanges DEF Rests, Others, Steady, Same, Like

\* Giving up the current execution, with the decision row makes of its Run.
LEMMA GiveUpGives ==
    ASSUME LedgerTypeOK, RowsInv, NEW e \in Leases, NEW recover \in BOOLEAN, NEW row \in RunRow,
           ActiveScope(e), GiveUp(e, row, recover), leaseEpoch' = leaseEpoch,
           Like(run[lease[e].run], row),
           IF recover THEN row.state = run[lease[e].run].state
                      ELSE ~IsTerminalRunState(run[lease[e].run].state) /\ row.state = "failed"
    PROVE  Gives(e, recover)
  <1> DEFINE r == lease[e].run
             asked == SealRequested(row, e, recover)
             given == [asked EXCEPT !.released = TRUE]
             runs == [run EXCEPT ![r] = given]
             leases == [lease EXCEPT ![e] = WriterFailed(@, recover)]
  <1>1. e \in 1..leaseEpoch /\ run[r].lease = e /\ ~run[r].released
    BY DEF ActiveScope
  <1>2. r \in Runs
    BY <1>1 DEF RowsInv, Held
  <1>3. run[r].sealId = 0 /\ row.sealId = 0
    BY <1>1, <1>2 DEF RowsInv, GivenUp, Like
  <1>4. run' = runs /\ lease' = ReleaseIdle(leases, runs, e)
    BY <1>3 DEF GiveUp
  <1>5. /\ given.sealId = e /\ given.released /\ given.lease = row.lease
        /\ given.state = row.state /\ given.sealedAt = row.sealedAt
        /\ given.terminals = row.terminals
    BY <1>3 DEF SealRequested, RunRow
  <1>6. run'[r] = given /\ \A p \in Runs \ {r} : run'[p] = run[p]
    BY <1>2, <1>4 DEF LedgerTypeOK
  <1>7. leases \in [Leases -> LeaseRow]
    BY WriterFailedKeeps DEF LedgerTypeOK
  <1>8. /\ leases[e].run = r /\ leases[e].failed
        /\ leases[e].outbox = IF recover THEN "recover" ELSE "terminal"
        /\ \A d \in Leases \ {e} : leases[d] = lease[d]
    BY DEF LedgerTypeOK, WriterFailed, LeaseRow
  <1>9. \A d \in Leases : SameLease(leases[d], lease'[d])
    BY <1>4, <1>7, ReleaseSame
  <1>10. Others(r)
    BY <1>6 DEF Others, Steady, Like
  <1>11. /\ lease'[e].run = r /\ lease'[e].failed
         /\ lease'[e].outbox = IF recover THEN "recover" ELSE "terminal"
         /\ \A d \in Leases \ {e} : SameLease(lease[d], lease'[d])
    BY <1>8, <1>9 DEF SameLease
  <1> QED BY <1>1, <1>3, <1>5, <1>6, <1>10, <1>11 DEF Gives, Like

\* What a transaction does to the rows.
Moves ==
    \/ Rests
    \/ \E r \in Runs : Claims(r)
    \/ \E e \in Leases, recover \in BOOLEAN : Gives(e, recover)
    \/ \E r \in Runs, i \in Nat \ {0}, o \in Outcome : Settles(r, i, o)
    \/ \E r \in Runs :
          /\ Requeues(r)
          /\ ProjectSeal /\ run[r].lease = Record.writer /\ lease[Record.writer].run = r

\* Admission and Stops of a Run: at most its execution is given up.
LEMMA AdmissionMoves ==
    ASSUME LedgerTypeOK, RowsInv, NEW r \in Runs,
           \/ Enqueue(r) \/ AcceptCancel(r) \/ CancelUnclaimed(r) \/ DispatchCancel(r)
           \/ StartCancel(r) \/ CancelNotStarted(r, TRUE) \/ CancelNotStarted(r, FALSE)
           \/ FailStartedCancel(r)
    PROVE  Moves
  <1>0. run[r] \in RunRow /\ leaseEpoch \in 0..MaxLease
    BY DEF LedgerTypeOK
  <1>1. CASE FailStartedCancel(r)
    <2> DEFINE e == run[r].lease
               row == [run[r] EXCEPT !.state = "failed", !.cancel = "failed"]
    <2>1. /\ ActiveScope(e) /\ GiveUp(e, row, FALSE) /\ leaseEpoch' = leaseEpoch
          /\ run[r].state = "cancel_requested"
      BY <1>1 DEF FailStartedCancel
    <2>2. e \in Leases /\ lease[e].run = r
      BY <1>0, <2>1, LedgerAssumption DEF ActiveScope, RowsInv, Held, Leases
    <2>3. row \in RunRow /\ Like(run[r], row) /\ row.state = "failed"
      BY <1>0 DEF RunRow, RunState, ControlRequestState, Like
    <2>4. ~IsTerminalRunState(run[r].state)
      BY <2>1 DEF IsTerminalRunState
    <2>5. Gives(e, FALSE)
      BY <2>1, <2>2, <2>3, <2>4, GiveUpGives
    <2> QED BY <2>2, <2>5 DEF Moves
  <1>2. CASE ~FailStartedCancel(r)
    <2>1. leaseEpoch' = leaseEpoch /\ lease' = lease
      BY <1>2 DEF Enqueue, AcceptCancel, CancelUnclaimed, DispatchCancel, StartCancel,
                  CancelNotStarted
    <2>2. LeasesSteady
      BY <2>1 DEF LeasesSteady, SameLease
    <2>3. CASE Enqueue(r)
      <3> DEFINE row == [run[r] EXCEPT !.state = "queued", !.ready = LaneReady(run, session, r)]
      <3>1. row \in RunRow
        BY <1>0, ReadyType DEF RunRow, RunState
      <3>2. Steady(run[r], row)
        BY <1>0, <2>3 DEF Enqueue, Steady, Like, RunRow, IsTerminalRunState
      <3>3. run' = [run EXCEPT ![r] = row]
        BY <2>3 DEF Enqueue, LedgerTypeOK
      <3> QED BY <2>2, <3>1, <3>2, <3>3, RowRests DEF Moves
    <2>4. CASE CancelUnclaimed(r)
      <3> DEFINE row == [run[r] EXCEPT !.state = "cancelled", !.ready = FALSE,
                                       !.cancel = "completed"]
      <3>1. row \in RunRow
        BY <1>0 DEF RunRow, RunState, ControlRequestState
      <3>2. Steady(run[r], row)
        BY <1>0, <2>4 DEF CancelUnclaimed, Steady, Like, RunRow, IsTerminalRunState
      <3>3. run' = AdvanceLaneReadiness([run EXCEPT ![r] = row], session)
        BY <2>4 DEF CancelUnclaimed, LedgerTypeOK
      <3> QED BY <2>2, <3>1, <3>2, <3>3, RowRests DEF Moves
    <2>5. CASE StartCancel(r)
      <3> DEFINE row == [run[r] EXCEPT !.state = "cancel_requested", !.cancel = "acknowledged"]
      <3>1. row \in RunRow
        BY <1>0 DEF RunRow, RunState, ControlRequestState
      <3>2. Steady(run[r], row)
        BY <1>0, <2>5 DEF StartCancel, Steady, Like, RunRow, IsTerminalRunState
      <3>3. run' = [run EXCEPT ![r] = row]
        BY <2>5 DEF StartCancel, LedgerTypeOK
      <3> QED BY <2>2, <3>1, <3>2, <3>3, RowRests DEF Moves
    <2>6. CASE \/ AcceptCancel(r) \/ DispatchCancel(r)
               \/ CancelNotStarted(r, TRUE) \/ CancelNotStarted(r, FALSE)
      <3>1. PICK c \in ControlRequestState : run' = [run EXCEPT ![r].cancel = c]
        BY <2>6 DEF AcceptCancel, DispatchCancel, CancelNotStarted, ControlRequestState
      <3> DEFINE row == [run[r] EXCEPT !.cancel = c]
      <3>2. row \in RunRow /\ Steady(run[r], row)
        BY <1>0 DEF RunRow, Steady, Like
      <3>3. run' = [run EXCEPT ![r] = row]
        BY <3>1 DEF LedgerTypeOK
      <3> QED BY <2>2, <3>2, <3>3, RowRests DEF Moves
    <2> QED BY <1>2, <2>3, <2>4, <2>5, <2>6
  <1> QED BY <1>1, <1>2

\* A claim.
LEMMA ClaimMoves ==
    ASSUME LedgerTypeOK, NEW r \in Runs, Claim(r)
    PROVE  Claims(r)
  <1> DEFINE e == leaseEpoch + 1
             row == [run[r] EXCEPT !.state = "running", !.ready = FALSE,
                                   !.recovering = FALSE, !.lease = e]
  <1>0. run[r] \in RunRow /\ lease[e] \in LeaseRow /\ e \in Leases
    BY DEF LedgerTypeOK, Claim
  <1>1. /\ run' = [run EXCEPT ![r] = row] /\ leaseEpoch' = e
        /\ run[r].state = "queued" /\ run[r].lease = 0
    BY DEF Claim, Claimable, LedgerTypeOK
  <1>2. row \in RunRow /\ row.state = "running" /\ row.lease = e
    <2>1. e \in 0..MaxLease /\ r \in 0..NumRuns /\ "running" \in RunState
      BY <1>0, LedgerAssumption DEF Leases, Runs, RunState
    <2>2. row \in RunRow
      BY <1>0, <2>1, ClaimMarks
    <2>3. row.state = "running" /\ row.lease = e
      BY <1>0 DEF RunRow
    <2> QED BY <2>2, <2>3
  <1>3. Same(row, run'[r]) /\ Others(r)
    BY <1>1, <1>2, OneRowChanges
  <1>4. Like([run[r] EXCEPT !.lease = e], row)
    BY <1>0 DEF Like, RunRow
  <1>5. /\ lease'[e].run = r /\ lease'[e].failed = lease[e].failed
        /\ lease'[e].outbox = lease[e].outbox
        /\ \A d \in Leases \ {e} : SameLease(lease[d], lease'[d])
    BY <1>0 DEF Claim, LedgerTypeOK, LeaseRow, SameLease
  <1> QED BY <1>0, <1>1, <1>2, <1>3, <1>4, <1>5 DEF Claims, Same, Like

\* What the executor and the reconcilers write for lease e.
LEMMA ExecutionMoves ==
    ASSUME LedgerTypeOK, RowsInv, NEW e \in Leases,
           \/ RequestRecovery(e) \/ ConfirmAgentExit(e) \/ Expire(e)
           \/ \E quarantine \in BOOLEAN : RecordFailure(e, quarantine)
           \/ \E requireExpired \in BOOLEAN : Reconcile(e, requireExpired)
    PROVE  Moves
  <1> DEFINE r == lease[e].run
  <1>0. leaseEpoch \in 0..MaxLease /\ leaseEpoch' = leaseEpoch /\ lease[e] \in LeaseRow
    BY DEF LedgerTypeOK, RequestRecovery, ConfirmAgentExit, Expire, RecordFailure, Reconcile
  <1>1. e \in 1..leaseEpoch
    BY DEF RequestRecovery, ConfirmAgentExit, Expire, RecordFailure, Reconcile, ActiveScope
  <1>2. r \in Runs /\ run[r] \in RunRow
    BY <1>1 DEF RowsInv, Held, LedgerTypeOK
  <1>3. Like(run[r], run[r])
    BY DEF Like
  <1>4. CASE RequestRecovery(e)
    <2>1. Gives(e, TRUE)
      BY <1>0, <1>2, <1>3, <1>4, GiveUpGives DEF RequestRecovery
    <2> QED BY <2>1 DEF Moves
  <1>5. CASE \E quarantine \in BOOLEAN : RecordFailure(e, quarantine)
    <2> DEFINE row == [run[r] EXCEPT !.state = "failed"]
    <2>1. /\ ActiveScope(e) /\ GiveUp(e, row, FALSE) /\ run[r].state = "running"
      BY <1>5 DEF RecordFailure
    <2>2. row \in RunRow /\ Like(run[r], row) /\ row.state = "failed"
      BY <1>2 DEF RunRow, RunState, Like
    <2>3. ~IsTerminalRunState(run[r].state)
      BY <2>1 DEF IsTerminalRunState
    <2>4. Gives(e, FALSE)
      BY <1>0, <2>1, <2>2, <2>3, GiveUpGives
    <2> QED BY <2>4 DEF Moves
  <1>6. CASE \E requireExpired \in BOOLEAN : Reconcile(e, requireExpired)
    <2>1. CASE IsActiveRunState(run[r].state)
      <3>1. ActiveScope(e) /\ GiveUp(e, run[r], TRUE)
        BY <1>6, <2>1 DEF Reconcile
      <3>2. Gives(e, TRUE)
        BY <1>0, <1>2, <1>3, <3>1, GiveUpGives
      <3> QED BY <3>2 DEF Moves
    <2>2. CASE ~IsActiveRunState(run[r].state)
      <3> DEFINE row == [run[r] EXCEPT !.released = TRUE]
      <3>1. run' = [run EXCEPT ![r] = row] /\ lease' = ReleaseIdle(lease, run', e)
        BY <1>6, <2>2 DEF Reconcile, LedgerTypeOK
      <3>2. row \in RunRow /\ Steady(run[r], row)
        BY <1>2 DEF RunRow, Steady, Like
      <3>3. LeasesSteady
        BY <1>0, <3>1, ReleaseSame DEF LeasesSteady, LedgerTypeOK
      <3> QED BY <1>0, <1>2, <3>1, <3>2, <3>3, RowRests DEF Moves
    <2> QED BY <2>1, <2>2
  <1>7. CASE ConfirmAgentExit(e)
    <2> DEFINE row == [run[r] EXCEPT !.exited = TRUE]
               runs == [run EXCEPT ![r] = row]
    <2>1. run' = runs \/ run' = AdvanceLaneReadiness(runs, "idle")
      BY <1>7 DEF ConfirmAgentExit, LedgerTypeOK
    <2>2. row \in RunRow /\ Steady(run[r], row)
      BY <1>2 DEF RunRow, Steady, Like
    <2>3. LeasesSteady
      BY <1>0, <1>7 DEF LeasesSteady, SameLease, ConfirmAgentExit
    <2> QED BY <1>0, <1>2, <2>1, <2>2, <2>3, RowRests DEF Moves
  <1>8. CASE Expire(e)
    <2>1. LeasesSteady
      BY <1>0, <1>8 DEF LeasesSteady, SameLease, Expire, LedgerTypeOK, LeaseRow
    <2>2. \A p \in Runs : Steady(run[p], run'[p])
      BY <1>8 DEF Expire, Steady, Like
    <2> QED BY <2>1, <2>2 DEF Moves, Rests
  <1> QED BY <1>4, <1>5, <1>6, <1>7, <1>8

-----------------------------------------------------------------------------
(* Which move a projected record is.                                         *)

\* A record is projected at an offset of the log, and the Projector goes on.
LEMMA ProjectedRecord ==
    ASSUME TypeOK, ProjectCommit \/ ProjectFinish \/ ProjectSeal
    PROVE  /\ pos \in 1..Len(log) /\ pos \in DOMAIN log /\ pos' = pos + 1
           /\ Record \in Facts /\ Record.writer \in Leases
           /\ ~Throws(pos)
           /\ UNCHANGED <<writers, workers, groupOffset>>
           /\ ProjectCommit => Record.kind = "commit"
           /\ ProjectFinish => Record.kind = "finish"
           /\ ProjectSeal => Record.kind = "seal"
  <1>1. /\ pos <= Len(log) /\ pos' = pos + 1 /\ ~Throws(pos)
        /\ UNCHANGED <<writers, workers, groupOffset>>
        /\ ProjectCommit => Record.kind = "commit"
        /\ ProjectFinish => Record.kind = "finish"
        /\ ProjectSeal => Record.kind = "seal"
    BY DEF ProjectCommit, ProjectFinish, ProjectSeal, Projects, ProjectorStep
  <1>2. pos \in 1..Len(log) /\ pos \in DOMAIN log
    BY <1>1 DEF TypeOK
  <1>3. Record \in Facts
    BY <1>2 DEF Record, TypeOK
  <1>4. Record.writer \in Leases
    BY <1>3 DEF Facts
  <1> QED BY <1>1, <1>2, <1>3, <1>4

\* A native commit settles nothing.
LEMMA CommitMoves ==
    ASSUME TypeOK, ProjectCommit
    PROVE  Rests
  <1> DEFINE e == Record.writer
             r == lease[e].run
  <1>t. LedgerTypeOK
    BY TypeParts
  <1>1. CASE UNCHANGED ledger
    BY <1>1, UntouchedRests DEF ledger
  <1>2. CASE ApplyCommit(pos, e, Record.seq)
    <2>0. lease' = lease /\ leaseEpoch' = leaseEpoch
      BY <1>2 DEF ApplyCommit
    <2>1. LeasesSteady
      BY <2>0 DEF LeasesSteady, SameLease
    <2>2. CASE r \in Runs
      <3> DEFINE row == [run[r] EXCEPT !.first = IF @ = 0 THEN pos ELSE @]
      <3>1. run' = [run EXCEPT ![r] = row] /\ run[r] \in RunRow
        BY <1>t, <1>2, <2>2 DEF ApplyCommit, LedgerTypeOK
      <3>2. row \in RunRow /\ Steady(run[r], row)
        BY <3>1 DEF RunRow, Steady, Like, TypeOK
      <3> QED BY <1>t, <2>1, <2>2, <3>1, <3>2, RowRests
    <2>3. CASE r \notin Runs
      <3>1. run' = run
        BY <1>t, <1>2, <2>3 DEF ApplyCommit, LedgerTypeOK
      <3> QED BY <2>0, <3>1, UntouchedRests
    <2> QED BY <2>2, <2>3
  <1> QED BY <1>1, <1>2 DEF ProjectCommit

\* A work_finished settles its Run, or finds it settled or given up, by a decision
\* that is as final.
LEMMA FinishMoves ==
    ASSUME TypeOK, RowsInv, LogInv, ProjectFinish
    PROVE  LET e == Record.writer  r == lease[e].run IN
           \/ FinishStale(pos, e) /\ lease[e].seal # 0 /\ Rests
           \/ ~FinishStale(pos, e) /\ Rests /\ IsTerminalRunState(run[r].state)
           \/ ~FinishStale(pos, e) /\ Settles(r, pos, Record.outcome)
  <1> DEFINE e == Record.writer
             r == lease[e].run
             o == Record.outcome
  <1>t. LedgerTypeOK
    BY TypeParts
  <1>1. /\ pos \in Nat \ {0} /\ pos \in DOMAIN log /\ e \in Leases /\ ~Throws(pos)
        /\ Record.kind = "finish" /\ Record \in Facts
    BY ProjectedRecord
  <1>2. o \in Outcome
    BY <1>1 DEF Facts
  <1>3. e \in 1..leaseEpoch
    BY <1>1, <1>t, LedgerAssumption DEF LogInv, Record, Leases, LedgerTypeOK
  <1>4. r \in Runs /\ run[r] \in RunRow /\ lease[e] \in LeaseRow
    BY <1>3, <1>t, <1>1 DEF RowsInv, Held, LedgerTypeOK
  <1>5. CASE FinishStale(pos, e)
    <2>1. RecordOnly(pos)
      BY <1>5 DEF ProjectFinish
    <2>2. Rests
      BY <2>1, UntouchedRests DEF RecordOnly
    <2>3. ~FinishThrows(pos, log[pos])
      BY <1>1 DEF Throws, Record
    <2>4. lease[e].seal # 0
      BY <1>5, <2>3 DEF FinishThrows, Record
    <2> QED BY <1>5, <2>2, <2>4
  <1>6. CASE ~FinishStale(pos, e) /\ run[r].sealedAt # 0
    <2>1. RecordOnly(pos)
      BY <1>6 DEF ProjectFinish
    <2>2. Rests
      BY <2>1, UntouchedRests DEF RecordOnly
    <2>3. IsTerminalRunState(run[r].state)
      BY <1>4, <1>6 DEF RowsInv, Told, ToldOf
    <2> QED BY <1>6, <2>2, <2>3
  <1>7. CASE ~FinishStale(pos, e) /\ run[r].sealedAt = 0 /\ IsTerminalRunState(run[r].state)
    <2> DEFINE row == [run[r] EXCEPT !.exited = TRUE, !.released = TRUE]
    <2>1. FinishOverruled(pos, e)
      BY <1>7 DEF ProjectFinish
    <2>2. /\ run' = [run EXCEPT ![r] = row] /\ lease' = lease /\ leaseEpoch' = leaseEpoch
      BY <1>t, <2>1 DEF FinishOverruled, LedgerTypeOK
    <2>3. row \in RunRow /\ Steady(run[r], row)
      BY <1>4 DEF RunRow, Steady, Like
    <2>4. LeasesSteady
      BY <2>2 DEF LeasesSteady, SameLease
    <2>5. Rests
      BY <1>t, <1>4, <2>2, <2>3, <2>4, RowRests
    <2> QED BY <1>7, <2>5
  <1>8. CASE ~FinishStale(pos, e) /\ run[r].sealedAt = 0 /\ ~IsTerminalRunState(run[r].state)
    <2> DEFINE row == [run[r] EXCEPT
                          !.state = o, !.terminals = @ \cup {<<pos, o>>},
                          !.sealedAt = pos, !.released = TRUE, !.exited = TRUE,
                          !.recovering = FALSE,
                          !.first = IF @ = 0 THEN pos ELSE @,
                          !.cancel = IF @ \in ActiveCancel THEN "completed" ELSE @]
    <2>1. FinishSettles(pos, e, o)
      BY <1>8 DEF ProjectFinish
    <2>2. run' = AdvanceLaneReadiness([run EXCEPT ![r] = row], "idle") /\ leaseEpoch' = leaseEpoch
      BY <2>1 DEF FinishSettles
    <2>3. row \in RunRow
      BY <1>1, <1>2, <1>4, SettledRowType
    <2>4. /\ row.state = o /\ row.sealedAt = pos /\ row.released
          /\ row.terminals = run[r].terminals \cup {<<pos, o>>}
          /\ row.lease = run[r].lease /\ row.sealId = run[r].sealId
      BY <1>4 DEF RunRow
    <2>5. Same(row, run'[r]) /\ Others(r)
      BY <1>t, <1>4, <2>2, <2>3, OneRowChanges
    <2>6. LeasesSteady
      BY <1>t, <1>1, <2>1, <2>2 DEF FinishSettles, LeasesSteady, SameLease, LedgerTypeOK, LeaseRow
    <2>7. Settles(r, pos, o)
      BY <1>8, <2>4, <2>5, <2>6 DEF Settles, Same, Like
    <2> QED BY <1>8, <2>7
  <1> QED BY <1>5, <1>6, <1>7, <1>8

\* A seal finds its Run settled, settles what failed with its request, or queues
\* the Run that still holds the sealed lease.
LEMMA SealMoves ==
    ASSUME TypeOK, RowsInv, LogInv, RecordInv, ProjectSeal
    PROVE  LET e == Record.writer  r == lease[e].run IN
           \/ Rests
           \/ Settles(r, pos, "failed")
           \/ Requeues(r) /\ run[r].lease = e
  <1> DEFINE e == Record.writer
             r == lease[e].run
  <1>t. LedgerTypeOK
    BY TypeParts
  <1>1. /\ pos \in Nat \ {0} /\ pos \in DOMAIN log /\ e \in Leases /\ ~Throws(pos)
        /\ Record.kind = "seal" /\ Record \in Facts
    BY ProjectedRecord
  <1>2. Asked(Record)
    BY <1>1 DEF RecordInv, Record
  <1>3. e \in 1..leaseEpoch
    BY <1>1, <1>t, LedgerAssumption DEF LogInv, Record, Leases, LedgerTypeOK
  <1>4. r \in Runs /\ run[r] \in RunRow /\ lease[e] \in LeaseRow
    BY <1>3, <1>t, <1>1 DEF RowsInv, Held, LedgerTypeOK
  <1>5. ~SealThrows(pos, Record)
    BY <1>1 DEF Throws, Record
  <1>6. CASE SealStale(e)
    <2>1. RecordOnly(pos)
      BY <1>6 DEF ProjectSeal
    <2>2. Rests
      BY <2>1, UntouchedRests DEF RecordOnly
    <2> QED BY <2>2
  <1>7. CASE ~SealStale(e) /\ run[r].sealedAt # 0
    <2>1. SealSettled(pos, e)
      BY <1>7 DEF ProjectSeal
    <2>2. run' = run /\ leaseEpoch' = leaseEpoch
      BY <2>1 DEF SealSettled
    <2>3. LeasesSteady
      <3>1. CASE lease[e].seal = 0
        BY <1>t, <1>1, <2>1, <2>2, <3>1, ClosedSame DEF SealSettled, LeasesSteady
      <3>2. CASE lease[e].seal # 0
        BY <2>1, <2>2, <3>2 DEF SealSettled, LeasesSteady, SameLease
      <3> QED BY <3>1, <3>2
    <2>4. Rests
      BY <2>2, <2>3 DEF Rests, Steady, Like
    <2> QED BY <2>4
  <1>8. CASE ~SealStale(e) /\ run[r].sealedAt = 0
    <2>1. ~BoundaryThrows(pos, e) /\ run[r].sealId = e
      BY <1>5, <1>8 DEF SealThrows
    <2>2. run[r].lease = e
      BY <1>8, <2>1 DEF BoundaryThrows, SealStale
    <2>3. CASE Record.outcome = "recover"
      <3> DEFINE row == [run[r] EXCEPT
                            !.state = "queued", !.ready = FALSE,
                            !.lease = 0, !.released = FALSE, !.exited = FALSE,
                            !.sealId = 0, !.sealedAt = 0, !.first = 0,
                            !.cancel = IF run[r].cancel \in {"dispatched", "acknowledged"}
                                       THEN "pending" ELSE run[r].cancel]
                 gone == [run EXCEPT ![r].released = TRUE]
      <3>1. SealRecovers(pos, e)
        BY <1>8, <2>3 DEF ProjectSeal
      <3>2. ~IsTerminalRunState(run[r].state)
        <4>1. CanTransition(RunTransitions, run[r].state, "queued")
          BY <1>5, <1>8, <2>3 DEF SealThrows
        <4> QED BY <4>1 DEF CanTransition, RunTransitions, IsTerminalRunState
      <3>3. run' = AdvanceLaneReadiness([run EXCEPT ![r] = row], "idle")
        BY <3>1 DEF SealRecovers
      <3>4. row \in RunRow
        <4>1. (IF run[r].cancel \in {"dispatched", "acknowledged"} THEN "pending"
               ELSE run[r].cancel) \in ControlRequestState \cup {"none"}
          BY <1>4 DEF RunRow, ControlRequestState
        <4>2. 0 \in 0..MaxLease /\ "queued" \in RunState
          BY LedgerAssumption DEF RunState
        <4> QED BY <1>4, <4>1, <4>2, RequeueMarks
      <3>5. /\ row.state = "queued" /\ row.lease = 0 /\ row.sealId = 0 /\ row.sealedAt = 0
            /\ row.terminals = run[r].terminals
        BY <1>4 DEF RunRow
      <3>6. Same(row, run'[r]) /\ Others(r)
        BY <1>t, <1>4, <3>3, <3>4, OneRowChanges
      <3>7. LeasesSteady
        <4>1. lease' = ReleaseIdle(Closed(e, pos), gone, e) /\ leaseEpoch' = leaseEpoch
          BY <3>1 DEF SealRecovers
        <4> QED BY <1>t, <1>1, <4>1, ClosedSame DEF LeasesSteady
      <3>8. Requeues(r)
        BY <1>8, <3>2, <3>5, <3>6, <3>7 DEF Requeues, Same, Like
      <3> QED BY <2>2, <3>8
    <2>4. CASE Record.outcome # "recover"
      <3> DEFINE row == [run[r] EXCEPT
                            !.released = TRUE, !.sealedAt = pos,
                            !.first = IF @ = 0 THEN pos ELSE @,
                            !.terminals = @ \cup {<<pos, "failed">>}]
                 runs == [run EXCEPT ![r] = row]
      <3>1. SealTerminates(pos, e)
        BY <1>8, <2>4 DEF ProjectSeal
      <3>2. run[r].state = "failed"
        <4>1. lease[e].outbox = "terminal"
          BY <1>1, <1>2, <1>4, <2>4 DEF Asked, RowsInv, Failed, LeaseRow
        <4>2. run[r].sealId # 0
          BY <1>3, <2>1
        <4> QED BY <1>4, <2>1, <4>1, <4>2 DEF RowsInv, GivenUp
      <3>3. PICK s : run' = AdvanceLaneReadiness(runs, s)
        BY <3>1 DEF SealTerminates
      <3>4. row \in RunRow
        <4>1. run[r].terminals \cup {<<pos, "failed">>} \in SUBSET (Nat \X Outcome)
          BY <1>1, <1>4 DEF RunRow, Outcome
        <4>2. (IF run[r].first = 0 THEN pos ELSE run[r].first) \in Nat
          BY <1>1, <1>4 DEF RunRow
        <4> QED BY <1>1, <1>4, <4>1, <4>2 DEF RunRow
      <3>5. /\ row.state = "failed" /\ row.lease = run[r].lease /\ row.sealId = run[r].sealId
            /\ row.sealedAt = pos /\ row.released
            /\ row.terminals = run[r].terminals \cup {<<pos, "failed">>}
        BY <1>4, <3>2 DEF RunRow
      <3>6. Same(row, run'[r]) /\ Others(r)
        BY <1>t, <1>4, <3>3, <3>4, OneRowChanges
      <3>7. LeasesSteady
        <4>1. lease' = ReleaseIdle(Closed(e, pos), runs, e) /\ leaseEpoch' = leaseEpoch
          BY <3>1, Zenon DEF SealTerminates
        <4> QED BY <1>t, <1>1, <4>1, ClosedSame DEF LeasesSteady
      <3>8. Settles(r, pos, "failed")
        BY <1>8, <3>2, <3>5, <3>6, <3>7 DEF Settles, Same, Like
      <3> QED BY <3>8
    <2> QED BY <2>3, <2>4
  <1> QED BY <1>6, <1>7, <1>8

-----------------------------------------------------------------------------
(* Every step.                                                               *)

\* Marking an outbox row published touches neither the Run nor the failure.
LEMMA PublishedRests ==
    ASSUME LedgerTypeOK, NEW e, Published(e) \/ UNCHANGED lease, UNCHANGED <<run, leaseEpoch>>
    PROVE  Rests
  <1>1. ASSUME NEW d \in Leases
        PROVE  SameLease(lease[d], lease'[d])
    <2>1. CASE Published(e)
      BY <2>1 DEF Published, SameLease, LedgerTypeOK, LeaseRow
    <2>2. CASE UNCHANGED lease
      BY <2>2 DEF SameLease
    <2> QED BY <2>1, <2>2
  <1> QED BY <1>1 DEF Rests, LeasesSteady, Steady, Like

\* Every step of the system is one of the moves.
LEMMA StepMoves ==
    ASSUME TypeOK, RowsInv, LogInv, RecordInv, [Next]_vars
    PROVE  Moves
  <1>t. LedgerTypeOK
    BY TypeParts
  <1>r. ASSUME Rests
        PROVE  Moves
    BY <1>r DEF Moves
  <1>u. ASSUME UNCHANGED ledger
        PROVE  Moves
    BY <1>u, <1>r, UntouchedRests DEF ledger
  <1>1. CASE LedgerNext
    <2> PICK r \in Runs :
         \/ (Enqueue(r) \/ AcceptCancel(r) \/ CancelUnclaimed(r)) /\ LedgerStep
         \/ (DispatchCancel(r) \/ StartCancel(r) \/ CancelNotStarted(r, TRUE)) /\ LedgerStep
         \/ (CancelNotStarted(r, FALSE) \/ FailStartedCancel(r))
            /\ UNCHANGED <<writers, workers, projector>> /\ Fault
         \/ ClaimRun(r)
      BY <1>1, Zenon DEF LedgerNext
    <2>1. CASE ClaimRun(r)
      BY <1>t, <2>1, ClaimMoves DEF ClaimRun, Moves
    <2>2. CASE ~ClaimRun(r)
      BY <1>t, <2>2, AdmissionMoves
    <2> QED BY <2>1, <2>2
  <1>2. CASE WorkerNext
    <2> PICK e \in 1..leaseEpoch :
         \/ WorkerBeginsOpen(e) \/ WorkerInitializes(e) \/ WorkerOpens(e)
         \/ WorkerOpenRefused(e) \/ WorkerOpenFails(e)
         \/ SendCommit(e) \/ (\E o \in Outcome : SendFinish(e, o))
         \/ WorkerRequestsRecovery(e) \/ WorkerLeaves(e) \/ WorkerCloses(e)
         \/ (\E quarantine \in BOOLEAN : WorkerRecordsFailure(e, quarantine))
         \/ ExitConfirmed(e) \/ WorkerCrashes(e)
         \/ LeaseExpires(e) \/ SweepExpired(e) \/ WorkerRetired(e)
         \/ AppendFailed(e) \/ InDoubt(e)
      BY <1>2, Zenon DEF WorkerNext
    <2>0. e \in Leases
      BY Issued
    <2>1. CASE \/ WorkerRequestsRecovery(e) \/ ExitConfirmed(e) \/ LeaseExpires(e)
               \/ SweepExpired(e) \/ WorkerRetired(e)
               \/ \E quarantine \in BOOLEAN : WorkerRecordsFailure(e, quarantine)
      <3>1. \/ RequestRecovery(e) \/ ConfirmAgentExit(e) \/ Expire(e)
            \/ \E quarantine \in BOOLEAN : RecordFailure(e, quarantine)
            \/ \E requireExpired \in BOOLEAN : Reconcile(e, requireExpired)
        BY <2>1 DEF WorkerRequestsRecovery, ExitConfirmed, LeaseExpires, SweepExpired,
                    WorkerRetired, WorkerRecordsFailure
      <3> QED BY <1>t, <2>0, <3>1, ExecutionMoves
    <2>2. CASE \/ WorkerBeginsOpen(e) \/ WorkerInitializes(e) \/ WorkerOpens(e)
               \/ WorkerOpenRefused(e) \/ WorkerOpenFails(e)
               \/ SendCommit(e) \/ (\E o \in Outcome : SendFinish(e, o))
               \/ WorkerLeaves(e) \/ WorkerCloses(e) \/ WorkerCrashes(e)
               \/ AppendFailed(e) \/ InDoubt(e)
      <3>1. UNCHANGED ledger
        BY <2>2, Zenon DEF WorkerBeginsOpen, WorkerInitializes, WorkerOpens, WorkerOpenRefused,
             WorkerOpenFails, SendCommit, SendFinish, WorkerLeaves, WorkerCloses,
             WorkerCrashes, AppendFailed, InDoubt, WriterStep, ledger
      <3> QED BY <3>1, <1>u
    <2> QED BY <2>1, <2>2
  <1>3. CASE ControlNext
    <2>1. ASSUME NEW e \in 1..leaseEpoch, ControlSkips(e)
          PROVE  Moves
      BY <1>t, <2>1, <1>r, PublishedRests DEF ControlSkips
    <2>2. ASSUME NEW k \in Controls, ControlRefused(k) \/ ControlReceipt(k)
          PROVE  Moves
      <3>1. Published(scope[k]) \/ UNCHANGED lease
        BY <2>2 DEF ControlRefused, ControlReceipt
      <3>2. UNCHANGED <<run, leaseEpoch>>
        BY <2>2 DEF ControlRefused, ControlReceipt
      <3> QED BY <1>t, <3>1, <3>2, <1>r, PublishedRests
    <2>3. ASSUME NEW k \in Controls,
                 \/ \E e \in 1..leaseEpoch : ControlBegins(k, e)
                 \/ ControlInitializes(k) \/ ControlOpens(k) \/ ControlAppends(k)
                 \/ ControlFails(k) \/ AppendFailed(k) \/ InDoubt(k)
          PROVE  Moves
      <3>1. UNCHANGED ledger
        BY <2>3, Zenon DEF ControlBegins, ControlInitializes, ControlOpens, ControlAppends,
             ControlFails, AppendFailed, InDoubt, WriterStep, ledger
      <3> QED BY <3>1, <1>u
    <2> QED BY <1>3, <2>1, <2>2, <2>3, Zenon DEF ControlNext
  <1>4. CASE BrokerNext
    <2>1. UNCHANGED ledger
      BY <1>4, Zenon DEF BrokerNext, Acknowledged, ReplyLost, Aborted, WriterStep, ledger
    <2> QED BY <2>1, <1>u
  <1>5. CASE ProjectCommit
    BY <1>5, <1>r, CommitMoves
  <1>6. CASE ProjectFinish
    <2> DEFINE e == Record.writer
               r == lease[e].run
    <2>1. pos \in Nat \ {0} /\ Record.outcome \in Outcome
      BY <1>6, ProjectedRecord DEF Facts
    <2>2. r \in Runs
      <3>1. e \in 1..leaseEpoch
        BY <1>t, <1>6, ProjectedRecord, LedgerAssumption DEF LogInv, Record, Leases, LedgerTypeOK
      <3> QED BY <3>1 DEF RowsInv, Held
    <2>3. Rests \/ Settles(r, pos, Record.outcome)
      BY <1>6, FinishMoves
    <2> QED BY <2>1, <2>2, <2>3 DEF Moves
  <1>7. CASE ProjectSeal
    <2> DEFINE e == Record.writer
               r == lease[e].run
    <2>1. pos \in Nat \ {0}
      BY <1>7, ProjectedRecord
    <2>2. r \in Runs
      <3>1. e \in 1..leaseEpoch
        BY <1>t, <1>7, ProjectedRecord, LedgerAssumption DEF LogInv, Record, Leases, LedgerTypeOK
      <3> QED BY <3>1 DEF RowsInv, Held
    <2>3. Rests \/ Settles(r, pos, "failed") \/ (Requeues(r) /\ run[r].lease = e)
      BY <1>7, SealMoves
    <2>4. "failed" \in Outcome
      BY DEF Outcome
    <2> QED BY <1>7, <2>1, <2>2, <2>3, <2>4 DEF Moves
  <1>8. CASE CommitProgress \/ ProjectorRestarts \/ UNCHANGED vars
    BY <1>8, <1>u DEF CommitProgress, ProjectorRestarts, vars, ledger
  <1> QED BY <1>1, <1>2, <1>3, <1>4, <1>5, <1>6, <1>7, <1>8 DEF Next, ProjectorNext

\* A move keeps what the rows agree on.
LEMMA MovesKeep ==
    ASSUME TypeOK, RowsInv, Moves
    PROVE  RowsInv'
  BY RestsKeeps, ClaimsKeeps, GivesKeeps, SettlesKeeps, RequeuesKeeps DEF Moves

\* What a lease was given up for stays.
LEMMA AskedStays ==
    ASSUME RowsInv, Moves, NEW d \in Leases, lease[d].failed
    PROVE  lease'[d].failed /\ lease'[d].outbox = lease[d].outbox
  <1>1. ASSUME NEW e \in Leases, NEW recover \in BOOLEAN, Gives(e, recover)
        PROVE  SameLease(lease[d], lease'[d])
    BY <1>1 DEF Gives, RowsInv, Failed
  <1>2. ASSUME NEW r \in Runs, Claims(r)
        PROVE  lease'[d].failed = lease[d].failed /\ lease'[d].outbox = lease[d].outbox
    BY <1>2 DEF Claims, SameLease
  <1>3. ASSUME LeasesSteady
        PROVE  SameLease(lease[d], lease'[d])
    BY <1>3 DEF LeasesSteady
  <1> QED BY <1>1, <1>2, <1>3 DEF Moves, Rests, Settles, Requeues, SameLease

\* A lease stays with the Run it was issued for.
LEMMA IssuedStays ==
    ASSUME LedgerTypeOK, Moves, NEW d \in 1..leaseEpoch
    PROVE  lease'[d].run = lease[d].run /\ d \in 1..leaseEpoch'
  <1>0. d \in Leases /\ leaseEpoch \in Nat /\ d <= leaseEpoch
    BY LedgerAssumption DEF LedgerTypeOK, Leases
  <1>1. ASSUME NEW e \in Leases, NEW recover \in BOOLEAN, Gives(e, recover)
        PROVE  lease'[d].run = lease[d].run /\ leaseEpoch' = leaseEpoch
    BY <1>0, <1>1 DEF Gives, SameLease
  <1>2. ASSUME NEW r \in Runs, Claims(r)
        PROVE  lease'[d].run = lease[d].run /\ leaseEpoch' = leaseEpoch + 1
    BY <1>0, <1>2 DEF Claims, SameLease
  <1>3. ASSUME LeasesSteady
        PROVE  lease'[d].run = lease[d].run /\ leaseEpoch' = leaseEpoch
    BY <1>0, <1>3 DEF LeasesSteady, SameLease
  <1> QED BY <1>0, <1>1, <1>2, <1>3 DEF Moves, Rests, Settles, Requeues

\* A Run that ended stays as it ended.
LEMMA EndStays ==
    ASSUME Moves, NEW p \in Runs, IsTerminalRunState(run[p].state)
    PROVE  run'[p].state = run[p].state
  <1>1. ASSUME NEW r, Others(r), p # r
        PROVE  run'[p].state = run[p].state
    BY <1>1 DEF Others, Steady
  <1>2. ASSUME NEW e \in Leases, NEW recover \in BOOLEAN, Gives(e, recover)
        PROVE  run'[p].state = run[p].state
    BY <1>1, <1>2 DEF Gives
  <1>3. ASSUME NEW r \in Runs, Claims(r)
        PROVE  run'[p].state = run[p].state
    BY <1>1, <1>3 DEF Claims, IsTerminalRunState
  <1>4. ASSUME NEW r \in Runs, NEW i, NEW o, Settles(r, i, o)
        PROVE  run'[p].state = run[p].state
    BY <1>1, <1>4 DEF Settles
  <1>5. ASSUME NEW r \in Runs, Requeues(r)
        PROVE  run'[p].state = run[p].state
    BY <1>1, <1>5 DEF Requeues
  <1>6. CASE Rests
    BY <1>6 DEF Rests, Steady
  <1> QED BY <1>2, <1>3, <1>4, <1>5, <1>6 DEF Moves

-----------------------------------------------------------------------------
(* What a step without a new record may do to the writers.                   *)

\* Only a client that may still append has something new to say, and only a
\* lease that was not given up gets a writer that may.
Speaks(e) == phase[e] = "open" /\ Unfenced(e) /\ worker[e] # "completed"

Begun(e) == phase[e] \in {"open", "sending", "closed"}

Quiet ==
    /\ log' = log
    /\ \A t \in transaction' \ transaction :
          \/ /\ t.fact.kind # "seal" /\ t.client = t.fact.writer /\ t.client \in Leases
             /\ Speaks(t.client)
          \/ /\ t.fact.kind = "seal" /\ t.client \in Controls /\ t.fact.writer \in Leases
             /\ Asked(t.fact)
    /\ \A k \in Controls :
          phase'[k] \in {"open", "sending"} =>
              scope'[k] = scope[k] /\ scope[k] \in Leases /\ lease[scope[k]].failed
    /\ \A e \in Leases :
          /\ Begun(e) => Begun(e)'
          /\ Speaks(e)' => Speaks(e) \/ (phase[e] = "initialized" /\ ~lease[e].failed)

\* The open transaction and the records are of leases.
LEMMA WritersAreLeases ==
    ASSUME TypeOK
    PROVE  /\ \A t \in transaction : t.fact.writer \in Leases /\ t.client \in Clients
           /\ \A i \in DOMAIN log : log[i].writer \in Leases
  <1>1. \A f \in Facts : f.writer \in Leases
    BY DEF Facts
  <1> QED BY <1>1 DEF TypeOK

\* Such a step keeps everybody silent who was.
LEMMA QuietKeeps ==
    ASSUME TypeOK, SilenceInv, Quiet,
           \A d \in Leases : lease[d].failed =>
               lease'[d].failed /\ lease'[d].outbox = lease[d].outbox
    PROVE  SilenceInv'
  <1>1. SenderInv'
    <2>1. ASSUME NEW t \in transaction'
          PROVE  IF t.fact.kind = "seal" THEN t.client \in Controls /\ Asked(t.fact)'
                 ELSE t.client = t.fact.writer
      <3>1. CASE t \in transaction
        <4>1. t.fact.writer \in Leases
          BY <3>1, WritersAreLeases
        <4> QED BY <3>1, <4>1 DEF SilenceInv, SenderInv, Asked
      <3>2. CASE t \notin transaction
        BY <3>2 DEF Quiet, Asked
      <3> QED BY <3>1, <3>2
    <2> QED BY <2>1 DEF SenderInv, Asked
  <1>2. ControlInv'
    <2>1. ASSUME NEW k \in Controls, phase'[k] \in {"open", "sending"}
          PROVE  lease'[scope'[k]].failed
      <3>1. scope'[k] = scope[k] /\ scope[k] \in Leases /\ lease[scope[k]].failed
        BY <2>1 DEF Quiet
      <3> QED BY <3>1
    <2> QED BY <2>1 DEF ControlInv
  <1>3. ClosedLog'
    BY DEF ClosedLog, SilenceInv, Quiet
  <1>4. RecordInv'
    <2>1. ASSUME NEW i \in DOMAIN log
          PROVE  /\ log[i].kind = "seal" => Asked(log[i])'
                 /\ log[i].kind # "seal" => Begun(log[i].writer)'
                 /\ log[i].kind # "commit" => Silent(log[i].writer)'
      <3>0. PICK e : e = log[i].writer
        OBVIOUS
      <3>1. e \in Leases
        BY <3>0, WritersAreLeases
      <3>2. /\ log[i].kind = "seal" => Asked(log[i])
            /\ log[i].kind # "seal" => Begun(e)
            /\ log[i].kind # "commit" => Silent(e)
        BY <3>0 DEF SilenceInv, RecordInv, Begun
      <3>3. log[i].kind = "seal" => Asked(log[i])'
        BY <3>0, <3>1, <3>2 DEF Asked, Quiet
      <3>4. log[i].kind # "seal" => Begun(e)'
        BY <3>1, <3>2 DEF Quiet
      <3>5. ASSUME log[i].kind # "commit"
            PROVE  Silent(e)'
        <4>1. Silent(e) /\ ~Speaks(e)
          BY <3>2, <3>5 DEF Silent, Speaks
        <4>2. ~(phase[e] = "initialized" /\ ~lease[e].failed)
          BY <3>0, <3>2 DEF Begun, Asked
        <4>3. ~Speaks(e)'
          BY <3>1, <4>1, <4>2 DEF Quiet
        <4>4. ASSUME NEW t \in transaction'
              PROVE  t.client # e
          <5>1. CASE t \in transaction
            BY <4>1, <5>1 DEF Silent
          <5>2. CASE t \notin transaction
            BY <3>1, <4>1, <5>2 DEF Quiet, Controls
          <5> QED BY <5>1, <5>2
        <4>5. (phase[e] = "open" /\ Unfenced(e))' => worker'[e] = "completed"
          BY <4>3 DEF Speaks
        <4> QED BY <4>4, <4>5 DEF Silent
      <3>6. log'[i].writer = e
        BY <3>0 DEF Quiet
      <3> QED BY <3>0, <3>3, <3>4, <3>5, <3>6 DEF Begun, Silent
    <2> QED BY <2>1 DEF RecordInv, Begun, Quiet
  <1> QED BY <1>1, <1>2, <1>3, <1>4 DEF SilenceInv

\* A client that may append for a lease that was given up was there before.
LEMMA ControlScope ==
    ASSUME TypeOK, ScopeInv, ControlInv, NEW k \in Controls, phase[k] \in {"open", "sending"}
    PROVE  scope[k] \in Leases /\ lease[scope[k]].failed
  <1>1. k \in Clients /\ scope[k] \in 1..leaseEpoch
    BY DEF ScopeInv, Controls
  <1>2. scope[k] \in Leases
    BY <1>1, Issued
  <1> QED BY <1>2 DEF ControlInv

\* Writers that close, and steps of nobody's writer.
LEMMA ShutIsQuiet ==
    ASSUME TypeOK, ScopeInv, ControlInv,
           UNCHANGED <<log, producerEpoch, epoch>>, transaction' \subseteq transaction,
           \A c \in Clients : phase'[c] = phase[c] \/ phase'[c] = "closed",
           \A k \in Controls : scope'[k] = scope[k],
           \A e \in Leases : phase[e] = "open" /\ worker[e] = "completed" => worker'[e] = "completed"
    PROVE  Quiet
  <1>1. \A k \in Controls : k \in Clients
    BY DEF Controls
  <1>2. \A e \in Leases : e \in Clients
    BY OwnershipAssumption
  <1>3. \A k \in Controls : phase'[k] \in {"open", "sending"} =>
            scope'[k] = scope[k] /\ scope[k] \in Leases /\ lease[scope[k]].failed
    BY <1>1, ControlScope
  <1>4. \A e \in Leases : Begun(e) => Begun(e)'
    BY <1>2 DEF Begun
  <1>5. \A e \in Leases : Speaks(e)' => Speaks(e)
    BY <1>2 DEF Speaks, Unfenced
  <1> QED BY <1>3, <1>4, <1>5 DEF Quiet

\* One client changes its phase: what Quiet asks of it and of the others.
LEMMA OneClientIsQuiet ==
    ASSUME TypeOK, ScopeInv, ControlInv, NEW c \in Clients, NEW s,
           phase' = [phase EXCEPT ![c] = s], UNCHANGED <<log, transaction, producerEpoch, epoch>>,
           \A k \in Controls \ {c} : scope'[k] = scope[k],
           \A e \in Leases \ {c} : worker'[e] = worker[e],
           c \in Controls /\ s \in {"open", "sending"} =>
               scope'[c] = scope[c] /\ scope[c] \in Leases /\ lease[scope[c]].failed,
           c \in Leases => /\ Begun(c) => s \in {"open", "sending", "closed"}
                           /\ s = "open" => phase[c] = "initialized" /\ ~lease[c].failed
    PROVE  Quiet
  <1>1. phase'[c] = s /\ \A d \in Clients \ {c} : phase'[d] = phase[d]
    BY DEF TypeOK
  <1>2. /\ \A k \in Controls : k \in Clients
        /\ \A e \in Leases : e \in Clients
    BY OwnershipAssumption DEF Controls
  <1>3. \A k \in Controls : phase'[k] \in {"open", "sending"} =>
            scope'[k] = scope[k] /\ scope[k] \in Leases /\ lease[scope[k]].failed
    BY <1>1, <1>2, ControlScope
  <1>4. \A e \in Leases : Begun(e) => Begun(e)'
    BY <1>1, <1>2 DEF Begun
  <1>5. \A e \in Leases : Speaks(e)' => Speaks(e) \/ (phase[e] = "initialized" /\ ~lease[e].failed)
    BY <1>1, <1>2 DEF Speaks, Unfenced
  <1> QED BY <1>3, <1>4, <1>5 DEF Quiet

\* Fencing every earlier producer.
LEMMA InitIsQuiet ==
    ASSUME TypeOK, WriterInv, ControlInv, NEW c \in Clients, InitTransactions(c),
           UNCHANGED <<scope, worker>>
    PROVE  Quiet
  <1>1. /\ phase[c] = "granted" /\ phase'[c] = "initialized"
        /\ \A d \in Clients \ {c} : phase'[d] = phase[d] /\ epoch'[d] = epoch[d]
        /\ producerEpoch' = producerEpoch + 1 /\ log' = log /\ transaction' = {}
    BY DEF InitTransactions, TypeOK
  <1>2. /\ \A k \in Controls : k \in Clients
        /\ \A e \in Leases : e \in Clients
    BY OwnershipAssumption DEF Controls
  <1>3. \A k \in Controls : phase'[k] \in {"open", "sending"} =>
            scope'[k] = scope[k] /\ scope[k] \in Leases /\ lease[scope[k]].failed
    BY <1>1, <1>2, ControlScope DEF WriterInv
  <1>4. \A e \in Leases : Begun(e) => Begun(e)'
    BY <1>1, <1>2 DEF Begun
  <1>5. \A e \in Leases : ~Speaks(e)'
    <2>1. \A d \in Clients \ {c} : epoch'[d] # producerEpoch'
      BY <1>1 DEF WriterInv, EpochInv, TypeOK
    <2> QED BY <1>1, <1>2, <2>1 DEF Speaks, Unfenced
  <1> QED BY <1>1, <1>3, <1>4, <1>5 DEF Quiet

\* A record handed to the producer.
LEMMA SubmitIsQuiet ==
    ASSUME TypeOK, ScopeInv, ControlInv, NEW c \in Clients, NEW fact, Submit(c, fact),
           UNCHANGED scope, \A e \in Leases \ {c} : worker'[e] = worker[e],
           c \in Leases => fact.kind # "seal" /\ fact.writer = c /\ worker[c] # "completed",
           c \in Controls => fact.kind = "seal" /\ fact.writer \in Leases /\ Asked(fact)
    PROVE  Quiet
  <1>1. /\ phase[c] = "open" /\ phase'[c] = "sending" /\ log' = log
        /\ \A d \in Clients \ {c} : phase'[d] = phase[d]
        /\ UNCHANGED <<producerEpoch, epoch>>
    BY DEF Submit, TypeOK
  <1>2. /\ \A k \in Controls : k \in Clients
        /\ \A e \in Leases : e \in Clients
        /\ c \in Leases \/ c \in Controls
    BY OwnershipAssumption DEF Controls
  <1>3. \A k \in Controls : phase'[k] \in {"open", "sending"} =>
            scope'[k] = scope[k] /\ scope[k] \in Leases /\ lease[scope[k]].failed
    BY <1>1, <1>2, ControlScope
  <1>4. \A e \in Leases : Begun(e) => Begun(e)'
    BY <1>1, <1>2 DEF Begun
  <1>5. \A e \in Leases : Speaks(e)' => Speaks(e)
    BY <1>1, <1>2 DEF Speaks, Unfenced
  <1>6. ASSUME NEW t \in transaction' \ transaction
        PROVE  \/ /\ t.fact.kind # "seal" /\ t.client = t.fact.writer /\ t.client \in Leases
                  /\ Speaks(t.client)
               \/ /\ t.fact.kind = "seal" /\ t.client \in Controls /\ t.fact.writer \in Leases
                  /\ Asked(t.fact)
    <2>1. t.client = c /\ t.fact = fact /\ Unfenced(c)
      BY <1>6 DEF Submit
    <2> QED BY <1>1, <1>2, <2>1 DEF Speaks
  <1> QED BY <1>1, <1>3, <1>4, <1>5, <1>6 DEF Quiet

\* Steps that touch no writer.
LEMMA NobodyIsQuiet ==
    ASSUME TypeOK, ScopeInv, ControlInv, UNCHANGED <<writers, worker, scope>>
    PROVE  Quiet
  BY ShutIsQuiet DEF writers

\* Admission, Stops and claims: the claimed lease had no writer.
LEMMA LedgerIsQuiet ==
    ASSUME TypeOK, WriterInv, ControlInv, LedgerNext
    PROVE  Quiet
  <1>0. ScopeInv
    BY DEF WriterInv
  <1> PICK r \in Runs :
       \/ (Enqueue(r) \/ AcceptCancel(r) \/ CancelUnclaimed(r)) /\ LedgerStep
       \/ (DispatchCancel(r) \/ StartCancel(r) \/ CancelNotStarted(r, TRUE)) /\ LedgerStep
       \/ (CancelNotStarted(r, FALSE) \/ FailStartedCancel(r))
          /\ UNCHANGED <<writers, workers, projector>> /\ Fault
       \/ ClaimRun(r)
    BY Zenon DEF LedgerNext
  <1>1. CASE ClaimRun(r)
    <2> DEFINE e == leaseEpoch + 1
    <2>1. /\ e \in Leases /\ worker' = [worker EXCEPT ![e] = "running"]
          /\ scope' = [scope EXCEPT ![e] = e] /\ UNCHANGED writers
      BY <1>1 DEF ClaimRun, Claim
    <2>2. phase[e] = "idle"
      BY <1>0, <2>1 DEF ScopeInv, TypeOK, LedgerTypeOK
    <2>3. \A k \in Controls : scope'[k] = scope[k]
      BY <2>1 DEF Controls, TypeOK
    <2>4. \A d \in Leases : d # e => worker'[d] = worker[d]
      BY <2>1 DEF TypeOK
    <2>5. UNCHANGED <<log, producerEpoch, epoch, transaction, phase>>
      BY <2>1 DEF writers
    <2> QED BY <1>0, <2>2, <2>3, <2>4, <2>5, ShutIsQuiet
  <1>2. CASE ~ClaimRun(r)
    <2>1. UNCHANGED <<writers, worker, scope>>
      BY <1>2 DEF LedgerStep, workers
    <2> QED BY <1>0, <2>1, NobodyIsQuiet
  <1> QED BY <1>1, <1>2

\* A writer that leaves, or is left.
LEMMA ClosingIsQuiet ==
    ASSUME TypeOK, ScopeInv, ControlInv, NEW c \in Clients,
           CloseWriter(c) \/ AppendFails(c) \/ AppendInDoubt(c), UNCHANGED <<scope, worker>>
    PROVE  Quiet
  <1>1. /\ UNCHANGED <<log, producerEpoch, epoch, transaction>>
        /\ phase' = [phase EXCEPT ![c] = "closed"]
    BY DEF CloseWriter, AppendFails, AppendInDoubt
  <1>2. \A d \in Clients : phase'[d] = phase[d] \/ phase'[d] = "closed"
    BY <1>1 DEF TypeOK
  <1> QED BY <1>1, <1>2, ShutIsQuiet

\* The steps of the Worker that holds lease e.
LEMMA WorkerIsQuiet ==
    ASSUME TypeOK, WriterInv, ControlInv, WorkerNext
    PROVE  Quiet
  <1>0. ScopeInv
    BY DEF WriterInv
  <1> PICK e \in 1..leaseEpoch :
       \/ WorkerBeginsOpen(e) \/ WorkerInitializes(e) \/ WorkerOpens(e)
       \/ WorkerOpenRefused(e) \/ WorkerOpenFails(e)
       \/ SendCommit(e) \/ (\E o \in Outcome : SendFinish(e, o))
       \/ WorkerRequestsRecovery(e) \/ WorkerLeaves(e) \/ WorkerCloses(e)
       \/ (\E quarantine \in BOOLEAN : WorkerRecordsFailure(e, quarantine))
       \/ ExitConfirmed(e) \/ WorkerCrashes(e)
       \/ LeaseExpires(e) \/ SweepExpired(e) \/ WorkerRetired(e)
       \/ AppendFailed(e) \/ InDoubt(e)
    BY Zenon DEF WorkerNext
  <1>e. e \in Leases /\ e \in Clients /\ e \notin Controls
    BY Issued, OwnershipAssumption DEF Controls
  <1>1. CASE WorkerBeginsOpen(e)
    <2>1. /\ phase' = [phase EXCEPT ![e] = "granted"] /\ phase[e] = "idle"
          /\ UNCHANGED <<log, transaction, producerEpoch, epoch, scope, worker>>
      BY <1>1 DEF WorkerBeginsOpen, BeginOpen, WriterStep, workers
    <2> QED BY <1>0, <1>e, <2>1, OneClientIsQuiet DEF Begun
  <1>2. CASE WorkerInitializes(e)
    BY <1>e, <1>2, InitIsQuiet DEF WorkerInitializes, WriterStep, workers
  <1>3. CASE WorkerOpens(e)
    <2>1. /\ phase' = [phase EXCEPT ![e] = "open"] /\ phase[e] = "initialized"
          /\ UNCHANGED <<log, transaction, producerEpoch, epoch, scope, worker>>
          /\ ~lease[e].failed
      BY <1>3 DEF WorkerOpens, FinishOpen, Granted
    <2> QED BY <1>0, <1>e, <2>1, OneClientIsQuiet
  <1>4. CASE \/ WorkerOpenRefused(e) \/ WorkerOpenFails(e) \/ WorkerCloses(e)
             \/ AppendFailed(e) \/ InDoubt(e)
    <2>1. /\ CloseWriter(e) \/ AppendFails(e) \/ AppendInDoubt(e)
          /\ UNCHANGED <<scope, worker>>
      BY <1>4, Zenon DEF WorkerOpenRefused, WorkerOpenFails, WorkerCloses, AppendFailed,
           InDoubt, WriterStep, workers
    <2> QED BY <1>0, <1>e, <2>1, ClosingIsQuiet
  <1>5. CASE SendCommit(e)
    <2>1. /\ Submit(e, CommitFact(e)) /\ worker[e] \in {"running", "left"}
          /\ UNCHANGED <<scope, worker>>
      BY <1>5 DEF SendCommit, WriterStep, workers
    <2>2. CommitFact(e).kind # "seal" /\ CommitFact(e).writer = e
      BY DEF CommitFact
    <2> QED BY <1>0, <1>e, <2>1, <2>2, SubmitIsQuiet
  <1>6. CASE \E o \in Outcome : SendFinish(e, o)
    <2> PICK o \in Outcome : SendFinish(e, o)
      BY <1>6
    <2>1. /\ Submit(e, FinishFact(e, o)) /\ worker[e] = "running"
          /\ UNCHANGED scope /\ \A d \in Leases \ {e} : worker'[d] = worker[d]
      BY DEF SendFinish, TypeOK
    <2>2. FinishFact(e, o).kind # "seal" /\ FinishFact(e, o).writer = e
      BY DEF FinishFact
    <2> QED BY <1>0, <1>e, <2>1, <2>2, SubmitIsQuiet
  <1>7. CASE \/ WorkerRequestsRecovery(e) \/ WorkerLeaves(e)
             \/ \E quarantine \in BOOLEAN : WorkerRecordsFailure(e, quarantine)
    <2>1. worker' = [worker EXCEPT ![e] = "left"] /\ UNCHANGED <<writers, scope>>
      BY <1>7, Zenon DEF WorkerRequestsRecovery, WorkerLeaves, WorkerRecordsFailure
    <2>2. worker[e] # "completed"
      BY <1>7 DEF WorkerRequestsRecovery, MayRecover, WorkerLeaves, WorkerRecordsFailure
    <2>3. UNCHANGED <<log, producerEpoch, epoch, transaction, phase>>
      BY <2>1 DEF writers
    <2>4. \A d \in Leases : worker[d] = "completed" => worker'[d] = "completed"
      BY <2>1, <2>2 DEF TypeOK
    <2> QED BY <1>0, <2>1, <2>3, <2>4, ShutIsQuiet
  <1>8. CASE WorkerCrashes(e)
    <2>1. /\ worker[e] # "completed" /\ worker' = [worker EXCEPT ![e] = "crashed"]
          /\ phase' = [phase EXCEPT ![e] = "closed"]
          /\ UNCHANGED <<log, producerEpoch, epoch, transaction, scope>>
      BY <1>8 DEF WorkerCrashes
    <2>2. \A d \in Clients : phase'[d] = phase[d] \/ phase'[d] = "closed"
      BY <2>1 DEF TypeOK
    <2>3. \A d \in Leases : worker[d] = "completed" => worker'[d] = "completed"
      BY <2>1 DEF TypeOK
    <2> QED BY <1>0, <2>1, <2>2, <2>3, ShutIsQuiet
  <1>9. CASE \/ ExitConfirmed(e) \/ LeaseExpires(e) \/ SweepExpired(e) \/ WorkerRetired(e)
    <2>1. UNCHANGED <<writers, worker, scope>>
      BY <1>9, Zenon DEF ExitConfirmed, LeaseExpires, SweepExpired, WorkerRetired, LedgerStep, workers
    <2> QED BY <1>0, <2>1, NobodyIsQuiet
  <1> QED BY <1>1, <1>2, <1>3, <1>4, <1>5, <1>6, <1>7, <1>8, <1>9

\* The attempts of the publication control.
LEMMA ControlIsQuiet ==
    ASSUME TypeOK, WriterInv, ControlInv, ControlNext
    PROVE  Quiet
  <1>0. ScopeInv
    BY DEF WriterInv
  <1>1. ASSUME NEW e \in 1..leaseEpoch, ControlSkips(e)
        PROVE  Quiet
    <2>1. UNCHANGED <<writers, worker, scope>>
      BY <1>1 DEF ControlSkips, LedgerStep, workers
    <2> QED BY <1>0, <2>1, NobodyIsQuiet
  <1>2. ASSUME NEW k \in Controls, NEW e \in 1..leaseEpoch, ControlBegins(k, e)
        PROVE  Quiet
    <2>1. /\ phase' = [phase EXCEPT ![k] = "granted"] /\ scope' = [scope EXCEPT ![k] = e]
          /\ UNCHANGED <<log, transaction, producerEpoch, epoch, worker>>
      BY <1>2 DEF ControlBegins, BeginOpen
    <2>2. k \in Clients /\ k \notin Leases /\ \A j \in Controls \ {k} : scope'[j] = scope[j]
      BY <2>1 DEF Controls, TypeOK
    <2> QED BY <1>0, <2>1, <2>2, OneClientIsQuiet
  <1>3. ASSUME NEW k \in Controls,
               \/ ControlInitializes(k) \/ ControlOpens(k) \/ ControlRefused(k)
               \/ ControlAppends(k) \/ ControlReceipt(k) \/ ControlFails(k)
               \/ AppendFailed(k) \/ InDoubt(k)
        PROVE  Quiet
    <2>k. k \in Clients /\ k \notin Leases
      BY DEF Controls
    <2>0. UNCHANGED <<scope, worker>>
      BY <1>3, Zenon DEF ControlInitializes, ControlOpens, ControlRefused, ControlAppends,
           ControlReceipt, ControlFails, AppendFailed, InDoubt, WriterStep, workers
    <2>1. CASE ControlInitializes(k)
      BY <2>k, <2>0, <2>1, InitIsQuiet DEF ControlInitializes
    <2>2. CASE ControlOpens(k)
      <3>1. /\ phase' = [phase EXCEPT ![k] = "open"] /\ phase[k] = "initialized"
            /\ UNCHANGED <<log, transaction, producerEpoch, epoch>>
            /\ lease[scope[k]].failed
        BY <2>2 DEF ControlOpens, FinishOpen, SealWanted
      <3>2. scope[k] \in 1..leaseEpoch
        BY <1>0, <2>k, <3>1 DEF ScopeInv
      <3>3. scope[k] \in Leases
        BY <3>2, Issued
      <3> QED BY <1>0, <2>k, <2>0, <3>1, <3>3, OneClientIsQuiet
    <2>3. CASE ControlAppends(k)
      <3>1. Submit(k, SealFact(scope[k])) /\ phase[k] = "open"
        BY <2>3 DEF ControlAppends, Submit
      <3>2. scope[k] \in Leases /\ lease[scope[k]].failed
        BY <1>0, <3>1, ControlScope
      <3>3. /\ SealFact(scope[k]).kind = "seal" /\ SealFact(scope[k]).writer = scope[k]
            /\ Asked(SealFact(scope[k]))
        BY <3>2 DEF SealFact, Asked
      <3> QED BY <1>0, <2>k, <2>0, <3>1, <3>2, <3>3, SubmitIsQuiet
    <2>4. CASE \/ ControlRefused(k) \/ ControlReceipt(k) \/ ControlFails(k)
               \/ AppendFailed(k) \/ InDoubt(k)
      <3>1. CloseWriter(k) \/ AppendFails(k) \/ AppendInDoubt(k)
        BY <2>4 DEF ControlRefused, ControlReceipt, ControlFails, AppendFailed, InDoubt
      <3> QED BY <1>0, <2>k, <2>0, <3>1, ClosingIsQuiet
    <2> QED BY <1>3, <2>1, <2>2, <2>3, <2>4
  <1> QED BY <1>1, <1>2, <1>3, Zenon DEF ControlNext

-----------------------------------------------------------------------------
(* A record that Kafka accepts.                                              *)

\* What the broker does with the open transaction: the other clients stay where
\* they are, and an acknowledged work_finished completes its executor.
LEMMA AcceptedRecord ==
    ASSUME TypeOK, SenderInv, InflightInv, NEW t \in transaction, Acknowledged(t) \/ ReplyLost(t)
    PROVE  /\ log' = Append(log, t.fact) /\ transaction' = {}
           /\ UNCHANGED <<ledger, scope, producerEpoch, epoch, projector>>
           /\ t.client \in Clients /\ t.fact \in Facts
           /\ \A c \in Clients : phase'[c] = phase[c] \/ (c = t.client /\ phase[c] = "sending" /\ phase'[c] = "open")
           /\ \A e \in Leases : worker'[e] # worker[e] => worker'[e] = "completed"
           /\ t.fact.kind = "finish" /\ t.client \in Leases /\ phase'[t.client] = "open"
                => worker'[t.client] = "completed"
  <1>1. PICK acknowledged \in BOOLEAN :
            /\ Commit(t, acknowledged)
            /\ acknowledged => Acknowledged(t)
            /\ ~acknowledged => ReplyLost(t)
    BY DEF Acknowledged, ReplyLost
  <1>2. t.client \in Clients /\ t.fact \in Facts /\ phase[t.client] \in {"sending", "closed"}
    BY DEF TypeOK, InflightInv
  <1>3. /\ log' = Append(log, t.fact) /\ transaction' = {}
        /\ UNCHANGED <<producerEpoch, epoch>>
        /\ phase' = IF acknowledged /\ phase[t.client] = "sending"
                    THEN [phase EXCEPT ![t.client] = "open"] ELSE phase
    BY <1>1 DEF Commit
  <1>4. UNCHANGED <<ledger, scope, projector>>
    BY DEF Acknowledged, ReplyLost, WriterStep, workers
  <1>5. worker' = IF acknowledged /\ t.fact.kind = "finish" /\ phase[t.client] = "sending"
                  THEN [worker EXCEPT ![t.client] = "completed"] ELSE worker
    BY <1>1 DEF Acknowledged, ReplyLost, WriterStep, workers
  <1>6. \A c \in Clients : phase'[c] = phase[c] \/ (c = t.client /\ phase[c] = "sending" /\ phase'[c] = "open")
    BY <1>2, <1>3 DEF TypeOK
  <1>7. \A e \in Leases : worker'[e] # worker[e] => worker'[e] = "completed"
    BY <1>5 DEF TypeOK
  <1>8. t.fact.kind = "finish" /\ t.client \in Leases /\ phase'[t.client] = "open"
            => worker'[t.client] = "completed"
    BY <1>2, <1>3, <1>5 DEF TypeOK
  <1> QED BY <1>2, <1>3, <1>4, <1>6, <1>7, <1>8

\* The accepted record keeps what the log says, and its own execution silent.
LEMMA AcceptedKeeps ==
    ASSUME TypeOK, WriterInv, SilenceInv, NEW t \in transaction, Acknowledged(t) \/ ReplyLost(t)
    PROVE  SilenceInv'
  <1>0. SenderInv /\ ControlInv /\ RecordInv /\ ClosedLog /\ InflightInv /\ EpochInv /\ ScopeInv
    BY DEF SilenceInv, WriterInv
  <1>1. /\ log' = Append(log, t.fact) /\ transaction' = {}
        /\ UNCHANGED <<ledger, scope, producerEpoch, epoch, projector>>
        /\ t.client \in Clients /\ t.fact \in Facts
        /\ \A c \in Clients : phase'[c] = phase[c] \/ (c = t.client /\ phase[c] = "sending" /\ phase'[c] = "open")
        /\ \A e \in Leases : worker'[e] # worker[e] => worker'[e] = "completed"
        /\ t.fact.kind = "finish" /\ t.client \in Leases /\ phase'[t.client] = "open"
             => worker'[t.client] = "completed"
    BY <1>0, AcceptedRecord
  <1>l. UNCHANGED lease
    BY <1>1 DEF ledger
  <1>2. /\ \A i \in DOMAIN log' : i \in DOMAIN log \/ i = Len(log) + 1
        /\ \A i \in DOMAIN log : log'[i] = log[i] /\ i < Len(log) + 1
        /\ log'[Len(log) + 1] = t.fact
    BY <1>1 DEF TypeOK
  <1> DEFINE w == t.fact.writer
  <1>w. w \in Leases /\ w \in Clients
    BY <1>1, OwnershipAssumption DEF Facts
  <1>c. \A k \in Controls : k \in Clients
    BY DEF Controls
  <1>s. IF t.fact.kind = "seal" THEN t.client \in Controls /\ Asked(t.fact) ELSE t.client = w
    BY <1>0 DEF SenderInv
  <1>3. SenderInv'
    BY <1>1 DEF SenderInv
  <1>4. ControlInv'
    <2>1. \A k \in Controls : phase'[k] \in {"open", "sending"} => phase[k] \in {"open", "sending"}
      BY <1>1, <1>c
    <2> QED BY <1>0, <1>1, <1>l, <2>1 DEF ControlInv
  <1>5. ASSUME NEW e \in Leases, Silent(e)
        PROVE  Silent(e)'
    <2>1. e \in Clients /\ e # t.client
      BY <1>5, OwnershipAssumption DEF Silent
    <2>2. phase'[e] = phase[e] /\ (worker[e] = "completed" => worker'[e] = "completed")
      BY <1>1, <1>5, <2>1
    <2> QED BY <1>1, <1>5, <2>2 DEF Silent, Unfenced
  <1>6. ASSUME t.fact.kind # "commit"
        PROVE  Silent(w)'
    <2>1. CASE t.fact.kind = "finish"
      <3>1. t.client = w /\ (phase'[w] = "open" => worker'[w] = "completed")
        BY <1>1, <1>s, <1>w, <2>1
      <3> QED BY <1>1, <3>1 DEF Silent
    <2>2. CASE t.fact.kind = "seal"
      <3>1. t.client # w /\ epoch[t.client] # 0 /\ Unfenced(t.client)
        BY <1>0, <1>s, <1>w, <2>2 DEF Controls, InflightInv
      <3>2. ~Unfenced(w)
        BY <1>0, <1>1, <1>w, <3>1 DEF EpochInv, Unfenced
      <3>3. ~Unfenced(w)'
        BY <1>1, <3>2 DEF Unfenced
      <3> QED BY <1>1, <3>3 DEF Silent
    <2> QED BY <1>1, <1>6, <2>1, <2>2 DEF Facts
  <1>7. RecordInv'
    <2>1. ASSUME NEW i \in DOMAIN log
          PROVE  /\ log[i].kind = "seal" => Asked(log[i])
                 /\ log[i].kind # "seal" => phase'[log[i].writer] \in {"open", "sending", "closed"}
                 /\ log[i].kind # "commit" => Silent(log[i].writer)
      <3>1. log[i].writer \in Leases /\ log[i].writer \in Clients
        BY WritersAreLeases, OwnershipAssumption
      <3> QED BY <1>0, <1>1, <3>1 DEF RecordInv
    <2>2. \A f : Asked(f)' <=> Asked(f)
      BY <1>l DEF Asked
    <2>3. /\ t.fact.kind = "seal" => Asked(t.fact)
          /\ t.fact.kind # "seal" => phase'[w] \in {"open", "sending", "closed"}
      BY <1>0, <1>1, <1>s DEF InflightInv
    <2>4. ASSUME NEW i \in DOMAIN log'
          PROVE  (/\ log[i].kind = "seal" => Asked(log[i])
                  /\ log[i].kind # "seal" => phase[log[i].writer] \in {"open", "sending", "closed"}
                  /\ log[i].kind # "commit" => Silent(log[i].writer))'
      <3>0. PICK f : f = log'[i]
        OBVIOUS
      <3>1. /\ f.kind = "seal" => Asked(f)
            /\ f.kind # "seal" => phase'[f.writer] \in {"open", "sending", "closed"}
        BY <1>2, <2>1, <2>3, <3>0
      <3>2. f.kind # "commit" => Silent(f.writer)'
        <4>1. CASE i \in DOMAIN log
          <5>1. f = log[i] /\ f.writer \in Leases
            BY <1>2, <3>0, <4>1, WritersAreLeases
          <5> QED BY <1>5, <2>1, <4>1, <5>1
        <4>2. CASE i = Len(log) + 1
          <5>1. f = t.fact
            BY <1>2, <3>0, <4>2
          <5> QED BY <1>6, <5>1
        <4> QED BY <1>2, <4>1, <4>2
      <3> QED BY <2>2, <3>0, <3>1, <3>2
    <2> QED BY <2>4 DEF RecordInv
  <1>8. ClosedLog'
    <2>1. ASSUME NEW i \in DOMAIN log, log[i].kind # "commit", log[i].writer = w
          PROVE  t.fact.kind = "seal"
      <3>1. Silent(w)
        BY <1>0, <2>1 DEF RecordInv
      <3>2. t.client # w
        BY <3>1 DEF Silent
      <3> QED BY <1>s, <3>2
    <2>2. ASSUME NEW i \in DOMAIN log', NEW j \in DOMAIN log', i < j, log'[i].kind # "commit",
                 log'[i].writer = log'[j].writer
          PROVE  log'[j].kind = "seal"
      <3>1. i \in DOMAIN log
        <4>1. Len(log) \in Nat /\ DOMAIN log = 1..Len(log) /\ i \in 1..(Len(log) + 1)
          BY <1>2 DEF TypeOK
        <4>2. j \in 1..(Len(log) + 1)
          BY <1>2, <4>1
        <4> QED BY <2>2, <4>1, <4>2
      <3>2. CASE j \in DOMAIN log
        <4>1. log'[i] = log[i] /\ log'[j] = log[j]
          BY <1>2, <3>1, <3>2
        <4> QED BY <1>0, <2>2, <3>1, <3>2, <4>1 DEF ClosedLog
      <3>3. CASE j = Len(log) + 1
        BY <1>2, <2>1, <2>2, <3>1, <3>3
      <3> QED BY <1>2, <3>2, <3>3
    <2> QED BY <2>2 DEF ClosedLog
  <1> QED BY <1>3, <1>4, <1>7, <1>8 DEF SilenceInv

\* Every step keeps who may speak and what the log says.
LEMMA SilenceKept ==
    ASSUME IInv, RowsInv, SilenceInv, [Next]_vars
    PROVE  SilenceInv'
  <1>0. /\ TypeOK /\ WriterInv /\ ScopeInv /\ ControlInv /\ RecordInv /\ LogInv
    BY DEF IInv, OrderInv, WriterInv, SilenceInv
  <1>1. \A d \in Leases : lease[d].failed =>
            lease'[d].failed /\ lease'[d].outbox = lease[d].outbox
    BY <1>0, StepMoves, AskedStays
  <1>2. ASSUME Quiet
        PROVE  SilenceInv'
    BY <1>0, <1>1, <1>2, QuietKeeps
  <1>3. CASE LedgerNext
    BY <1>0, <1>2, <1>3, LedgerIsQuiet
  <1>4. CASE WorkerNext
    BY <1>0, <1>2, <1>4, WorkerIsQuiet
  <1>5. CASE ControlNext
    BY <1>0, <1>2, <1>5, ControlIsQuiet
  <1>6. CASE BrokerNext
    <2>1. CASE Aborted
      <3>1. /\ UNCHANGED <<log, producerEpoch, phase, epoch>> /\ transaction' = {}
            /\ UNCHANGED <<worker, scope>>
        BY <2>1 DEF Aborted, Abort, WriterStep, workers
      <3> QED BY <1>0, <1>2, <3>1, ShutIsQuiet
    <2>2. ASSUME NEW t \in transaction, Acknowledged(t) \/ ReplyLost(t)
          PROVE  SilenceInv'
      BY <1>0, <2>2, AcceptedKeeps
    <2> QED BY <1>6, <2>1, <2>2 DEF BrokerNext
  <1>7. CASE ProjectCommit \/ ProjectFinish \/ ProjectSeal
    <2>1. UNCHANGED <<writers, worker, scope>>
      BY <1>0, <1>7, ProjectedRecord DEF workers
    <2> QED BY <1>0, <1>2, <2>1, NobodyIsQuiet
  <1>8. CASE CommitProgress \/ ProjectorRestarts \/ UNCHANGED vars
    <2>1. UNCHANGED <<writers, worker, scope>>
      BY <1>8 DEF CommitProgress, ProjectorRestarts, vars, workers
    <2> QED BY <1>0, <1>2, <2>1, NobodyIsQuiet
  <1> QED BY <1>3, <1>4, <1>5, <1>6, <1>7, <1>8 DEF Next, ProjectorNext

-----------------------------------------------------------------------------
(* What the Projector has read, and what an accepted work_finished means.    *)

\* Nothing lies behind the record that closed a writer.
LEMMA ClosedIsBehind ==
    ASSUME TypeOK, ClosureInv, ClosedLog
    PROVE  NothingAfterClosure
  <1> SUFFICES ASSUME NEW i \in DOMAIN log, log[i].kind # "seal", lease[log[i].writer].seal # 0
               PROVE  i <= lease[log[i].writer].seal
    BY DEF NothingAfterClosure
  <1> DEFINE w == log[i].writer
             s == lease[w].seal
  <1>1. w \in Leases
    BY WritersAreLeases
  <1>2. s \in DOMAIN log /\ log[s].writer = w /\ log[s].kind # "commit"
    BY <1>1 DEF ClosureInv, Closes
  <1>3. s \in Nat /\ i \in Nat
    BY <1>2 DEF TypeOK
  <1>4. ~(s < i)
    BY <1>2 DEF ClosedLog
  <1> QED BY <1>3, <1>4

\* An execution that ended has ended.
LEMMA EndedStays ==
    ASSUME LedgerTypeOK, RowsInv, Moves, NEW d \in 1..leaseEpoch, Ended(d)
    PROVE  Ended(d)'
  <1>1. lease'[d].run = lease[d].run /\ lease[d].run \in Runs
    BY IssuedStays DEF RowsInv, Held
  <1>2. run'[lease[d].run].state = run[lease[d].run].state
    BY <1>1, EndStays DEF Ended
  <1> QED BY <1>1, <1>2 DEF Ended

\* A Run keeps the lease it has until its seal is projected.
LEMMA LeaseStays ==
    ASSUME Moves, NEW p \in Runs, run[p].lease # 0
    PROVE  \/ run'[p].lease = run[p].lease
           \/ Requeues(p) /\ ProjectSeal /\ run[p].lease = Record.writer
  <1>1. ASSUME NEW r, Others(r), p # r
        PROVE  run'[p].lease = run[p].lease
    BY <1>1 DEF Others, Steady, Like
  <1>2. ASSUME NEW e \in Leases, NEW recover \in BOOLEAN, Gives(e, recover)
        PROVE  run'[p].lease = run[p].lease
    BY <1>1, <1>2 DEF Gives
  <1>3. ASSUME NEW r \in Runs, Claims(r)
        PROVE  run'[p].lease = run[p].lease
    BY <1>1, <1>3 DEF Claims
  <1>4. ASSUME NEW r \in Runs, NEW i, NEW o, Settles(r, i, o)
        PROVE  run'[p].lease = run[p].lease
    BY <1>1, <1>4 DEF Settles
  <1>5. ASSUME NEW r \in Runs, Requeues(r), p # r
        PROVE  run'[p].lease = run[p].lease
    BY <1>1, <1>5 DEF Requeues
  <1>6. CASE Rests
    BY <1>6 DEF Rests, Steady, Like
  <1> QED BY <1>2, <1>3, <1>4, <1>5, <1>6 DEF Moves

\* A lease that is new was issued for a queued Run that had none, and is its.
LEMMA NewLease ==
    ASSUME LedgerTypeOK, Moves, NEW e \in 1..leaseEpoch', e \notin 1..leaseEpoch
    PROVE  \E r \in Runs : /\ lease'[e].run = r /\ run'[r].lease = e
                           /\ run[r].state = "queued" /\ run[r].lease = 0
  <1>1. leaseEpoch \in Nat
    BY DEF LedgerTypeOK
  <1>2. leaseEpoch' # leaseEpoch
    OBVIOUS
  <1>3. PICK r \in Runs : Claims(r)
    BY <1>2 DEF Moves, Rests, Gives, Settles, Requeues, LeasesSteady
  <1>4. e = leaseEpoch + 1
    BY <1>1, <1>3 DEF Claims
  <1> QED BY <1>3, <1>4 DEF Claims

\* How far the Projector has read.
LEMMA ReadSoFar ==
    ASSUME TypeOK, Offsets, [Next]_vars
    PROVE  /\ Offsets'
           /\ \A i \in Nat : i < pos' \/ i < groupOffset' =>
                 \/ i < pos \/ i < groupOffset
                 \/ i = pos /\ (ProjectCommit \/ ProjectFinish \/ ProjectSeal)
  <1>0. pos \in Nat /\ groupOffset \in Nat /\ Len(log) \in Nat
    BY DEF TypeOK
  <1>1. CASE ProjectCommit \/ ProjectFinish \/ ProjectSeal
    <2>1. pos' = pos + 1 /\ groupOffset' = groupOffset /\ log' = log /\ pos <= Len(log)
      BY <1>0, <1>1, ProjectedRecord DEF writers
    <2> QED BY <1>0, <1>1, <2>1 DEF Offsets
  <1>2. CASE CommitProgress
    <2>1. pos' = pos /\ groupOffset' = pos /\ log' = log
      BY <1>2 DEF CommitProgress, writers
    <2> QED BY <1>0, <2>1 DEF Offsets
  <1>3. CASE ProjectorRestarts
    <2>1. groupOffset' = groupOffset /\ log' = log
      BY <1>3 DEF ProjectorRestarts, writers
    <2>2. pos' \in Nat /\ pos' <= groupOffset
      <3>1. ReplayFloor \in Nat \ {0}
        BY ReplayFloorType
      <3> DEFINE S == {groupOffset, ReplayFloor}
      <3>2. S \subseteq Nat /\ S # {} /\ groupOffset \in S
        BY <1>0, <3>1
      <3>3. Min(S) \in S /\ \A n \in S : Min(S) <= n
        BY <3>2, MinOfNaturals
      <3> QED BY <1>0, <1>3, <3>1, <3>2, <3>3 DEF ProjectorRestarts
    <2> QED BY <1>0, <2>1, <2>2 DEF Offsets
  <1>4. CASE LedgerNext \/ WorkerNext \/ ControlNext \/ UNCHANGED vars
    <2>1. UNCHANGED <<pos, groupOffset>> /\ log' = log
      <3>1. CASE LedgerNext
        BY <3>1, RunSeals DEF LedgerNext, LedgerStep, ClaimRun, projector
      <3>2. CASE WorkerNext
        <4>1. UNCHANGED projector
          BY <3>2, Zenon DEF WorkerNext, WorkerBeginsOpen, WorkerInitializes, WorkerOpens,
               WorkerOpenRefused, WorkerOpenFails, SendCommit, SendFinish,
               WorkerRequestsRecovery, WorkerLeaves, WorkerCloses, WorkerRecordsFailure,
               ExitConfirmed, WorkerCrashes, LeaseExpires, SweepExpired, WorkerRetired,
               AppendFailed, InDoubt, WriterStep, LedgerStep, projector
        <4> QED BY <3>2, <4>1, WorkerSeals DEF projector
      <3>3. CASE ControlNext
        <4>1. UNCHANGED projector
          BY <3>3, Zenon DEF ControlNext, ControlSkips, ControlBegins, ControlInitializes,
               ControlOpens, ControlRefused, ControlAppends, ControlReceipt, ControlFails,
               AppendFailed, InDoubt, WriterStep, LedgerStep, projector
        <4> QED BY <3>3, <4>1, ControlSeals DEF projector
      <3>4. CASE UNCHANGED vars
        BY <3>4 DEF vars, projector, writers
      <3> QED BY <1>4, <3>1, <3>2, <3>3, <3>4
    <2> QED BY <2>1 DEF Offsets
  <1>5. CASE BrokerNext
    <2>1. UNCHANGED <<pos, groupOffset>>
      BY <1>5 DEF BrokerNext, Acknowledged, ReplyLost, Aborted, WriterStep, projector
    <2>2. Len(log) <= Len(log') /\ Len(log') \in Nat
      <3>1. LogGrows
        BY <1>5, BrokerSeals
      <3> QED BY <1>0, <3>1 DEF LogGrows, TypeOK
    <2> QED BY <1>0, <2>1, <2>2 DEF Offsets
  <1> QED BY <1>1, <1>2, <1>3, <1>4, <1>5 DEF Next, ProjectorNext

\* What the records of the log tell about the executions, at every step that
\* adds none.
LEMMA ResultsStay ==
    ASSUME IInv, RowsInv, SilenceInv, ClosureInv, ResultInv, [Next]_vars, log' = log
    PROVE  ResultInv'
  <1>0. /\ TypeOK /\ LedgerTypeOK /\ LogInv /\ RecordInv /\ ClosedLog
        /\ ResultKept /\ TakenBehindSeal /\ Offsets /\ NoReexecution
    BY TypeParts DEF IInv, OrderInv, WriterInv, SilenceInv, ResultInv
  <1>m. Moves
    BY <1>0, StepMoves
  <1>w. \A i \in DOMAIN log : log[i].writer \in 1..leaseEpoch
    BY <1>0, WritersAreLeases DEF LogInv, Leases, LedgerTypeOK
  <1>i. \A d \in 1..leaseEpoch :
            /\ lease'[d].run = lease[d].run /\ lease[d].run \in Runs
            /\ Ended(d) => Ended(d)'
    BY <1>0, <1>m, IssuedStays, EndedStays DEF RowsInv, Held
  <1>n. \A i \in DOMAIN log : i \in Nat
    BY <1>0 DEF TypeOK
  <1>1. ASSUME NEW i \in DOMAIN log, log[i].kind = "finish", NEW w, w = log[i].writer
        PROVE  /\ run'[lease[w].run].lease = w \/ Ended(w)'
               /\ i < pos' \/ i < groupOffset' => Ended(w)'
    <2>0. w \in 1..leaseEpoch /\ lease[w].run \in Runs /\ w # 0
      BY <1>w, <1>i, <1>1
    <2>1. run[lease[w].run].lease = w \/ Ended(w)
      BY <1>0, <1>1 DEF ResultKept
    <2>2. CASE Ended(w)
      BY <1>i, <2>0, <2>2
    <2>3. CASE run[lease[w].run].lease = w /\ ~Ended(w)
      <3>0. ~(i < pos) /\ ~(i < groupOffset)
        BY <1>0, <1>1, <2>3 DEF ResultKept
      <3>1. run'[lease[w].run].lease = w
        <4> SUFFICES ASSUME Requeues(lease[w].run), ProjectSeal, w = Record.writer
                     PROVE  FALSE
          BY <1>m, <2>0, <2>3, LeaseStays
        <4>1. pos \in DOMAIN log /\ log[pos].kind = "seal" /\ log[pos].writer = w
          BY <1>0, ProjectedRecord DEF Record
        <4>2. pos < i
          BY <1>n, <1>1, <3>0, <4>1
        <4> QED BY <1>0, <1>1, <4>1, <4>2 DEF ClosedLog
      <3>2. ASSUME i < pos' \/ i < groupOffset'
            PROVE  Ended(w)'
        <4>1. i = pos /\ (ProjectCommit \/ ProjectFinish \/ ProjectSeal)
          BY <1>0, <1>n, <1>1, <3>0, <3>2, ReadSoFar
        <4>2. ProjectFinish /\ w = Record.writer /\ Record.outcome \in Outcome
          BY <1>0, <1>1, <4>1, ProjectedRecord DEF Record, Facts
        <4>3. ~FinishStale(pos, w)
          <5>1. lease[w].seal = 0 \/ pos <= lease[w].seal
            BY <1>0, <1>1, <4>1, ClosedIsBehind DEF NothingAfterClosure
          <5>2. pos \in Nat /\ (lease[w].seal # 0 => lease[w].seal \in Nat)
            BY <1>0, <2>0, Issued DEF TypeOK, LedgerTypeOK, LeaseRow
          <5> QED BY <2>3, <5>1, <5>2 DEF FinishStale
        <4>4. Settles(lease[w].run, pos, Record.outcome)
          BY <1>0, <2>3, <4>2, <4>3, FinishMoves DEF Ended
        <4>5. IsTerminalRunState(run'[lease[w].run].state)
          BY <4>2, <4>4 DEF Settles, IsTerminalRunState, Outcome
        <4> QED BY <1>i, <2>0, <4>5 DEF Ended
      <3> QED BY <3>1, <3>2
    <2> QED BY <2>1, <2>2, <2>3
  <1>2. ResultKept'
    <2>1. ASSUME NEW i \in DOMAIN log, log[i].kind = "finish"
          PROVE  (/\ run[lease[log[i].writer].run].lease = log[i].writer \/ Ended(log[i].writer)
                  /\ i < pos \/ i < groupOffset => Ended(log[i].writer))'
      <3>0. PICK w : w = log[i].writer
        OBVIOUS
      <3>1. /\ run'[lease[w].run].lease = w \/ Ended(w)'
            /\ i < pos' \/ i < groupOffset' => Ended(w)'
        BY <1>1, <2>1, <3>0
      <3>2. lease'[w].run = lease[w].run /\ log'[i].writer = w
        BY <1>w, <1>i, <3>0
      <3> QED BY <3>0, <3>1, <3>2
    <2> QED BY <2>1 DEF ResultKept
  <1>3. TakenBehindSeal'
    <2>1. ASSUME NEW e \in 1..leaseEpoch', run'[lease'[e].run].lease # e
          PROVE  \E i \in DOMAIN log : log[i].kind = "seal" /\ log[i].writer = e
      <3>1. e \in 1..leaseEpoch
        BY <1>0, <1>m, <2>1, NewLease
      <3>2. CASE run[lease[e].run].lease = e
        <4>1. ProjectSeal /\ e = Record.writer
          BY <1>m, <1>i, <2>1, <3>1, <3>2, LeaseStays
        <4> QED BY <1>0, <4>1, ProjectedRecord DEF Record
      <3>3. CASE run[lease[e].run].lease # e
        BY <1>0, <3>1, <3>3 DEF TakenBehindSeal
      <3> QED BY <3>2, <3>3
    <2> QED BY <2>1 DEF TakenBehindSeal
  <1>4. NoReexecution'
    <2>1. ASSUME NEW i \in DOMAIN log, log[i].kind = "finish", NEW w, w = log[i].writer,
                 NEW e \in 1..leaseEpoch', lease'[e].run = lease'[w].run
          PROVE  e <= w
      <3>0. w \in 1..leaseEpoch /\ lease'[w].run = lease[w].run
        BY <1>w, <1>i, <2>1
      <3>1. CASE e \in 1..leaseEpoch
        BY <1>0, <1>i, <2>1, <3>0, <3>1 DEF NoReexecution
      <3>2. CASE e \notin 1..leaseEpoch
        <4>1. /\ run[lease[w].run].state = "queued" /\ run[lease[w].run].lease = 0
          BY <1>0, <1>m, <2>1, <3>0, <3>2, NewLease
        <4>2. run[lease[w].run].lease = w \/ Ended(w)
          BY <1>0, <2>1 DEF ResultKept
        <4> QED BY <3>0, <4>1, <4>2 DEF Ended, IsTerminalRunState
      <3> QED BY <3>1, <3>2
    <2> QED BY <2>1 DEF NoReexecution
  <1>5. Offsets'
    BY <1>0, ReadSoFar
  <1> QED BY <1>2, <1>3, <1>4, <1>5 DEF ResultInv

\* And when a record is accepted: a writer that a seal silenced has none, so a
\* work_finished that Kafka accepts is of the execution its Run holds.
LEMMA ResultsAccepted ==
    ASSUME IInv, RowsInv, SilenceInv, ResultInv, NEW t \in transaction,
           Acknowledged(t) \/ ReplyLost(t)
    PROVE  ResultInv'
  <1>0. /\ TypeOK /\ LedgerTypeOK /\ LogInv /\ RecordInv /\ SenderInv /\ InflightInv /\ ScopeInv
        /\ ResultKept /\ TakenBehindSeal /\ Offsets /\ NoReexecution
    BY TypeParts DEF IInv, OrderInv, WriterInv, SilenceInv, ResultInv
  <1>1. /\ log' = Append(log, t.fact) /\ t.fact \in Facts
        /\ UNCHANGED <<run, lease, leaseEpoch, pos, groupOffset>>
    BY <1>0, AcceptedRecord DEF ledger, projector
  <1>2. /\ \A i \in DOMAIN log' : i \in DOMAIN log \/ i = Len(log) + 1
        /\ \A i \in DOMAIN log : i \in DOMAIN log' /\ log'[i] = log[i]
        /\ log'[Len(log) + 1] = t.fact /\ Len(log') = Len(log) + 1 /\ Len(log) \in Nat
    BY <1>0, <1>1 DEF TypeOK
  <1>3. ASSUME t.fact.kind = "finish", NEW w, w = t.fact.writer
        PROVE  run[lease[w].run].lease = w /\ lease[w].run \in Runs
    <2>0. w = scope[t.client] /\ t.client \in Clients /\ t.client = w
      BY <1>0, <1>3 DEF InflightInv, SenderInv, TypeOK
    <2>1. w \in 1..leaseEpoch
      BY <1>0, <2>0 DEF ScopeInv, InflightInv
    <2>2. SUFFICES ASSUME NEW i \in DOMAIN log, log[i].kind = "seal", log[i].writer = w
                   PROVE  FALSE
      BY <1>0, <2>1 DEF TakenBehindSeal, RowsInv, Held
    <2>3. Silent(w)
      BY <1>0, <2>2 DEF RecordInv
    <2> QED BY <2>0, <2>3 DEF Silent
  <1>e. \A d : Ended(d)' <=> Ended(d)
    BY <1>1 DEF Ended
  <1>4. ResultKept'
    <2>1. ASSUME NEW i \in DOMAIN log', log'[i].kind = "finish", NEW w, w = log'[i].writer
          PROVE  /\ run[lease[w].run].lease = w \/ Ended(w)
                 /\ i < pos \/ i < groupOffset => Ended(w)
      <3>1. CASE i \in DOMAIN log
        BY <1>0, <1>2, <2>1, <3>1 DEF ResultKept
      <3>2. CASE i = Len(log) + 1
        <4>1. ~(i < pos) /\ ~(i < groupOffset)
          BY <1>0, <1>2, <3>2 DEF Offsets, TypeOK
        <4> QED BY <1>2, <1>3, <2>1, <3>2, <4>1
      <3> QED BY <1>2, <3>1, <3>2
    <2> QED BY <1>1, <1>e, <2>1 DEF ResultKept
  <1>5. TakenBehindSeal'
    BY <1>0, <1>1, <1>2 DEF TakenBehindSeal
  <1>6. NoReexecution'
    <2>1. ASSUME NEW i \in DOMAIN log', log'[i].kind = "finish",
                 NEW e \in 1..leaseEpoch, lease[e].run = lease[log'[i].writer].run
          PROVE  e <= log'[i].writer
      <3>1. CASE i \in DOMAIN log
        BY <1>0, <1>2, <2>1, <3>1 DEF NoReexecution
      <3>2. CASE i = Len(log) + 1
        <4> DEFINE w == t.fact.writer
        <4>1. log'[i] = t.fact /\ run[lease[w].run].lease = w /\ lease[w].run \in Runs
          BY <1>2, <1>3, <2>1, <3>2
        <4>2. w # 0
          BY <1>1, LedgerAssumption DEF Facts, Leases
        <4> QED BY <2>1, <4>1, <4>2 DEF RowsInv, Held
      <3> QED BY <1>2, <3>1, <3>2
    <2> QED BY <1>1, <2>1 DEF NoReexecution
  <1>7. Offsets'
    BY <1>0, <1>1, <1>2 DEF Offsets, TypeOK
  <1> QED BY <1>4, <1>5, <1>6, <1>7 DEF ResultInv

-----------------------------------------------------------------------------
(* The specification.                                                        *)

OutcomeInv == IInv /\ ClosureInv /\ RowsInv /\ SilenceInv /\ ResultInv

\* Nothing has happened at first.
LEMMA OutcomeStarts == Init => OutcomeInv
  <1> SUFFICES ASSUME Init
               PROVE  OutcomeInv
    OBVIOUS
  <1>1. IInv
    BY InitKeeps
  <1>2. /\ run = [r \in Runs |-> NoRun] /\ lease = [e \in Leases |-> NoLease] /\ leaseEpoch = 0
        /\ log = <<>> /\ transaction = {} /\ phase = [c \in Clients |-> "idle"]
        /\ pos = 1 /\ groupOffset = 1
    BY DEF Init, LedgerInit, WritersInit
  <1>3. ClosureInv
    BY <1>2 DEF NoLease, ClosureInv
  <1>4. RowsInv
    BY <1>2 DEF RowsInv, Told, ToldOf, Held, GivenUp, Failed, NoRun, NoLease
  <1>5. SilenceInv
    BY <1>2 DEF SilenceInv, SenderInv, ControlInv, RecordInv, ClosedLog, Controls
  <1>6. ResultInv
    BY <1>2 DEF ResultInv, ResultKept, TakenBehindSeal, Offsets, NoReexecution
  <1> QED BY <1>1, <1>3, <1>4, <1>5, <1>6 DEF OutcomeInv

\* Every step keeps the whole invariant.
LEMMA OutcomeKept == OutcomeInv /\ [Next]_vars => OutcomeInv'
  <1> SUFFICES ASSUME OutcomeInv, [Next]_vars
               PROVE  OutcomeInv'
    OBVIOUS
  <1>0. /\ IInv /\ ClosureInv /\ RowsInv /\ SilenceInv /\ ResultInv
        /\ TypeOK /\ LogInv /\ RecordInv
    BY DEF OutcomeInv, IInv, OrderInv, WriterInv, SilenceInv
  <1>1. IInv'
    BY <1>0, NextKeeps
  <1>2. ClosureInv'
    BY <1>0, ClosureKept
  <1>3. RowsInv'
    BY <1>0, StepMoves, MovesKeep
  <1>4. SilenceInv'
    BY <1>0, SilenceKept
  <1>5. ResultInv'
    <2>1. CASE BrokerNext
      <3>1. ASSUME NEW t \in transaction, Acknowledged(t) \/ ReplyLost(t)
            PROVE  ResultInv'
        BY <1>0, <3>1, ResultsAccepted
      <3>2. CASE Aborted
        <4>1. log' = log
          BY <3>2 DEF Aborted, Abort
        <4> QED BY <1>0, <4>1, ResultsStay
      <3> QED BY <2>1, <3>1, <3>2 DEF BrokerNext
    <2>2. CASE ~BrokerNext
      <3>1. log' = log
        <4>1. CASE LedgerNext \/ WorkerNext \/ ControlNext
          BY <1>0, <4>1, RunSeals, WorkerSeals, ControlSeals
        <4>2. CASE ProjectCommit \/ ProjectFinish \/ ProjectSeal
          BY <1>0, <4>2, ProjectorSeals
        <4>3. CASE CommitProgress \/ ProjectorRestarts \/ UNCHANGED vars
          BY <4>3 DEF CommitProgress, ProjectorRestarts, vars, writers
        <4> QED BY <2>2, <4>1, <4>2, <4>3 DEF Next, ProjectorNext
      <3> QED BY <1>0, <3>1, ResultsStay
    <2> QED BY <2>1, <2>2
  <1> QED BY <1>1, <1>2, <1>3, <1>4, <1>5 DEF OutcomeInv

\* For every value of the constants, the invariant holds throughout.
THEOREM OutcomeInvHolds == Spec => []OutcomeInv
  BY OutcomeStarts, OutcomeKept, PTL DEF Spec

\* For any number of Runs, leases and faults, nothing an execution publishes lies
\* behind the record that closed its writer, so no closing drops anything that
\* was accepted (#finishWork, #seal, KafkaSessionWriter.append).
THEOREM NothingAfterClosureHolds == Spec => []NothingAfterClosure
  <1>1. OutcomeInv => NothingAfterClosure
    BY ClosedIsBehind DEF OutcomeInv, IInv, SilenceInv
  <1> QED BY <1>1, OutcomeInvHolds, PTL

\* For any number of Runs, leases and faults, a Run has at most one terminal
\* event, and it tells the state of the row (finishWorkIn, #seal).
THEOREM OneTerminalHolds == Spec => []OneTerminal
  <1>1. OutcomeInv => OneTerminal
    <2> SUFFICES ASSUME Told, NEW r \in Runs
                 PROVE  /\ Cardinality(run[r].terminals) <= 1
                        /\ \A t \in run[r].terminals : t[2] = run[r].state
      BY DEF OutcomeInv, RowsInv, OneTerminal
    <2>1. CASE run[r].sealedAt = 0
      <3>1. run[r].terminals = {}
        BY <2>1 DEF Told, ToldOf
      <3>2. Cardinality({}) = 0
        BY FS_EmptySet
      <3> QED BY <3>1, <3>2
    <2>2. CASE run[r].sealedAt # 0
      <3>1. run[r].terminals = {<<run[r].sealedAt, run[r].state>>}
        BY <2>2 DEF Told, ToldOf
      <3>2. Cardinality(run[r].terminals) = 1
        BY <3>1, FS_Singleton
      <3> QED BY <3>1, <3>2
    <2> QED BY <2>1, <2>2
  <1> QED BY <1>1, OutcomeInvHolds, PTL

\* For any number of Runs, leases and faults, a Run whose work_finished Kafka
\* accepted is never executed again: no seal that lost the race queues it, and no
\* lease is issued for it any more (#seal, #claimNext).
THEOREM NoReexecutionHolds == Spec => []NoReexecution
  <1>1. OutcomeInv => NoReexecution
    BY DEF OutcomeInv, ResultInv
  <1> QED BY <1>1, OutcomeInvHolds, PTL

\* For any number of Runs, leases and faults, a Run that reached a terminal state
\* keeps it, whatever record is projected or projected again, and whatever Stop,
\* failure or reconciler comes too late (finishWorkIn, #seal, transitionRun).
THEOREM TerminalStableHolds == Spec => TerminalStable
  <1>1. OutcomeInv /\ [Next]_vars =>
          [\A r \in Runs :
              IsTerminalRunState(run[r].state) => run'[r].state = run[r].state]_vars
    <2> SUFFICES ASSUME OutcomeInv, [Next]_vars, NEW r \in Runs, IsTerminalRunState(run[r].state)
                 PROVE  run'[r].state = run[r].state
      OBVIOUS
    <2>1. Moves
      BY StepMoves DEF OutcomeInv, IInv, OrderInv, WriterInv, SilenceInv
    <2> QED BY <2>1, EndStays
  <1> QED BY <1>1, OutcomeInvHolds, PTL DEF Spec, TerminalStable

-----------------------------------------------------------------------------
(***************************************************************************)
(* The durable history of a Session: the Projector applies every accepted  *)
(* native commit once and in log order, an Agent appends behind all of     *)
(* them, closing a writer drops none, and no record of the log ever makes  *)
(* the Projector throw.                                                    *)
(***************************************************************************)

-----------------------------------------------------------------------------
(* Counting the commits.                                                     *)

\* The commits in front of offset n, and how many there are.
Before(n) == {i \in CommitOffsets : i < n}

Number(n) == Cardinality(Before(n))

\* All the commits there are.
Total == Number(Len(log) + 1)

-----------------------------------------------------------------------------
(* The invariant.                                                            *)

\* A commit carries its place in the history, and a work_finished the place of
\* the commit in front of it, if it published anything.
NumberedLog ==
    \A i \in DOMAIN log :
        /\ log[i].kind = "commit" => log[i].seq = Number(i) + 1
        /\ log[i].kind = "finish" => log[i].seq \in {0, Number(i)}

Unopened(e) == phase[e] \in {"idle", "granted", "initialized"}

\* An execution that may append a native commit without being fenced.
Appends(e) == phase[e] = "open" /\ Unfenced(e) /\ worker[e] \in {"running", "left"}

HeadInv ==
    \A e \in Leases :
        /\ Unopened(e) => sent[e] = 0
        /\ Appends(e) => head[e] + sent[e] = Total

\* What the open transaction adds to the history.
SendingInv ==
    \A t \in transaction :
        /\ t.fact.kind = "commit" =>
              /\ t.fact.seq = Total + 1
              /\ phase[t.client] = "sending" => head[t.client] + sent[t.client] = Total + 1
        /\ t.fact.kind = "finish" => t.fact.seq \in {0, Total}

\* The history is what lies in front of the projected position.
Applied ==
    /\ Len(native) = Number(nextOffset)
    /\ \A n \in DOMAIN native :
          native[n] \in CommitOffsets /\ native[n] < nextOffset /\ n = Number(native[n]) + 1
    /\ \A i \in CommitOffsets :
          i < nextOffset => Number(i) + 1 \in DOMAIN native /\ native[Number(i) + 1] = i

\* Every closure was projected.
Reached ==
    /\ pos <= nextOffset /\ groupOffset <= nextOffset /\ nextOffset <= Len(log) + 1
    /\ \A e \in Leases : lease[e].seal < nextOffset
    /\ \A r \in Runs :
          run[r].sealedAt # 0 =>
              Closes(run[r].sealedAt, run[r].lease) /\ run[r].sealedAt < nextOffset

\* A Run leaves its lease only when the writer is closed, and a writer is closed
\* under its Run only when that is sealed.
Closings ==
    \A e \in 1..leaseEpoch :
        LET r == lease[e].run IN
        IF run[r].lease = e THEN lease[e].seal # 0 => run[r].sealedAt # 0
                            ELSE lease[e].seal # 0

\* A Run with a lease is being worked on or was, one without has published nothing.
Works(x) ==
    IF x.lease = 0 THEN x.first = 0
    ELSE x.state \in {"running", "cancel_requested", "completed", "failed", "cancelled"}

Working == \A r \in Runs : Works(run[r])

\* An end that is not in the log yet is a failure that is to be sealed there.
Decided(r) ==
    run[r].lease # 0 /\ run[r].sealedAt = 0 /\ IsTerminalRunState(run[r].state)
        => run[r].sealId # 0 /\ lease[run[r].lease].outbox = "terminal"

\* The first offset projected for an execution in progress is the first record it
\* published, and the Projector has read it or will.
FirstOf(r) ==
    run[r].lease # 0 /\ run[r].sealedAt = 0 =>
        IF run[r].first = 0
        THEN \A j \in DOMAIN log :
                j < nextOffset /\ log[j].writer = run[r].lease => log[j].kind = "finish"
        ELSE /\ run[r].first \in CommitOffsets /\ run[r].first < nextOffset
             /\ log[run[r].first].writer = run[r].lease
             /\ \A j \in DOMAIN log :
                   log[j].writer = run[r].lease /\ log[j].kind # "finish" => run[r].first <= j
             /\ run[r].lease \in prefixes \/ pos <= run[r].first

WritingInv == NumberedLog /\ HeadInv /\ SendingInv

ExecutionInv == Closings /\ Working /\ \A r \in Runs : Decided(r) /\ FirstOf(r)

HistoryInv == WritingInv /\ Applied /\ Reached /\ ExecutionInv

-----------------------------------------------------------------------------
(* Facts about counting.                                                     *)

\* Offsets are positions of the log.
LEMMA LogOffsets ==
    ASSUME TypeOK
    PROVE  /\ Len(log) \in Nat /\ DOMAIN log = 1..Len(log)
           /\ pos \in Nat \ {0} /\ groupOffset \in Nat \ {0} /\ nextOffset \in Nat \ {0}
           /\ \A i \in DOMAIN log : log[i] \in Facts /\ log[i].writer \in Leases /\ log[i].seq \in Nat
           /\ CommitOffsets \subseteq DOMAIN log
  <1>1. \A f \in Facts : f.writer \in Leases /\ f.seq \in Nat
    BY DEF Facts
  <1> QED BY <1>1 DEF TypeOK, LedgerTypeOK, CommitOffsets

\* The commits in front of an offset can be counted.
LEMMA Countable ==
    ASSUME TypeOK, NEW n \in Nat
    PROVE  IsFiniteSet(Before(n)) /\ Number(n) \in Nat
  <1>1. Before(n) \in SUBSET Nat /\ \A i \in Before(n) : i <= n
    BY LogOffsets DEF Before
  <1>2. IsFiniteSet(Before(n))
    BY <1>1, FS_BoundedSetOfNaturals
  <1> QED BY <1>2, FS_CardinalityType DEF Number

\* Going on by one record counts it if it is a commit.
LEMMA CountNext ==
    ASSUME TypeOK, NEW i \in DOMAIN log
    PROVE  Number(i + 1) = IF log[i].kind = "commit" THEN Number(i) + 1 ELSE Number(i)
  <1>0. i \in Nat /\ CommitOffsets \subseteq Nat
    BY LogOffsets
  <1>1. CASE log[i].kind = "commit"
    <2>1. Before(i + 1) = Before(i) \cup {i} /\ i \notin Before(i)
      BY <1>0, <1>1 DEF Before, CommitOffsets
    <2>2. Cardinality(Before(i) \cup {i}) = Cardinality(Before(i)) + 1
      BY <1>0, <2>1, Countable, FS_AddElement
    <2> QED BY <1>1, <2>1, <2>2 DEF Number
  <1>2. CASE log[i].kind # "commit"
    <2>1. Before(i + 1) = Before(i)
      BY <1>0, <1>2 DEF Before, CommitOffsets
    <2> QED BY <1>2, <2>1 DEF Number
  <1> QED BY <1>1, <1>2

\* No commit between two offsets: as many in front of the one as of the other.
LEMMA CountSame ==
    ASSUME TypeOK, NEW i \in Nat, NEW n \in Nat, i <= n,
           \A j \in CommitOffsets : ~(i <= j /\ j < n)
    PROVE  Number(n) = Number(i)
  <1>1. Before(n) = Before(i)
    BY LogOffsets DEF Before
  <1> QED BY <1>1 DEF Number

\* All of them.
LEMMA CountAll ==
    ASSUME TypeOK
    PROVE  Total = Cardinality(CommitOffsets) /\ Total \in Nat
  <1>1. Before(Len(log) + 1) = CommitOffsets
    BY LogOffsets DEF Before
  <1> QED BY <1>1, LogOffsets, Countable DEF Total, Number

\* A record more changes nothing in front of it.
LEMMA CountStays ==
    ASSUME TypeOK, NEW f, log' = Append(log, f)
    PROVE  /\ \A i \in DOMAIN log : i \in DOMAIN log' /\ log'[i] = log[i]
           /\ \A i \in DOMAIN log' : i \in DOMAIN log \/ i = Len(log) + 1
           /\ Len(log') = Len(log) + 1 /\ Len(log') \in DOMAIN log' /\ log'[Len(log) + 1] = f
           /\ \A i \in CommitOffsets : i \in CommitOffsets'
           /\ \A n \in Nat : n <= Len(log) + 1 => Number(n)' = Number(n)
  <1>1. /\ \A i \in DOMAIN log : i \in DOMAIN log' /\ log'[i] = log[i]
        /\ \A i \in DOMAIN log' : i \in DOMAIN log \/ i = Len(log) + 1
        /\ Len(log') = Len(log) + 1 /\ Len(log') \in DOMAIN log' /\ log'[Len(log) + 1] = f
    BY DEF TypeOK
  <1>2. \A i \in CommitOffsets : i \in CommitOffsets'
    BY <1>1 DEF CommitOffsets
  <1>3. ASSUME NEW n \in Nat, n <= Len(log) + 1
        PROVE  Number(n)' = Number(n)
    <2>1. ASSUME NEW i \in CommitOffsets', i < n
          PROVE  i \in CommitOffsets
      <3>1. i \in DOMAIN log' /\ log'[i].kind = "commit"
        BY <2>1 DEF CommitOffsets
      <3>2. i \in DOMAIN log
        BY <1>1, <1>3, <2>1, <3>1, LogOffsets
      <3> QED BY <1>1, <3>1, <3>2 DEF CommitOffsets
    <2>2. Before(n)' = Before(n)
      BY <1>2, <2>1 DEF Before
    <2> QED BY <2>2 DEF Number
  <1> QED BY <1>1, <1>2, <1>3

-----------------------------------------------------------------------------
(* Transactions that project nothing.                                        *)

\* A row that keeps its offsets and its work, and only ends with a seal request.
Plain(x, y) ==
    /\ y.first = x.first /\ y.sealedAt = x.sealedAt
    /\ x.lease # 0 => y.lease = x.lease
    /\ Works(x) => Works(y)
    /\ y.lease # 0 /\ IsTerminalRunState(y.state)
         => IsTerminalRunState(x.state) \/ y.sealId # x.sealId

Unprojected ==
    /\ UNCHANGED <<native, nextOffset>>
    /\ \A p \in Runs : Plain(run[p], run'[p])

\* Changing one row plainly, and advancing the lane, changes all rows plainly.
LEMMA PlainRow ==
    ASSUME LedgerTypeOK, NEW r \in Runs, NEW row, NEW s, Plain(run[r], row), row \in RunRow,
           \/ run' = [run EXCEPT ![r] = row]
           \/ run' = AdvanceLaneReadiness([run EXCEPT ![r] = row], s)
    PROVE  \A p \in Runs : Plain(run[p], run'[p])
  <1> DEFINE runs == [run EXCEPT ![r] = row]
  <1>1. runs \in [Runs -> RunRow] /\ runs[r] = row /\ \A p \in Runs \ {r} : runs[p] = run[p]
    BY DEF LedgerTypeOK
  <1>2. \A p \in Runs : Plain(run[p], run[p])
    BY DEF Plain
  <1>3. \A p \in Runs : Plain(run[p], runs[p])
    BY <1>1, <1>2
  <1>4. CASE run' = runs
    BY <1>3, <1>4
  <1>5. CASE run' = AdvanceLaneReadiness(runs, s)
    <2> HIDE DEF runs
    <2>1. ASSUME NEW p \in Runs
          PROVE  Plain(run[p], run'[p])
      <3>1. runs[p] \in RunRow
        BY <1>1
      <3>2. run'[p] = runs[p] \/ run'[p] = [runs[p] EXCEPT !.ready = TRUE]
        BY <1>1, <1>5 DEF AdvanceLaneReadiness
      <3>3. /\ run'[p].first = runs[p].first /\ run'[p].sealedAt = runs[p].sealedAt
            /\ run'[p].lease = runs[p].lease /\ run'[p].state = runs[p].state
            /\ run'[p].sealId = runs[p].sealId
        BY <3>1, <3>2 DEF RunRow
      <3> QED BY <1>3, <3>3 DEF Plain, Works
    <2> QED BY <2>1
  <1> QED BY <1>4, <1>5

\* Giving an execution up, whatever is decided of its Run with it.
LEMMA GiveUpPlain ==
    ASSUME LedgerTypeOK, NEW e \in Leases, NEW row \in RunRow, NEW recover \in BOOLEAN,
           lease[e].run \in Runs, run[lease[e].run].sealId = 0, GiveUp(e, row, recover),
           row.first = run[lease[e].run].first, row.sealedAt = run[lease[e].run].sealedAt,
           row.lease = run[lease[e].run].lease, row.sealId = 0,
           row.state = run[lease[e].run].state \/ row.state = "failed"
    PROVE  \A p \in Runs : Plain(run[p], run'[p])
  <1> DEFINE r == lease[e].run
             asked == SealRequested(row, e, recover)
             given == [asked EXCEPT !.released = TRUE]
  <1>1. run' = [run EXCEPT ![r] = given]
    BY DEF GiveUp
  <1>2. e \in 1..MaxLease /\ e # 0
    BY LedgerAssumption DEF Leases
  <1>3. asked = [row EXCEPT !.sealId = e, !.recovering = @ \/ recover]
    BY DEF SealRequested
  <1>4. asked \in RunRow
    <2> DEFINE marked == [row EXCEPT !.sealId = e]
    <2>1. marked \in RunRow
      BY <1>2 DEF RunRow
    <2>2. \A b \in BOOLEAN : [marked EXCEPT !.recovering = b] \in RunRow
      <3> HIDE DEF marked
      <3> QED BY <2>1 DEF RunRow
    <2>3. (row.recovering \/ recover) \in BOOLEAN
      OBVIOUS
    <2>4. asked = [marked EXCEPT !.recovering = row.recovering \/ recover]
      BY <1>3, Zenon
    <2> QED BY <2>2, <2>3, <2>4
  <1>5. /\ given \in RunRow /\ given.first = row.first /\ given.sealedAt = row.sealedAt
        /\ given.lease = row.lease /\ given.state = row.state /\ given.sealId = e
    BY <1>3, <1>4 DEF RunRow
  <1>6. Plain(run[r], given)
    BY <1>2, <1>5 DEF Plain, Works
  <1> QED BY <1>1, <1>5, <1>6, PlainRow

\* The scope of an active execution: its Run, not asked to seal yet.
LEMMA ActiveRun ==
    ASSUME LedgerTypeOK, RowsInv, NEW e, ActiveScope(e)
    PROVE  /\ e \in Leases /\ lease[e].run \in Runs /\ run[lease[e].run] \in RunRow
           /\ run[lease[e].run].sealId = 0
  <1>1. e \in 1..leaseEpoch
    BY DEF ActiveScope
  <1>2. e \in Leases
    BY <1>1, LedgerAssumption DEF LedgerTypeOK, Leases
  <1>3. lease[e].run \in Runs
    BY <1>1 DEF RowsInv, Held
  <1> QED BY <1>2, <1>3 DEF ActiveScope, RowsInv, GivenUp, LedgerTypeOK

\* Admission, Stops and claims.
LEMMA AdmissionUnprojected ==
    ASSUME LedgerTypeOK, RowsInv, NEW r \in Runs,
           \/ Enqueue(r) \/ AcceptCancel(r) \/ CancelUnclaimed(r) \/ DispatchCancel(r)
           \/ StartCancel(r) \/ CancelNotStarted(r, TRUE) \/ CancelNotStarted(r, FALSE)
           \/ FailStartedCancel(r) \/ Claim(r)
    PROVE  Unprojected
  <1>0. run[r] \in RunRow
    BY DEF LedgerTypeOK
  <1>u. UNCHANGED <<native, nextOffset>>
    BY DEF Enqueue, AcceptCancel, CancelUnclaimed, DispatchCancel, StartCancel,
           CancelNotStarted, FailStartedCancel, Claim
  <1>1. CASE Enqueue(r)
    <2> DEFINE row == [run[r] EXCEPT !.state = "queued", !.ready = LaneReady(run, session, r)]
    <2>1. row \in RunRow
      BY <1>0, ReadyType DEF RunRow, RunState
    <2>2. Plain(run[r], row)
      BY <1>0, <1>1 DEF Enqueue, Plain, Works, RunRow, IsTerminalRunState
    <2>3. run' = [run EXCEPT ![r] = row]
      BY <1>1 DEF Enqueue, LedgerTypeOK
    <2> QED BY <1>u, <2>1, <2>2, <2>3, PlainRow DEF Unprojected
  <1>2. CASE CancelUnclaimed(r)
    <2> DEFINE row == [run[r] EXCEPT !.state = "cancelled", !.ready = FALSE, !.cancel = "completed"]
    <2>1. row \in RunRow
      BY <1>0 DEF RunRow, RunState, ControlRequestState
    <2>2. Plain(run[r], row)
      BY <1>0, <1>2 DEF CancelUnclaimed, Plain, Works, RunRow
    <2>3. run' = AdvanceLaneReadiness([run EXCEPT ![r] = row], session)
      BY <1>2 DEF CancelUnclaimed, LedgerTypeOK
    <2> QED BY <1>u, <2>1, <2>2, <2>3, PlainRow DEF Unprojected
  <1>3. CASE StartCancel(r)
    <2> DEFINE row == [run[r] EXCEPT !.state = "cancel_requested", !.cancel = "acknowledged"]
    <2>1. row \in RunRow
      BY <1>0 DEF RunRow, RunState, ControlRequestState
    <2>2. Plain(run[r], row)
      BY <1>0 DEF Plain, Works, RunRow, IsTerminalRunState
    <2>3. run' = [run EXCEPT ![r] = row]
      BY <1>3 DEF StartCancel, LedgerTypeOK
    <2> QED BY <1>u, <2>1, <2>2, <2>3, PlainRow DEF Unprojected
  <1>4. CASE \/ AcceptCancel(r) \/ DispatchCancel(r)
             \/ CancelNotStarted(r, TRUE) \/ CancelNotStarted(r, FALSE)
    <2>1. PICK c \in ControlRequestState : run' = [run EXCEPT ![r].cancel = c]
      BY <1>4 DEF AcceptCancel, DispatchCancel, CancelNotStarted, ControlRequestState
    <2> DEFINE row == [run[r] EXCEPT !.cancel = c]
    <2>2. row \in RunRow /\ Plain(run[r], row)
      BY <1>0 DEF RunRow, Plain, Works
    <2>3. run' = [run EXCEPT ![r] = row]
      BY <2>1 DEF LedgerTypeOK
    <2> QED BY <1>u, <2>2, <2>3, PlainRow DEF Unprojected
  <1>5. CASE FailStartedCancel(r)
    <2> DEFINE e == run[r].lease
               row == [run[r] EXCEPT !.state = "failed", !.cancel = "failed"]
    <2>1. ActiveScope(e) /\ GiveUp(e, row, FALSE)
      BY <1>5 DEF FailStartedCancel
    <2>2. e \in Leases /\ run[lease[e].run].sealId = 0
      BY <2>1, ActiveRun
    <2>3. lease[e].run = r
      BY <2>1 DEF ActiveScope, RowsInv, Held
    <2>4. /\ row \in RunRow /\ row.first = run[r].first /\ row.sealedAt = run[r].sealedAt
          /\ row.lease = run[r].lease /\ row.sealId = run[r].sealId /\ row.state = "failed"
      BY <1>0 DEF RunRow, RunState, ControlRequestState
    <2>5. \A p \in Runs : Plain(run[p], run'[p])
      BY <2>1, <2>2, <2>3, <2>4, GiveUpPlain
    <2> QED BY <1>u, <2>5 DEF Unprojected
  <1>6. CASE Claim(r)
    <2> DEFINE row == [run[r] EXCEPT !.state = "running", !.ready = FALSE,
                                     !.recovering = FALSE, !.lease = leaseEpoch + 1]
    <2>1. /\ run' = [run EXCEPT ![r] = row] /\ run[r].lease = 0 /\ leaseEpoch + 1 \in Leases
      BY <1>6 DEF Claim, Claimable, LedgerTypeOK
    <2>2. row \in RunRow
      <3>1. leaseEpoch + 1 \in 0..MaxLease /\ r \in 0..NumRuns /\ "running" \in RunState
        BY <2>1, LedgerAssumption DEF Leases, Runs, RunState
      <3>2. lease[leaseEpoch + 1] \in LeaseRow
        BY <2>1 DEF LedgerTypeOK
      <3> QED BY <1>0, <3>1, <3>2, ClaimMarks
    <2>3. Plain(run[r], row)
      BY <1>0, <2>1 DEF Plain, Works, RunRow, IsTerminalRunState
    <2> QED BY <1>u, <2>1, <2>2, <2>3, PlainRow DEF Unprojected
  <1> QED BY <1>1, <1>2, <1>3, <1>4, <1>5, <1>6

\* What the executor and the reconcilers write for lease e.
LEMMA ExecutionUnprojected ==
    ASSUME LedgerTypeOK, RowsInv, NEW e \in Leases,
           \/ RequestRecovery(e) \/ ConfirmAgentExit(e) \/ Expire(e)
           \/ \E quarantine \in BOOLEAN : RecordFailure(e, quarantine)
           \/ \E requireExpired \in BOOLEAN : Reconcile(e, requireExpired)
    PROVE  Unprojected
  <1> DEFINE r == lease[e].run
  <1>u. UNCHANGED <<native, nextOffset>>
    BY DEF RequestRecovery, ConfirmAgentExit, Expire, RecordFailure, Reconcile
  <1>0. e \in 1..leaseEpoch
    BY DEF RequestRecovery, ConfirmAgentExit, Expire, RecordFailure, Reconcile, ActiveScope
  <1>1. r \in Runs /\ run[r] \in RunRow
    BY <1>0 DEF RowsInv, Held, LedgerTypeOK
  <1>2. ASSUME ActiveScope(e), NEW recover \in BOOLEAN, GiveUp(e, run[r], recover)
        PROVE  Unprojected
    BY <1>u, <1>1, <1>2, ActiveRun, GiveUpPlain DEF Unprojected
  <1>3. CASE RequestRecovery(e)
    BY <1>2, <1>3 DEF RequestRecovery
  <1>4. CASE \E quarantine \in BOOLEAN : RecordFailure(e, quarantine)
    <2> DEFINE row == [run[r] EXCEPT !.state = "failed"]
    <2>1. ActiveScope(e) /\ GiveUp(e, row, FALSE)
      BY <1>4 DEF RecordFailure
    <2>2. run[r].sealId = 0
      BY <2>1, ActiveRun
    <2>3. /\ row \in RunRow /\ row.first = run[r].first /\ row.sealedAt = run[r].sealedAt
          /\ row.lease = run[r].lease /\ row.sealId = run[r].sealId /\ row.state = "failed"
      BY <1>1 DEF RunRow, RunState
    <2>4. \A p \in Runs : Plain(run[p], run'[p])
      BY <1>1, <2>1, <2>2, <2>3, GiveUpPlain
    <2> QED BY <1>u, <2>4 DEF Unprojected
  <1>5. CASE \E requireExpired \in BOOLEAN : Reconcile(e, requireExpired)
    <2>1. CASE IsActiveRunState(run[r].state)
      BY <1>2, <1>5, <2>1 DEF Reconcile
    <2>2. CASE ~IsActiveRunState(run[r].state)
      <3> DEFINE row == [run[r] EXCEPT !.released = TRUE]
      <3>1. run' = [run EXCEPT ![r] = row]
        BY <1>5, <2>2 DEF Reconcile, LedgerTypeOK
      <3>2. row \in RunRow /\ Plain(run[r], row)
        BY <1>1 DEF RunRow, Plain, Works
      <3> QED BY <1>u, <1>1, <3>1, <3>2, PlainRow DEF Unprojected
    <2> QED BY <2>1, <2>2
  <1>6. CASE ConfirmAgentExit(e)
    <2> DEFINE row == [run[r] EXCEPT !.exited = TRUE]
               runs == [run EXCEPT ![r] = row]
    <2>1. run' = runs \/ run' = AdvanceLaneReadiness(runs, "idle")
      BY <1>6 DEF ConfirmAgentExit, LedgerTypeOK
    <2>2. row \in RunRow /\ Plain(run[r], row)
      BY <1>1 DEF RunRow, Plain, Works
    <2> QED BY <1>u, <1>1, <2>1, <2>2, PlainRow DEF Unprojected
  <1>7. CASE Expire(e)
    BY <1>u, <1>7 DEF Expire, Unprojected, Plain
  <1> QED BY <1>3, <1>4, <1>5, <1>6, <1>7

Projecting == ProjectCommit \/ ProjectFinish \/ ProjectSeal

\* Every step that projects no record is one.
LEMMA StepUnprojected ==
    ASSUME TypeOK, RowsInv, [Next]_vars, ~Projecting
    PROVE  /\ Unprojected /\ SealsKept(lease, lease') /\ LogGrows
           /\ UNCHANGED projector \/ CommitProgress \/ ProjectorRestarts
  <1>t. LedgerTypeOK
    BY TypeParts
  <1>u. ASSUME UNCHANGED ledger
        PROVE  Unprojected /\ SealsKept(lease, lease')
    BY <1>u DEF ledger, Unprojected, Plain, SealsKept
  <1>1. CASE LedgerNext
    <2>1. SealsKept(lease, lease') /\ LogGrows
      BY <1>1, RunSeals DEF LogGrows
    <2>2. UNCHANGED projector
      BY <1>1 DEF LedgerNext, LedgerStep, ClaimRun
    <2>3. PICK r \in Runs :
         \/ (Enqueue(r) \/ AcceptCancel(r) \/ CancelUnclaimed(r)) /\ LedgerStep
         \/ (DispatchCancel(r) \/ StartCancel(r) \/ CancelNotStarted(r, TRUE)) /\ LedgerStep
         \/ (CancelNotStarted(r, FALSE) \/ FailStartedCancel(r))
            /\ UNCHANGED <<writers, workers, projector>> /\ Fault
         \/ ClaimRun(r)
      BY <1>1, Zenon DEF LedgerNext
    <2>4. \/ Enqueue(r) \/ AcceptCancel(r) \/ CancelUnclaimed(r) \/ DispatchCancel(r)
          \/ StartCancel(r) \/ CancelNotStarted(r, TRUE) \/ CancelNotStarted(r, FALSE)
          \/ FailStartedCancel(r) \/ Claim(r)
      BY <2>3, Zenon DEF ClaimRun
    <2> QED BY <1>t, <2>1, <2>2, <2>4, AdmissionUnprojected
  <1>2. CASE WorkerNext
    <2>1. SealsKept(lease, lease') /\ LogGrows
      BY <1>2, WorkerSeals DEF LogGrows
    <2>2. UNCHANGED projector
      BY <1>2, Zenon DEF WorkerNext, WorkerBeginsOpen, WorkerInitializes, WorkerOpens,
           WorkerOpenRefused, WorkerOpenFails, SendCommit, SendFinish,
           WorkerRequestsRecovery, WorkerLeaves, WorkerCloses, WorkerRecordsFailure,
           ExitConfirmed, WorkerCrashes, LeaseExpires, SweepExpired, WorkerRetired,
           AppendFailed, InDoubt, WriterStep, LedgerStep, projector
    <2>3. UNCHANGED ledger \/ \E e \in 1..leaseEpoch :
            \/ RequestRecovery(e) \/ ConfirmAgentExit(e) \/ Expire(e)
            \/ \E quarantine \in BOOLEAN : RecordFailure(e, quarantine)
            \/ \E requireExpired \in BOOLEAN : Reconcile(e, requireExpired)
      <3>1. PICK e \in 1..leaseEpoch :
         \/ WorkerBeginsOpen(e) \/ WorkerInitializes(e) \/ WorkerOpens(e)
         \/ WorkerOpenRefused(e) \/ WorkerOpenFails(e)
         \/ SendCommit(e) \/ (\E o \in Outcome : SendFinish(e, o))
         \/ WorkerRequestsRecovery(e) \/ WorkerLeaves(e) \/ WorkerCloses(e)
         \/ (\E quarantine \in BOOLEAN : WorkerRecordsFailure(e, quarantine))
         \/ ExitConfirmed(e) \/ WorkerCrashes(e)
         \/ LeaseExpires(e) \/ SweepExpired(e) \/ WorkerRetired(e)
         \/ AppendFailed(e) \/ InDoubt(e)
        BY <1>2, Zenon DEF WorkerNext
      <3>2. CASE \/ WorkerRequestsRecovery(e) \/ ExitConfirmed(e) \/ LeaseExpires(e)
                 \/ SweepExpired(e) \/ WorkerRetired(e)
                 \/ \E quarantine \in BOOLEAN : WorkerRecordsFailure(e, quarantine)
        <4>1. \/ RequestRecovery(e) \/ ConfirmAgentExit(e) \/ Expire(e)
              \/ \E quarantine \in BOOLEAN : RecordFailure(e, quarantine)
              \/ \E requireExpired \in BOOLEAN : Reconcile(e, requireExpired)
          BY <3>2 DEF WorkerRequestsRecovery, ExitConfirmed, LeaseExpires, SweepExpired,
                      WorkerRetired, WorkerRecordsFailure
        <4> QED BY <4>1
      <3>3. CASE \/ WorkerBeginsOpen(e) \/ WorkerInitializes(e) \/ WorkerOpens(e)
                 \/ WorkerOpenRefused(e) \/ WorkerOpenFails(e)
                 \/ SendCommit(e) \/ (\E o \in Outcome : SendFinish(e, o))
                 \/ WorkerLeaves(e) \/ WorkerCloses(e) \/ WorkerCrashes(e)
                 \/ AppendFailed(e) \/ InDoubt(e)
        <4>1. UNCHANGED ledger
          BY <3>3, Zenon DEF WorkerBeginsOpen, WorkerInitializes, WorkerOpens, WorkerOpenRefused,
               WorkerOpenFails, SendCommit, SendFinish, WorkerLeaves, WorkerCloses,
               WorkerCrashes, AppendFailed, InDoubt, WriterStep, ledger
        <4> QED BY <4>1
      <3> QED BY <3>1, <3>2, <3>3
    <2> QED BY <1>t, <1>u, <2>1, <2>2, <2>3, Issued, ExecutionUnprojected
  <1>3. CASE ControlNext
    <2>1. SealsKept(lease, lease') /\ LogGrows
      BY <1>3, ControlSeals DEF LogGrows
    <2>2. UNCHANGED projector
      BY <1>3, Zenon DEF ControlNext, ControlSkips, ControlBegins, ControlInitializes,
           ControlOpens, ControlRefused, ControlAppends, ControlReceipt, ControlFails,
           AppendFailed, InDoubt, WriterStep, LedgerStep, projector
    <2>3. UNCHANGED <<run, native, nextOffset>>
      BY <1>3, Zenon DEF ControlNext, ControlSkips, ControlBegins, ControlInitializes,
           ControlOpens, ControlRefused, ControlAppends, ControlReceipt, ControlFails,
           AppendFailed, InDoubt, WriterStep, ledger
    <2> QED BY <2>1, <2>2, <2>3 DEF Unprojected, Plain
  <1>4. CASE BrokerNext
    <2>1. UNCHANGED ledger /\ UNCHANGED projector
      BY <1>4, Zenon DEF BrokerNext, Acknowledged, ReplyLost, Aborted, WriterStep, ledger, projector
    <2> QED BY <1>4, <1>u, <2>1, BrokerSeals
  <1>5. CASE CommitProgress \/ ProjectorRestarts
    <2>1. UNCHANGED ledger /\ log' = log
      BY <1>5 DEF CommitProgress, ProjectorRestarts, writers
    <2> QED BY <1>5, <1>u, <2>1 DEF LogGrows
  <1>6. CASE UNCHANGED vars
    <2>1. UNCHANGED ledger /\ UNCHANGED projector /\ log' = log
      BY <1>6 DEF vars, writers
    <2> QED BY <1>u, <2>1 DEF LogGrows
  <1> QED BY <1>1, <1>2, <1>3, <1>4, <1>5, <1>6 DEF Next, ProjectorNext, Projecting

-----------------------------------------------------------------------------
(* What the rows say of the executions.                                      *)

\* A Run gets no lease but the one a claim issues.
LEMMA LeaseFrom ==
    ASSUME Moves, NEW p \in Runs
    PROVE  run'[p].lease = run[p].lease \/ run'[p].lease = 0 \/ Claims(p)
  <1>1. ASSUME NEW r, Others(r), p # r
        PROVE  run'[p].lease = run[p].lease
    BY <1>1 DEF Others, Steady, Like
  <1>2. ASSUME NEW e \in Leases, NEW recover \in BOOLEAN, Gives(e, recover)
        PROVE  run'[p].lease = run[p].lease
    BY <1>1, <1>2 DEF Gives
  <1>3. ASSUME NEW r \in Runs, Claims(r)
        PROVE  run'[p].lease = run[p].lease \/ Claims(p)
    BY <1>1, <1>3 DEF Claims
  <1>4. ASSUME NEW r \in Runs, NEW i, NEW o, Settles(r, i, o)
        PROVE  run'[p].lease = run[p].lease
    BY <1>1, <1>4 DEF Settles
  <1>5. ASSUME NEW r \in Runs, Requeues(r)
        PROVE  run'[p].lease = run[p].lease \/ run'[p].lease = 0
    BY <1>1, <1>5 DEF Requeues
  <1>6. CASE Rests
    BY <1>6 DEF Rests, Steady, Like
  <1> QED BY <1>2, <1>3, <1>4, <1>5, <1>6 DEF Moves

\* The lease of a Run was issued for it.
LEMMA LeaseOfRun ==
    ASSUME TypeOK, RowsInv, NEW r \in Runs, run[r].lease # 0
    PROVE  run[r].lease \in 1..leaseEpoch /\ run[r].lease \in Leases /\ lease[run[r].lease].run = r
  <1>1. run[r].lease \in 1..leaseEpoch
    BY DEF RowsInv, Held, TypeOK, LedgerTypeOK
  <1> QED BY <1>1, Issued DEF RowsInv, Held

\* Whatever a step does to the rows, an end that is not in the log yet is a failure
\* that is to be sealed there.
LEMMA DecidedStays ==
    ASSUME TypeOK, RowsInv, Moves, \A p \in Runs : Decided(p), NEW r \in Runs,
           run'[r].lease # 0 /\ run'[r].sealedAt = 0 /\ IsTerminalRunState(run'[r].state)
             => IsTerminalRunState(run[r].state) \/ run'[r].sealId # run[r].sealId
    PROVE  Decided(r)'
  <1> SUFFICES ASSUME run'[r].lease # 0, run'[r].sealedAt = 0, IsTerminalRunState(run'[r].state)
               PROVE  run'[r].sealId # 0 /\ lease'[run'[r].lease].outbox = "terminal"
    BY DEF Decided
  <1>0. IsTerminalRunState(run[r].state) \/ run'[r].sealId # run[r].sealId
    OBVIOUS
  <1>1. ASSUME Steady(run[r], run'[r]), run[r].lease # 0 =>
                  lease'[run[r].lease].outbox = lease[run[r].lease].outbox
        PROVE  run'[r].sealId # 0 /\ lease'[run'[r].lease].outbox = "terminal"
    BY <1>0, <1>1 DEF Steady, Like, Decided
  <1>2. CASE Rests
    BY <1>1, <1>2, LeaseOfRun DEF Rests, LeasesSteady, SameLease
  <1>3. ASSUME NEW q \in Runs, Claims(q)
        PROVE  run'[r].sealId # 0 /\ lease'[run'[r].lease].outbox = "terminal"
    <2>1. CASE r = q
      BY <1>3, <2>1 DEF Claims, IsTerminalRunState
    <2>2. CASE r # q
      <3>1. Steady(run[r], run'[r])
        BY <1>3, <2>2 DEF Claims, Others
      <3>2. ASSUME run[r].lease # 0
            PROVE  lease'[run[r].lease].outbox = lease[run[r].lease].outbox
        <4>1. run[r].lease \in Leases /\ run[r].lease # leaseEpoch + 1
          BY <3>2, LeaseOfRun DEF TypeOK, LedgerTypeOK
        <4> QED BY <1>3, <4>1 DEF Claims, SameLease
      <3> QED BY <1>1, <3>1, <3>2
    <2> QED BY <2>1, <2>2
  <1>4. ASSUME NEW e \in Leases, NEW recover \in BOOLEAN, Gives(e, recover)
        PROVE  run'[r].sealId # 0 /\ lease'[run'[r].lease].outbox = "terminal"
    <2>0. e # 0
      BY LedgerAssumption DEF Leases
    <2>1. CASE r = lease[e].run
      <3>1. /\ run[r].lease = e /\ run[r].sealId = 0 /\ run'[r].sealId = e /\ run'[r].lease = e
            /\ run'[r].sealedAt = run[r].sealedAt
        BY <1>4, <2>1 DEF Gives
      <3>2. ~recover
        <4>1. ~IsTerminalRunState(run[r].state)
          BY <2>0, <3>1 DEF Decided
        <4> QED BY <1>4, <2>1, <4>1 DEF Gives
      <3> QED BY <1>4, <2>0, <3>1, <3>2 DEF Gives
    <2>2. CASE r # lease[e].run
      <3>1. Steady(run[r], run'[r])
        BY <1>4, <2>2 DEF Gives, Others
      <3>2. ASSUME run[r].lease # 0
            PROVE  lease'[run[r].lease].outbox = lease[run[r].lease].outbox
        BY <1>4, <2>2, <3>2, LeaseOfRun DEF Gives, SameLease
      <3> QED BY <1>1, <3>1, <3>2
    <2> QED BY <2>1, <2>2
  <1>5. ASSUME NEW q \in Runs, NEW i \in Nat \ {0}, NEW o \in Outcome, Settles(q, i, o)
        PROVE  run'[r].sealId # 0 /\ lease'[run'[r].lease].outbox = "terminal"
    <2>1. r # q
      BY <1>5 DEF Settles
    <2> QED BY <1>1, <1>5, <2>1, LeaseOfRun DEF Settles, Others, LeasesSteady, SameLease
  <1>6. ASSUME NEW q \in Runs, Requeues(q)
        PROVE  run'[r].sealId # 0 /\ lease'[run'[r].lease].outbox = "terminal"
    <2>1. r # q
      BY <1>6 DEF Requeues
    <2> QED BY <1>1, <1>6, <2>1, LeaseOfRun DEF Requeues, Others, LeasesSteady, SameLease
  <1> QED BY <1>2, <1>3, <1>4, <1>5, <1>6 DEF Moves

\* What the invariants give, by name.
LEMMA Parts ==
    ASSUME OutcomeInv, HistoryInv
    PROVE  /\ TypeOK /\ LedgerTypeOK /\ LeaseInv /\ WriterInv /\ LogInv /\ WriterOrder
           /\ InflightInv /\ EpochInv /\ ScopeInv
           /\ ClosureInv /\ RowsInv /\ SenderInv /\ RecordInv /\ ClosedLog /\ Offsets
           /\ NothingAfterClosure
           /\ NumberedLog /\ HeadInv /\ SendingInv /\ Applied /\ Reached
           /\ Closings /\ Working /\ \A r \in Runs : Decided(r) /\ FirstOf(r)
  <1>1. /\ TypeOK /\ LeaseInv /\ WriterInv /\ LogInv /\ WriterOrder
        /\ InflightInv /\ EpochInv /\ ScopeInv
        /\ ClosureInv /\ RowsInv /\ SenderInv /\ RecordInv /\ ClosedLog /\ Offsets
    BY DEF OutcomeInv, IInv, OrderInv, WriterInv, SilenceInv, ResultInv
  <1>2. LedgerTypeOK /\ NothingAfterClosure
    BY <1>1, TypeParts, ClosedIsBehind
  <1> QED BY <1>1, <1>2 DEF HistoryInv, WritingInv, ExecutionInv

-----------------------------------------------------------------------------
(* A step that projects nothing keeps what was projected.                    *)

\* The history is still what lies in front of the projected position,
LEMMA AppliedStays ==
    ASSUME TypeOK, Applied, Reached, LogGrows, UNCHANGED <<native, nextOffset>>
    PROVE  Applied'
  <1>0. nextOffset \in Nat /\ nextOffset <= Len(log) + 1 /\ Len(log) \in Nat
    BY LogOffsets DEF Reached
  <1>1. /\ \A n \in Nat : n <= Len(log) + 1 => Number(n)' = Number(n)
        /\ \A i \in CommitOffsets : i \in CommitOffsets' /\ i \in Nat /\ i <= Len(log)
        /\ \A i \in CommitOffsets' : i <= Len(log) => i \in CommitOffsets
        /\ \A i \in CommitOffsets' : i \in Nat
    <2>0. CommitOffsets \subseteq 1..Len(log)
      BY LogOffsets
    <2>1. CASE log' = log
      <3>1. CommitOffsets' = CommitOffsets
        BY <2>1 DEF CommitOffsets
      <3>2. \A n : Before(n)' = Before(n)
        BY <3>1 DEF Before
      <3> QED BY <2>0, <3>1, <3>2 DEF Number
    <2>2. ASSUME NEW t \in transaction, log' = Append(log, t.fact)
          PROVE  /\ \A n \in Nat : n <= Len(log) + 1 => Number(n)' = Number(n)
                 /\ \A i \in CommitOffsets : i \in CommitOffsets' /\ i \in Nat /\ i <= Len(log)
                 /\ \A i \in CommitOffsets' : i <= Len(log) => i \in CommitOffsets
                 /\ \A i \in CommitOffsets' : i \in Nat
      <3>1. /\ \A i \in DOMAIN log : i \in DOMAIN log' /\ log'[i] = log[i]
            /\ \A i \in DOMAIN log' : i \in DOMAIN log \/ i = Len(log) + 1
            /\ \A i \in CommitOffsets : i \in CommitOffsets'
            /\ \A n \in Nat : n <= Len(log) + 1 => Number(n)' = Number(n)
        BY <2>2, CountStays
      <3>2. \A i \in CommitOffsets' : i \in Nat /\ (i <= Len(log) => i \in CommitOffsets)
        BY <1>0, <3>1, LogOffsets DEF CommitOffsets
      <3> QED BY <2>0, <3>1, <3>2
    <2> QED BY <2>1, <2>2 DEF LogGrows
  <1>2. Number(nextOffset)' = Number(nextOffset)
    BY <1>0, <1>1
  <1>3. ASSUME NEW n \in DOMAIN native
        PROVE  native[n] \in CommitOffsets' /\ native[n] < nextOffset
               /\ n = Number(native[n])' + 1
    <2>1. native[n] \in CommitOffsets /\ native[n] < nextOffset /\ n = Number(native[n]) + 1
      BY DEF Applied
    <2> QED BY <1>1, <2>1
  <1>4. ASSUME NEW i \in CommitOffsets', i < nextOffset
        PROVE  Number(i)' + 1 \in DOMAIN native /\ native[Number(i)' + 1] = i
    <2>1. i \in CommitOffsets /\ i \in Nat
      BY <1>0, <1>1, <1>4
    <2>2. Number(i)' = Number(i)
      BY <1>1, <2>1
    <2> QED BY <1>4, <2>1, <2>2 DEF Applied
  <1> QED BY <1>2, <1>3, <1>4 DEF Applied

\* every closure was projected,
LEMMA ReachedStays ==
    ASSUME OutcomeInv, HistoryInv, Unprojected, SealsKept(lease, lease'), LogGrows,
           UNCHANGED projector \/ CommitProgress \/ ProjectorRestarts
    PROVE  Reached'
  <1>0. TypeOK /\ Reached /\ RowsInv
    BY Parts
  <1>1. /\ nextOffset' = nextOffset /\ nextOffset \in Nat /\ Len(log) \in Nat
        /\ pos \in Nat /\ groupOffset \in Nat
    BY <1>0, LogOffsets DEF Unprojected
  <1>2. pos' <= nextOffset' /\ groupOffset' <= nextOffset'
    <2>1. CASE UNCHANGED projector
      BY <1>0, <1>1, <2>1 DEF projector, Reached
    <2>2. CASE CommitProgress
      BY <1>0, <1>1, <2>2 DEF CommitProgress, Reached
    <2>3. CASE ProjectorRestarts
      <3>1. groupOffset' = groupOffset /\ pos' = Min({groupOffset, ReplayFloor})
        BY <2>3 DEF ProjectorRestarts
      <3>2. ReplayFloor \in Nat
        BY <1>0, ReplayFloorType
      <3> DEFINE S == {groupOffset, ReplayFloor}
      <3>3. S \in SUBSET Nat /\ S # {} /\ groupOffset \in S
        BY <1>1, <3>2
      <3>4. Min(S) \in Nat /\ Min(S) <= groupOffset
        BY <3>3, MinOfNaturals
      <3> QED BY <1>0, <1>1, <3>1, <3>4 DEF Reached
    <2> QED BY <2>1, <2>2, <2>3
  <1>3. nextOffset' <= Len(log') + 1
    <2>1. Len(log') \in Nat /\ Len(log) <= Len(log')
      BY <1>0, <1>1 DEF LogGrows, TypeOK
    <2> QED BY <1>0, <1>1, <2>1 DEF Reached
  <1>4. \A e \in Leases : lease'[e].seal < nextOffset'
    BY <1>0, <1>1 DEF SealsKept, Reached
  <1>5. ASSUME NEW r \in Runs, run'[r].sealedAt # 0
        PROVE  /\ run'[r].sealedAt \in DOMAIN log'
               /\ log'[run'[r].sealedAt].writer = run'[r].lease
               /\ log'[run'[r].sealedAt].kind \in {"finish", "seal"}
               /\ run'[r].sealedAt < nextOffset'
    <2>1. run'[r].sealedAt = run[r].sealedAt /\ (run[r].lease # 0 => run'[r].lease = run[r].lease)
      BY DEF Unprojected, Plain
    <2>2. PICK i, e : i = run[r].sealedAt /\ e = run[r].lease
      OBVIOUS
    <2>3. Closes(i, e) /\ i < nextOffset
      BY <1>0, <1>5, <2>1, <2>2 DEF Reached
    <2>4. e # 0
      BY <1>0, <2>3, LogOffsets, LedgerAssumption DEF Closes, Leases
    <2>5. Closes(i, e)'
      BY <1>0, <2>3, ClosesStays
    <2> QED BY <1>1, <2>1, <2>2, <2>3, <2>4, <2>5 DEF Closes
  <1> QED BY <1>2, <1>3, <1>4, <1>5 DEF Reached, Closes

\* and the rows still tell which executions are in progress.
LEMMA ClosingsStay ==
    ASSUME OutcomeInv, HistoryInv, Moves, Unprojected, SealsKept(lease, lease')
    PROVE  Closings'
  <1>0. TypeOK /\ LedgerTypeOK /\ RowsInv /\ Closings /\ LogInv /\ ClosureInv
    BY Parts
  <1> SUFFICES ASSUME NEW e \in 1..leaseEpoch'
               PROVE  IF run'[lease'[e].run].lease = e
                      THEN lease'[e].seal # 0 => run'[lease'[e].run].sealedAt # 0
                      ELSE lease'[e].seal # 0
    BY DEF Closings
  <1>1. CASE e \in 1..leaseEpoch
    <2>1. e \in Leases /\ e # leaseEpoch + 1 /\ e # 0
      BY <1>0, <1>1, Issued DEF LedgerTypeOK
    <2>2. lease'[e].run = lease[e].run /\ lease[e].run \in Runs /\ lease'[e].seal = lease[e].seal
      BY <1>0, <1>1, <2>1, IssuedStays DEF RowsInv, Held, SealsKept
    <2> DEFINE r == lease[e].run
    <2>3. /\ run'[r].sealedAt = run[r].sealedAt
          /\ run[r].lease # 0 => run'[r].lease = run[r].lease
      BY <2>2 DEF Unprojected, Plain
    <2>4. run'[r].lease = run[r].lease \/ run'[r].lease = 0 \/ run'[r].lease = leaseEpoch + 1
      BY <2>2, LeaseFrom DEF Claims
    <2>5. run'[r].lease = e => run[r].lease = e
      BY <2>1, <2>4
    <2>6. IF run[r].lease = e THEN lease[e].seal # 0 => run[r].sealedAt # 0 ELSE lease[e].seal # 0
      BY <1>0, <1>1 DEF Closings
    <2> QED BY <2>1, <2>2, <2>3, <2>5, <2>6
  <1>2. CASE e \notin 1..leaseEpoch
    <2>1. PICK r \in Runs : lease'[e].run = r /\ run'[r].lease = e
      BY <1>0, <1>2, NewLease
    <2>2. e \in Leases /\ e > leaseEpoch
      <3>1. PICK q \in Runs : Claims(q)
        BY <1>0, <1>2 DEF Moves, Rests, Gives, Settles, Requeues, LeasesSteady
      <3> QED BY <1>0, <1>2, <3>1 DEF Claims, LedgerTypeOK
    <2>3. lease[e].seal = 0
      <3>1. \A i \in DOMAIN log : log[i].writer <= leaseEpoch
        BY <1>0 DEF LogInv
      <3>2. e \in Nat /\ leaseEpoch \in Nat
        BY <1>0, <2>2 DEF LedgerTypeOK, Leases
      <3>3. \A i \in DOMAIN log : log[i].writer # e
        BY <2>2, <3>1, <3>2
      <3> QED BY <1>0, <2>2, <3>3 DEF ClosureInv, Closes
    <2> QED BY <2>1, <2>2, <2>3 DEF SealsKept
  <1> QED BY <1>1, <1>2

\* The position reading resumes at is in front of every execution in progress.
LEMMA FloorIsInFront ==
    ASSUME TypeOK, NEW r \in Runs, run[r].first # 0, run[r].sealedAt = 0, ProjectorRestarts
    PROVE  pos' <= run[r].first
  <1> DEFINE open == {run[q].first : q \in {p \in Runs : run[p].first # 0 /\ run[p].sealedAt = 0}}
             floor == {nextOffset, Len(log) + 1} \cup open
             S == {groupOffset, ReplayFloor}
  <1>1. {nextOffset, Len(log) + 1} \subseteq Nat /\ groupOffset \in Nat
    BY LogOffsets
  <1>2. open \subseteq Nat /\ run[r].first \in open
    <2>1. \A q \in Runs : run[q].first \in Nat
      BY DEF TypeOK, LedgerTypeOK, RunRow
    <2> QED BY <2>1
  <1>3. ReplayFloor = Min(floor)
    BY DEF ReplayFloor
  <1>4. floor \in SUBSET Nat /\ run[r].first \in floor
    <2> HIDE DEF open
    <2> QED BY <1>1, <1>2
  <1>5. ReplayFloor <= run[r].first /\ ReplayFloor \in Nat
    <2> HIDE DEF floor
    <2>1. floor # {}
      BY <1>4
    <2> QED BY <1>3, <1>4, <2>1, MinOfNaturals
  <1>6. S \in SUBSET Nat /\ S # {} /\ ReplayFloor \in S
    BY <1>1, <1>5
  <1>7. Min(S) <= ReplayFloor /\ Min(S) \in Nat
    BY <1>6, MinOfNaturals
  <1>8. run[r].first \in Nat
    BY <1>2
  <1> QED BY <1>5, <1>7, <1>8 DEF ProjectorRestarts

\* What was projected of an execution in progress is what the log starts with.
LEMMA FirstStays ==
    ASSUME OutcomeInv, HistoryInv, Moves, Unprojected, LogGrows,
           UNCHANGED projector \/ CommitProgress \/ ProjectorRestarts, NEW r \in Runs
    PROVE  FirstOf(r)'
  <1>0. /\ TypeOK /\ RowsInv /\ Working /\ LogInv /\ Reached /\ FirstOf(r)
    BY Parts
  <1>1. /\ run'[r].first = run[r].first /\ run'[r].sealedAt = run[r].sealedAt
        /\ run[r].lease # 0 => run'[r].lease = run[r].lease
        /\ nextOffset' = nextOffset
    BY DEF Unprojected, Plain
  <1>2. /\ \A i \in DOMAIN log : i \in DOMAIN log' /\ log'[i] = log[i] /\ i \in Nat /\ i <= Len(log)
        /\ \A i \in DOMAIN log' : i \in DOMAIN log \/ i = Len(log) + 1
        /\ nextOffset \in Nat /\ nextOffset <= Len(log) + 1 /\ Len(log) \in Nat
    <2>1. nextOffset \in Nat /\ nextOffset <= Len(log) + 1 /\ Len(log) \in Nat
          /\ \A i \in DOMAIN log : i \in Nat /\ i <= Len(log)
      BY <1>0, LogOffsets DEF Reached
    <2>2. CASE log' = log
      BY <2>1, <2>2
    <2>3. ASSUME NEW t \in transaction, log' = Append(log, t.fact)
          PROVE  /\ \A i \in DOMAIN log : i \in DOMAIN log' /\ log'[i] = log[i]
                 /\ \A i \in DOMAIN log' : i \in DOMAIN log \/ i = Len(log) + 1
      BY <1>0, <2>3, CountStays
    <2> QED BY <2>1, <2>2, <2>3 DEF LogGrows
  <1> SUFFICES ASSUME run'[r].lease # 0, run'[r].sealedAt = 0
               PROVE  IF run'[r].first = 0
                      THEN \A j \in DOMAIN log' :
                              j < nextOffset' /\ log'[j].writer = run'[r].lease
                                  => log'[j].kind = "finish"
                      ELSE /\ run'[r].first \in DOMAIN log' /\ log'[run'[r].first].kind = "commit"
                           /\ run'[r].first < nextOffset'
                           /\ log'[run'[r].first].writer = run'[r].lease
                           /\ \A j \in DOMAIN log' :
                                 log'[j].writer = run'[r].lease /\ log'[j].kind # "finish"
                                     => run'[r].first <= j
                           /\ run'[r].lease \in prefixes' \/ pos' <= run'[r].first
    BY DEF FirstOf, CommitOffsets
  <1>3. CASE run[r].lease = 0
    <2>1. Claims(r) /\ run[r].first = 0
      BY <1>0, <1>3, LeaseFrom DEF Working, Works
    <2>2. run'[r].lease = leaseEpoch + 1
      BY <2>1 DEF Claims
    <2>3. \A j \in DOMAIN log : log[j].writer # leaseEpoch + 1
      <3>1. \A j \in DOMAIN log : log[j].writer \in Nat
        BY <1>0, LogOffsets DEF Leases
      <3>2. leaseEpoch \in Nat
        BY <1>0 DEF TypeOK, LedgerTypeOK
      <3> QED BY <1>0, <3>1, <3>2 DEF LogInv
    <2> QED BY <1>1, <1>2, <2>1, <2>2, <2>3
  <1>4. CASE run[r].lease # 0
    <2>1. run'[r].lease = run[r].lease
      BY <1>1, <1>4
    <2>2. CASE run[r].first = 0
      <3>1. \A j \in DOMAIN log :
                j < nextOffset /\ log[j].writer = run[r].lease => log[j].kind = "finish"
        BY <1>0, <1>1, <1>4, <2>2 DEF FirstOf
      <3> QED BY <1>1, <1>2, <2>1, <2>2, <3>1
    <2>3. CASE run[r].first # 0
      <3> DEFINE n == run[r].first
      <3>1. /\ n \in DOMAIN log /\ log[n].kind = "commit" /\ n < nextOffset
            /\ log[n].writer = run[r].lease
            /\ \A j \in DOMAIN log :
                  log[j].writer = run[r].lease /\ log[j].kind # "finish" => n <= j
            /\ run[r].lease \in prefixes \/ pos <= n
        BY <1>0, <1>1, <1>4, <2>3 DEF FirstOf, CommitOffsets
      <3>2. run[r].lease \in prefixes' \/ pos' <= n
        <4>1. CASE UNCHANGED projector \/ CommitProgress
          BY <3>1, <4>1 DEF projector, CommitProgress
        <4>2. CASE ProjectorRestarts
          BY <1>0, <1>1, <2>3, <4>2, FloorIsInFront
        <4> QED BY <4>1, <4>2
      <3>3. \A j \in DOMAIN log' :
                log'[j].writer = run[r].lease /\ log'[j].kind # "finish" => n <= j
        <4>1. n <= Len(log) + 1
          BY <1>2, <3>1
        <4> QED BY <1>2, <3>1, <4>1
      <3>4. n \in DOMAIN log' /\ log'[n] = log[n]
        BY <1>2, <3>1
      <3> QED BY <1>1, <2>1, <2>3, <3>1, <3>2, <3>3, <3>4
    <2> QED BY <2>2, <2>3
  <1> QED BY <1>3, <1>4

\* Together.
LEMMA UnprojectedKeeps ==
    ASSUME OutcomeInv, HistoryInv, [Next]_vars, ~Projecting
    PROVE  Applied' /\ Reached' /\ ExecutionInv'
  <1>0. /\ TypeOK /\ RowsInv /\ LogInv /\ RecordInv /\ Applied /\ Reached /\ Working
        /\ \A p \in Runs : Decided(p)
    BY Parts
  <1>1. /\ Unprojected /\ SealsKept(lease, lease') /\ LogGrows
        /\ UNCHANGED projector \/ CommitProgress \/ ProjectorRestarts
    BY <1>0, StepUnprojected
  <1>2. Moves
    BY <1>0, StepMoves
  <1>3. Applied'
    BY <1>0, <1>1, AppliedStays DEF Unprojected
  <1>4. Reached'
    BY <1>1, ReachedStays
  <1>5. Closings'
    BY <1>1, <1>2, ClosingsStay
  <1>6. Working'
    BY <1>0, <1>1 DEF Working, Unprojected, Plain
  <1>7. ASSUME NEW r \in Runs
        PROVE  Decided(r)'
    <2>1. run'[r].lease # 0 /\ run'[r].sealedAt = 0 /\ IsTerminalRunState(run'[r].state)
             => IsTerminalRunState(run[r].state) \/ run'[r].sealId # run[r].sealId
      BY <1>1 DEF Unprojected, Plain
    <2> QED BY <1>0, <1>2, <2>1, DecidedStays
  <1>8. ASSUME NEW r \in Runs
        PROVE  FirstOf(r)'
    BY <1>1, <1>2, FirstStays
  <1> QED BY <1>3, <1>4, <1>5, <1>6, <1>7, <1>8 DEF ExecutionInv

-----------------------------------------------------------------------------
(* The record the Projector reads next.                                      *)

\* It was projected before, or it is the first that was not.
LEMMA NextRecord ==
    ASSUME OutcomeInv, HistoryInv, pos \in DOMAIN log
    PROVE  LET e == log[pos].writer  r == lease[e].run IN
           /\ e \in Leases /\ e \in 1..leaseEpoch /\ e # 0 /\ r \in Runs
           /\ log[pos] \in Facts
           /\ run[r] \in RunRow /\ lease[e] \in LeaseRow
           /\ pos <= nextOffset /\ pos \in Nat \ {0} /\ nextOffset \in Nat
           /\ run[r].lease # e => lease[e].seal # 0
           /\ run[r].lease = e /\ run[r].sealedAt = 0 => lease[e].seal = 0
  <1> DEFINE e == log[pos].writer
             r == lease[e].run
  <1>0. TypeOK /\ LedgerTypeOK /\ RowsInv /\ LogInv /\ Closings /\ Reached
    BY Parts
  <1>1. e \in Leases /\ log[pos] \in Facts /\ pos \in Nat \ {0} /\ nextOffset \in Nat
    BY <1>0, LogOffsets
  <1>2. e \in 1..leaseEpoch /\ e # 0
    BY <1>0, <1>1, LedgerAssumption DEF LogInv, Leases, LedgerTypeOK
  <1>3. r \in Runs
    BY <1>0, <1>2 DEF RowsInv, Held
  <1>4. run[r] \in RunRow /\ lease[e] \in LeaseRow
    BY <1>0, <1>1, <1>3 DEF LedgerTypeOK
  <1>5. pos <= nextOffset
    BY <1>0 DEF Reached
  <1>6. IF run[r].lease = e THEN lease[e].seal # 0 => run[r].sealedAt # 0 ELSE lease[e].seal # 0
    BY <1>0, <1>2 DEF Closings
  <1> QED BY <1>1, <1>2, <1>3, <1>4, <1>5, <1>6

\* A commit that was not projected is of an execution in progress.
LEMMA NewCommitIsOpen ==
    ASSUME OutcomeInv, HistoryInv, pos \in DOMAIN log, log[pos].kind = "commit", pos = nextOffset
    PROVE  IsOpen(pos, log[pos].writer)
  <1> DEFINE e == log[pos].writer
             r == lease[e].run
  <1>0. TypeOK /\ ClosedLog /\ NothingAfterClosure /\ Reached
    BY Parts
  <1>1. /\ e \in Leases /\ r \in Runs /\ pos \in Nat /\ lease[e] \in LeaseRow /\ run[r] \in RunRow
        /\ run[r].lease # e => lease[e].seal # 0
    BY NextRecord
  <1>2. lease[e].seal = 0
    <2>1. lease[e].seal # 0 => pos <= lease[e].seal
      BY <1>0 DEF NothingAfterClosure
    <2>2. lease[e].seal < pos /\ lease[e].seal \in Nat
      BY <1>0, <1>1 DEF Reached, LeaseRow
    <2> QED BY <1>1, <2>1, <2>2
  <1>3. run[r].lease = e
    BY <1>1, <1>2
  <1>4. run[r].sealedAt = 0
    <2> DEFINE s == run[r].sealedAt
    <2> SUFFICES ASSUME s # 0 PROVE FALSE
      OBVIOUS
    <2>1. Closes(s, e) /\ s < pos
      BY <1>0, <1>1, <1>3 DEF Reached
    <2>2. s \in DOMAIN log /\ log[s].kind # "commit" /\ log[s].writer = e
      BY <2>1 DEF Closes
    <2>3. log[pos].kind = "seal"
      BY <1>0, <2>1, <2>2 DEF ClosedLog
    <2> QED BY <2>3
  <1> QED BY <1>2, <1>3, <1>4 DEF IsOpen

\* A commit that was projected is in the history, the first that was not is next.
LEMMA CommitInHistory ==
    ASSUME OutcomeInv, HistoryInv, pos \in DOMAIN log, log[pos].kind = "commit"
    PROVE  IF pos = nextOffset THEN log[pos].seq = Len(native) + 1
           ELSE log[pos].seq \in DOMAIN native /\ native[log[pos].seq] = pos
  <1>0. TypeOK /\ NumberedLog /\ Applied /\ pos <= nextOffset /\ pos \in Nat /\ nextOffset \in Nat
    BY Parts, NextRecord
  <1>1. log[pos].seq = Number(pos) + 1 /\ pos \in CommitOffsets
    BY <1>0 DEF NumberedLog, CommitOffsets
  <1>2. CASE pos = nextOffset
    BY <1>0, <1>1, <1>2 DEF Applied
  <1>3. CASE pos < nextOffset
    BY <1>0, <1>1, <1>3 DEF Applied
  <1> QED BY <1>0, <1>2, <1>3

\* The first record of an execution in progress is behind nothing it published.
LEMMA FirstIsRead ==
    ASSUME OutcomeInv, HistoryInv, pos \in DOMAIN log, log[pos].kind # "finish",
           run[lease[log[pos].writer].run].lease = log[pos].writer,
           run[lease[log[pos].writer].run].sealedAt = 0
    PROVE  LET x == run[lease[log[pos].writer].run] IN
           /\ x.first = 0 => pos = nextOffset
           /\ x.first # 0 => x.first <= pos /\ (log[pos].writer \in prefixes \/ x.first = pos)
  <1> DEFINE e == log[pos].writer
             r == lease[e].run
             n == run[r].first
  <1>1. /\ r \in Runs /\ e # 0 /\ run[r] \in RunRow /\ pos <= nextOffset
        /\ pos \in Nat /\ nextOffset \in Nat
    BY NextRecord
  <1>2. FirstOf(r) /\ n \in Nat
    BY <1>1, Parts DEF RunRow
  <1>3. ASSUME n = 0
        PROVE  pos = nextOffset
    <2>1. ~(pos < nextOffset)
      BY <1>1, <1>2, <1>3 DEF FirstOf
    <2> QED BY <1>1, <2>1
  <1>4. ASSUME n # 0
        PROVE  n <= pos /\ (e \in prefixes \/ n = pos)
    <2>1. n <= pos /\ (e \in prefixes \/ pos <= n)
      BY <1>1, <1>2, <1>4 DEF FirstOf
    <2> QED BY <1>1, <1>2, <2>1
  <1> QED BY <1>3, <1>4

\* None of the checks of the Projector fails on it.
LEMMA NothingThrows ==
    ASSUME OutcomeInv, HistoryInv, pos \in DOMAIN log
    PROVE  ~Throws(pos)
  <1> DEFINE f == log[pos]
             e == f.writer
             r == lease[e].run
  <1>0. /\ TypeOK /\ RowsInv /\ RecordInv /\ ClosedLog /\ WriterOrder /\ LogInv /\ LeaseInv
        /\ Working /\ NumberedLog /\ Applied /\ \A p \in Runs : Decided(p)
    BY Parts
  <1>1. /\ e \in Leases /\ e \in 1..leaseEpoch /\ e # 0 /\ r \in Runs
        /\ f \in Facts /\ run[r] \in RunRow /\ lease[e] \in LeaseRow
        /\ pos <= nextOffset /\ pos \in Nat \ {0} /\ nextOffset \in Nat
        /\ run[r].lease # e => lease[e].seal # 0
        /\ run[r].lease = e /\ run[r].sealedAt = 0 => lease[e].seal = 0
    BY NextRecord
  <1>2. ASSUME f.kind # "finish", run[r].lease = e, run[r].sealedAt = 0
        PROVE  run[r].first \in {0, pos} \/ e \in prefixes
    BY <1>2, FirstIsRead
  <1>3. f.kind # "finish" => ~BoundaryThrows(pos, e)
    BY <1>1, <1>2 DEF BoundaryThrows, IsOpen
  <1>4. run[r].sealedAt # 0 => run[r].terminals # {}
    BY <1>0, <1>1 DEF RowsInv, Told, ToldOf
  <1>5. ASSUME run[r].lease = e, ~IsTerminalRunState(run[r].state)
        PROVE  run[r].state \in {"running", "cancel_requested"}
    BY <1>0, <1>1, <1>5 DEF Working, Works, IsTerminalRunState
  <1>6. CASE f.kind = "commit"
    <2>1. ~CommitConflicts(pos, f.seq)
      <3>1. Len(native) \in Nat /\ DOMAIN native = 1..Len(native)
        BY <1>0 DEF TypeOK, LedgerTypeOK
      <3>2. CASE pos = nextOffset
        BY <1>6, <3>1, <3>2, CommitInHistory DEF CommitConflicts
      <3>3. CASE pos # nextOffset
        BY <1>6, <3>1, <3>3, CommitInHistory DEF CommitConflicts
      <3> QED BY <3>2, <3>3
    <2> QED BY <1>3, <1>6, <2>1 DEF Throws, CommitThrows
  <1>7. CASE f.kind = "finish"
    <2>1. FinishStale(pos, e) => lease[e].seal # 0
      BY <1>1 DEF FinishStale
    <2>2. ASSUME ~FinishStale(pos, e), run[r].sealedAt = 0
          PROVE  /\ f.seq # 0 => f.seq = Len(native)
                 /\ ~IsTerminalRunState(run[r].state) => FinishAllowed(run[r].state, f.outcome)
      <3>1. run[r].lease = e /\ lease[e].seal = 0
        BY <1>1, <2>2 DEF FinishStale
      <3>2. e = leaseEpoch
        <4>1. ~lease[e].released
          BY <1>0, <1>1, <3>1 DEF LeaseInv
        <4> QED BY <1>0, <1>1, <4>1 DEF LeaseInv, TypeOK, LedgerTypeOK
      <3>3. ASSUME NEW j \in CommitOffsets, pos <= j, j < nextOffset
            PROVE  FALSE
        <4>1. j \in DOMAIN log /\ log[j].kind = "commit" /\ j \in Nat
          BY <1>0, LogOffsets DEF CommitOffsets
        <4>2. pos < j
          BY <1>1, <1>7, <3>3, <4>1
        <4>3. log[j].writer = e
          <5>1. e <= log[j].writer
            BY <1>0, <4>1, <4>2 DEF WriterOrder
          <5>2. log[j].writer <= leaseEpoch /\ log[j].writer \in Nat
            BY <1>0, <4>1, LogOffsets DEF LogInv, Leases
          <5> QED BY <1>1, <3>2, <5>1, <5>2
        <4>4. log[j].kind = "seal"
          BY <1>0, <1>7, <4>1, <4>2, <4>3 DEF ClosedLog
        <4> QED BY <4>1, <4>4
      <3>4. Number(nextOffset) = Number(pos)
        BY <1>0, <1>1, <3>3, CountSame
      <3>5. f.seq # 0 => f.seq = Len(native)
        BY <1>0, <1>7, <3>4 DEF NumberedLog, Applied
      <3>6. ASSUME ~IsTerminalRunState(run[r].state)
            PROVE  FinishAllowed(run[r].state, f.outcome)
        <4>1. run[r].state \in {"running", "cancel_requested"}
          BY <1>5, <3>1, <3>6
        <4>2. f.outcome \in {"completed", "failed", "cancelled"}
          BY <1>1, <1>7 DEF Facts, Outcome
        <4> QED BY <4>1, <4>2 DEF FinishAllowed, CanTransition, RunTransitions
      <3> QED BY <3>5, <3>6
    <2>3. ~FinishThrows(pos, f)
      BY <1>4, <2>1, <2>2 DEF FinishThrows
    <2> QED BY <1>7, <2>3 DEF Throws
  <1>8. CASE f.kind = "seal"
    <2>1. lease[e].failed /\ f.outcome = lease[e].outbox
      BY <1>0, <1>8 DEF RecordInv, Asked
    <2>2. ASSUME ~SealStale(e)
          PROVE  run[r].lease = e /\ run[r].sealId = e
      <3>1. run[r].lease = e
        BY <1>1, <2>2 DEF SealStale
      <3> QED BY <1>0, <1>1, <2>1, <3>1 DEF RowsInv, Failed
    <2>3. ASSUME ~SealStale(e), run[r].sealedAt = 0
          PROVE  /\ ~(run[r].first \notin {0, pos} /\ e \notin prefixes)
                 /\ f.outcome = "recover" => CanTransition(RunTransitions, run[r].state, "queued")
                 /\ run[r].terminals = {}
      <3>1. run[r].lease = e /\ run[r].sealId = e
        BY <2>2, <2>3
      <3>2. run[r].terminals = {}
        BY <1>0, <1>1, <2>3 DEF RowsInv, Told, ToldOf
      <3>3. f.outcome = "recover" => ~IsTerminalRunState(run[r].state)
        BY <1>0, <1>1, <2>1, <2>3, <3>1 DEF Decided
      <3>4. ASSUME f.outcome = "recover"
            PROVE  CanTransition(RunTransitions, run[r].state, "queued")
        BY <1>5, <3>1, <3>3, <3>4 DEF CanTransition, RunTransitions
      <3> QED BY <1>2, <1>8, <2>3, <3>1, <3>2, <3>4
    <2>4. ~SealThrows(pos, f)
      BY <1>3, <1>4, <1>8, <2>2, <2>3 DEF SealThrows
    <2> QED BY <1>8, <2>4 DEF Throws
  <1> QED BY <1>1, <1>6, <1>7, <1>8 DEF Facts

-----------------------------------------------------------------------------
(* What projecting that record does.                                         *)

Copies(x, y) ==
    /\ y.first = x.first /\ y.sealedAt = x.sealedAt
    /\ y.lease = x.lease /\ y.state = x.state /\ y.sealId = x.sealId

\* Nothing of an execution in progress changes, or its prefix is known from now on.
Touched(e, x, y) ==
    /\ SealsKept(lease, lease') /\ Copies(x, y)
    /\ x.lease = e /\ x.sealedAt = 0 =>
          \/ Record.kind = "commit" /\ x.first # 0 /\ e \in prefixes'
          \/ Record.kind = "finish" /\ prefixes' = prefixes

\* The first record an execution published.
Anchored(e, x, y) ==
    /\ SealsKept(lease, lease') /\ Record.kind = "commit"
    /\ x.lease = e /\ x.sealedAt = 0 /\ x.first = 0 /\ y.first = pos /\ e \in prefixes'
    /\ y.lease = e /\ y.sealedAt = 0 /\ y.state = x.state /\ y.sealId = x.sealId

\* The output of its Run is sealed, there or before.
Sealed(e, x, y) ==
    /\ SealedAt(lease, lease', pos, e) /\ Closes(pos, e)
    /\ x.lease = e /\ y.lease = e
    /\ y.sealedAt = IF x.sealedAt = 0 THEN pos ELSE x.sealedAt
    /\ y.state = x.state \/ y.state \in Outcome

\* Its writer is closed and its Run is to start over.
Erased(e, x, y) ==
    /\ SealedAt(lease, lease', pos, e) /\ Closes(pos, e) /\ lease'[e].seal # 0
    /\ x.lease = e /\ y.lease = 0 /\ y.first = 0 /\ y.sealedAt = 0

Reads(e, x, y) == Touched(e, x, y) \/ Anchored(e, x, y) \/ Sealed(e, x, y) \/ Erased(e, x, y)

Projected ==
    LET e == Record.writer
        r == lease[e].run
    IN  /\ \A p \in Runs \ {r} : Copies(run[p], run'[p])
        /\ Reads(e, run[r], run'[r])
        /\ prefixes \ {e} \subseteq prefixes'
        /\ nextOffset' = IF pos = nextOffset THEN pos + 1 ELSE nextOffset
        /\ native' = IF Record.kind = "commit" /\ pos = nextOffset
                     THEN Append(native, pos) ELSE native

\* One row is written, and the lane may advance.
LEMMA RowWritten ==
    ASSUME LedgerTypeOK, NEW r \in Runs, NEW row \in RunRow, NEW s,
           \/ run' = [run EXCEPT ![r] = row]
           \/ run' = AdvanceLaneReadiness([run EXCEPT ![r] = row], s)
    PROVE  Copies(row, run'[r]) /\ \A p \in Runs \ {r} : Copies(run[p], run'[p])
  <1> DEFINE runs == [run EXCEPT ![r] = row]
  <1>1. /\ runs \in [Runs -> RunRow] /\ runs[r] = row
        /\ \A p \in Runs \ {r} : runs[p] = run[p]
    BY DEF LedgerTypeOK
  <1>2. ASSUME NEW p \in Runs
        PROVE  Copies(runs[p], run'[p])
    <2>1. CASE run' = runs
      BY <2>1 DEF Copies
    <2>2. CASE run' = AdvanceLaneReadiness(runs, s)
      <3> HIDE DEF runs
      <3>1. runs[p] \in RunRow
        BY <1>1
      <3>2. run'[p] = runs[p] \/ run'[p] = [runs[p] EXCEPT !.ready = TRUE]
        BY <1>1, <2>2 DEF AdvanceLaneReadiness
      <3> QED BY <3>1, <3>2 DEF Copies, RunRow
    <2> QED BY <2>1, <2>2
  <1> QED BY <1>1, <1>2

\* The projected position moves on if the record is new.
LEMMA RecordedNext ==
    ASSUME OutcomeInv, HistoryInv, pos \in DOMAIN log
    PROVE  Recorded(pos) = IF pos = nextOffset THEN pos + 1 ELSE nextOffset
  <1>1. pos <= nextOffset /\ pos \in Nat /\ nextOffset \in Nat
    BY NextRecord
  <1> QED BY <1>1 DEF Recorded

\* A native commit goes to the history, once.
LEMMA CommitProjected ==
    ASSUME OutcomeInv, HistoryInv, ProjectCommit
    PROVE  Projected
  <1> DEFINE e == Record.writer
             r == lease[e].run
  <1>0. TypeOK /\ LedgerTypeOK
    BY Parts
  <1>1. pos \in DOMAIN log /\ Record.kind = "commit" /\ Record = log[pos]
    BY <1>0, ProjectedRecord DEF Record
  <1>2. /\ e \in Leases /\ r \in Runs /\ run[r] \in RunRow /\ lease[e] \in LeaseRow
        /\ pos <= nextOffset /\ pos \in Nat \ {0} /\ nextOffset \in Nat
        /\ run[r].lease = e /\ run[r].sealedAt = 0 => lease[e].seal = 0
    BY <1>1, NextRecord
  <1>3. CASE IsOpen(pos, e)
    <2> DEFINE row == [run[r] EXCEPT !.first = IF @ = 0 THEN pos ELSE @]
    <2>1. ApplyCommit(pos, e, Record.seq) /\ prefixes' = prefixes \cup {e}
      BY <1>3 DEF ProjectCommit
    <2>2. run' = [run EXCEPT ![r] = row] /\ lease' = lease /\ nextOffset' = Recorded(pos)
      BY <1>0, <1>2, <2>1 DEF ApplyCommit, LedgerTypeOK
    <2>3. row \in RunRow
      <3>1. (IF run[r].first = 0 THEN pos ELSE run[r].first) \in Nat
        BY <1>2 DEF RunRow
      <3> QED BY <1>2, <3>1 DEF RunRow
    <2>4. /\ row.first = IF run[r].first = 0 THEN pos ELSE run[r].first
          /\ row.lease = run[r].lease /\ row.sealedAt = run[r].sealedAt
          /\ row.state = run[r].state /\ row.sealId = run[r].sealId
      BY <1>2 DEF RunRow
    <2>5. Copies(row, run'[r]) /\ \A p \in Runs \ {r} : Copies(run[p], run'[p])
      <3> HIDE DEF row
      <3> QED BY <1>0, <1>2, <2>2, <2>3, RowWritten
    <2>6. run[r].lease = e /\ run[r].sealedAt = 0
      BY <1>3 DEF IsOpen
    <2>7. SealsKept(lease, lease')
      BY <2>2 DEF SealsKept
    <2>8. Reads(e, run[r], run'[r])
      BY <1>1, <2>1, <2>4, <2>5, <2>6, <2>7 DEF Reads, Touched, Anchored, Copies
    <2>9. native' = IF pos = nextOffset THEN Append(native, pos) ELSE native
      <3>1. IF pos = nextOffset THEN Record.seq = Len(native) + 1
            ELSE Record.seq \in DOMAIN native
        BY <1>1, CommitInHistory
      <3>2. Len(native) \in Nat /\ DOMAIN native = 1..Len(native)
        BY <1>0 DEF LedgerTypeOK
      <3>3. native' = IF Record.seq = Len(native) + 1 THEN Append(native, pos) ELSE native
        BY <2>1 DEF ApplyCommit
      <3>4. pos # nextOffset => Record.seq # Len(native) + 1
        BY <3>1, <3>2
      <3> QED BY <3>1, <3>3, <3>4
    <2> QED BY <1>1, <2>1, <2>2, <2>5, <2>8, <2>9, RecordedNext DEF Projected
  <1>4. CASE ~IsOpen(pos, e)
    <2>1. UNCHANGED ledger /\ prefixes' = prefixes
      BY <1>4 DEF ProjectCommit
    <2>2. pos # nextOffset
      BY <1>1, <1>4, NewCommitIsOpen
    <2>3. ~(run[r].lease = e /\ run[r].sealedAt = 0)
      BY <1>2, <1>4 DEF IsOpen
    <2>4. UNCHANGED <<run, lease, native, nextOffset>>
      BY <2>1 DEF ledger
    <2>5. Touched(e, run[r], run'[r])
      BY <2>3, <2>4 DEF Touched, SealsKept, Copies
    <2> QED BY <2>1, <2>2, <2>4, <2>5 DEF Projected, Reads, Copies
  <1> QED BY <1>3, <1>4

\* A work_finished seals the output of its Run, or changes nothing that counts here.
LEMMA FinishProjected ==
    ASSUME OutcomeInv, HistoryInv, ProjectFinish
    PROVE  Projected
  <1> DEFINE e == Record.writer
             r == lease[e].run
             o == Record.outcome
  <1>0. TypeOK /\ LedgerTypeOK
    BY Parts
  <1>1. pos \in DOMAIN log /\ Record.kind = "finish" /\ Record = log[pos] /\ Record \in Facts
    BY <1>0, ProjectedRecord DEF Record
  <1>2. /\ e \in Leases /\ e # 0 /\ r \in Runs /\ run[r] \in RunRow /\ lease[e] \in LeaseRow
        /\ pos <= nextOffset /\ pos \in Nat \ {0} /\ nextOffset \in Nat
        /\ run[r].lease # e => lease[e].seal # 0
        /\ run[r].lease = e /\ run[r].sealedAt = 0 => lease[e].seal = 0
    BY <1>1, NextRecord
  <1>3. prefixes \ {e} \subseteq prefixes'
    BY DEF ProjectFinish, Forget
  <1>4. native' = native /\ nextOffset' = Recorded(pos)
    BY DEF ProjectFinish, RecordOnly, FinishOverruled, FinishSettles
  <1>5. o \in Outcome
    BY <1>1 DEF Facts
  <1>a. ASSUME \A p \in Runs \ {r} : Copies(run[p], run'[p]), Reads(e, run[r], run'[r])
        PROVE  Projected
    BY <1>1, <1>3, <1>4, <1>a, RecordedNext DEF Projected
  <1>6. CASE FinishStale(pos, e) \/ run[r].sealedAt # 0
    <2>1. RecordOnly(pos)
      BY <1>6 DEF ProjectFinish
    <2>2. run' = run /\ lease' = lease
      BY <2>1 DEF RecordOnly
    <2>3. ~(run[r].lease = e /\ run[r].sealedAt = 0)
      BY <1>2, <1>6 DEF FinishStale
    <2>4. Touched(e, run[r], run'[r])
      BY <2>2, <2>3 DEF Touched, SealsKept, Copies
    <2> QED BY <1>a, <2>2, <2>4 DEF Reads, Copies
  <1>7. CASE ~FinishStale(pos, e) /\ run[r].sealedAt = 0 /\ IsTerminalRunState(run[r].state)
    <2> DEFINE row == [run[r] EXCEPT !.exited = TRUE, !.released = TRUE]
    <2>1. FinishOverruled(pos, e) /\ prefixes' = prefixes
      BY <1>7 DEF ProjectFinish
    <2>2. run' = [run EXCEPT ![r] = row] /\ lease' = lease
      BY <1>0, <2>1 DEF FinishOverruled, LedgerTypeOK
    <2>3. row \in RunRow /\ Copies(run[r], row)
      BY <1>2 DEF RunRow, Copies
    <2>4. Copies(row, run'[r]) /\ \A p \in Runs \ {r} : Copies(run[p], run'[p])
      <3> HIDE DEF row
      <3> QED BY <1>0, <1>2, <2>2, <2>3, RowWritten
    <2>5. Touched(e, run[r], run'[r])
      BY <1>1, <2>1, <2>2, <2>3, <2>4 DEF Touched, SealsKept, Copies
    <2> QED BY <1>a, <2>4, <2>5 DEF Reads
  <1>8. CASE ~FinishStale(pos, e) /\ run[r].sealedAt = 0 /\ ~IsTerminalRunState(run[r].state)
    <2> DEFINE row == [run[r] EXCEPT
                          !.state = o, !.terminals = @ \cup {<<pos, o>>},
                          !.sealedAt = pos, !.released = TRUE, !.exited = TRUE,
                          !.recovering = FALSE,
                          !.first = IF @ = 0 THEN pos ELSE @,
                          !.cancel = IF @ \in ActiveCancel THEN "completed" ELSE @]
    <2>1. FinishSettles(pos, e, o)
      BY <1>8 DEF ProjectFinish
    <2>2. run' = AdvanceLaneReadiness([run EXCEPT ![r] = row], "idle")
      BY <2>1 DEF FinishSettles
    <2>3. row \in RunRow
      BY <1>2, <1>5, SettledRowType
    <2>4. row.state = o /\ row.sealedAt = pos /\ row.lease = run[r].lease
      BY <1>2 DEF RunRow
    <2>5. Copies(row, run'[r]) /\ \A p \in Runs \ {r} : Copies(run[p], run'[p])
      <3> HIDE DEF row
      <3> QED BY <1>0, <1>2, <2>2, <2>3, RowWritten
    <2>6. Closes(pos, e)
      BY <1>1 DEF Closes
    <2>7. SealedAt(lease, lease', pos, e)
      BY <1>0, <1>2, <2>1 DEF FinishSettles, SealedAt, LedgerTypeOK, LeaseRow
    <2>8. run[r].lease = e
      BY <1>8 DEF FinishStale
    <2>9. Sealed(e, run[r], run'[r])
      BY <1>5, <1>8, <2>4, <2>5, <2>6, <2>7, <2>8 DEF Sealed, Copies
    <2> QED BY <1>a, <2>5, <2>9 DEF Reads
  <1> QED BY <1>6, <1>7, <1>8

\* A seal closes its writer, and settles its Run or has it start over.
LEMMA SealProjected ==
    ASSUME OutcomeInv, HistoryInv, ProjectSeal
    PROVE  Projected
  <1> DEFINE e == Record.writer
             r == lease[e].run
  <1>0. TypeOK /\ LedgerTypeOK
    BY Parts
  <1>1. pos \in DOMAIN log /\ Record.kind = "seal" /\ Record = log[pos] /\ Record \in Facts
    BY <1>0, ProjectedRecord DEF Record
  <1>2. /\ e \in Leases /\ e # 0 /\ r \in Runs /\ run[r] \in RunRow /\ lease[e] \in LeaseRow
        /\ pos <= nextOffset /\ pos \in Nat \ {0} /\ nextOffset \in Nat
        /\ run[r].lease # e => lease[e].seal # 0
    BY <1>1, NextRecord
  <1>3. prefixes \ {e} \subseteq prefixes'
    BY DEF ProjectSeal, Forget
  <1>4. native' = native /\ nextOffset' = Recorded(pos)
    BY Zenon DEF ProjectSeal, RecordOnly, SealSettled, SealRecovers, SealTerminates
  <1>5. Closes(pos, e)
    BY <1>1 DEF Closes
  <1>6. ~SealStale(e) => run[r].lease = e
    BY <1>2 DEF SealStale
  <1>a. ASSUME \A p \in Runs \ {r} : Copies(run[p], run'[p]), Reads(e, run[r], run'[r])
        PROVE  Projected
    BY <1>1, <1>3, <1>4, <1>a, RecordedNext DEF Projected
  <1>7. CASE SealStale(e)
    <2>1. RecordOnly(pos)
      BY <1>7 DEF ProjectSeal
    <2>2. run' = run /\ lease' = lease
      BY <2>1 DEF RecordOnly
    <2>3. Touched(e, run[r], run'[r])
      BY <1>7, <2>2 DEF Touched, SealsKept, Copies, SealStale
    <2> QED BY <1>a, <2>2, <2>3 DEF Reads, Copies
  <1>8. CASE ~SealStale(e) /\ run[r].sealedAt # 0
    <2>1. SealSettled(pos, e)
      BY <1>8 DEF ProjectSeal
    <2>2. run' = run
      BY <2>1 DEF SealSettled
    <2>3. SealedAt(lease, lease', pos, e)
      <3>1. SealedAt(lease, lease, pos, e)
        BY DEF SealedAt
      <3> QED BY <1>0, <1>2, <2>1, <3>1, CloseAndReleaseSeals DEF SealSettled
    <2>4. Sealed(e, run[r], run'[r])
      BY <1>5, <1>6, <1>8, <2>2, <2>3 DEF Sealed
    <2> QED BY <1>a, <2>2, <2>4 DEF Reads, Copies
  <1>9. CASE ~SealStale(e) /\ run[r].sealedAt = 0 /\ Record.outcome = "recover"
    <2> DEFINE row == [run[r] EXCEPT
                          !.state = "queued", !.ready = FALSE,
                          !.lease = 0, !.released = FALSE, !.exited = FALSE,
                          !.sealId = 0, !.sealedAt = 0, !.first = 0,
                          !.cancel = IF run[r].cancel \in {"dispatched", "acknowledged"}
                                     THEN "pending" ELSE run[r].cancel]
               gone == [run EXCEPT ![r].released = TRUE]
    <2>1. SealRecovers(pos, e)
      BY <1>9 DEF ProjectSeal
    <2>2. /\ run' = AdvanceLaneReadiness([run EXCEPT ![r] = row], "idle")
          /\ lease' = ReleaseIdle(Closed(e, pos), gone, e)
      BY <2>1 DEF SealRecovers
    <2>3. row \in RunRow
      <3>1. (IF run[r].cancel \in {"dispatched", "acknowledged"} THEN "pending"
             ELSE run[r].cancel) \in ControlRequestState \cup {"none"}
        BY <1>2 DEF RunRow, ControlRequestState
      <3>2. 0 \in 0..MaxLease /\ "queued" \in RunState
        BY LedgerAssumption DEF RunState
      <3> QED BY <1>2, <3>1, <3>2, RequeueMarks
    <2>4. row.lease = 0 /\ row.first = 0 /\ row.sealedAt = 0
      BY <1>2 DEF RunRow
    <2>5. Copies(row, run'[r]) /\ \A p \in Runs \ {r} : Copies(run[p], run'[p])
      <3> HIDE DEF row
      <3> QED BY <1>0, <1>2, <2>2, <2>3, RowWritten
    <2>6. SealedAt(lease, lease', pos, e)
      BY <1>0, <1>2, <2>2, CloseAndReleaseSeals
    <2>7. lease'[e].seal # 0
      <3>1. Closed(e, pos) \in [Leases -> LeaseRow] /\ Closed(e, pos)[e].seal # 0
        <4>1. Closed(e, pos)[e].seal # 0
          BY <1>0, <1>2 DEF Closed, LedgerTypeOK, LeaseRow
        <4> QED BY <1>0, <1>2, <4>1, ClosedKeeps
      <3>2. SealsKept(Closed(e, pos), ReleaseIdle(Closed(e, pos), gone, e))
        BY <1>2, <3>1, ReleaseIdleSeals
      <3> QED BY <1>2, <2>2, <3>1, <3>2 DEF SealsKept
    <2>8. Erased(e, run[r], run'[r])
      BY <1>5, <1>6, <1>9, <2>4, <2>5, <2>6, <2>7 DEF Erased, Copies
    <2> QED BY <1>a, <2>5, <2>8 DEF Reads
  <1>10. CASE ~SealStale(e) /\ run[r].sealedAt = 0 /\ Record.outcome # "recover"
    <2> DEFINE row == [run[r] EXCEPT
                          !.released = TRUE, !.sealedAt = pos,
                          !.first = IF @ = 0 THEN pos ELSE @,
                          !.terminals = @ \cup {<<pos, "failed">>}]
               runs == [run EXCEPT ![r] = row]
    <2>1. SealTerminates(pos, e)
      BY <1>10 DEF ProjectSeal
    <2>2. PICK s : run' = AdvanceLaneReadiness(runs, s)
      BY <2>1 DEF SealTerminates
    <2>3. row \in RunRow
      <3>1. run[r].terminals \cup {<<pos, "failed">>} \in SUBSET (Nat \X Outcome)
        BY <1>2 DEF RunRow, Outcome
      <3>2. (IF run[r].first = 0 THEN pos ELSE run[r].first) \in Nat
        BY <1>2 DEF RunRow
      <3> QED BY <1>2, <3>1, <3>2 DEF RunRow
    <2>4. row.lease = run[r].lease /\ row.sealedAt = pos /\ row.state = run[r].state
      BY <1>2 DEF RunRow
    <2>5. Copies(row, run'[r]) /\ \A p \in Runs \ {r} : Copies(run[p], run'[p])
      <3> HIDE DEF row
      <3> QED BY <1>0, <1>2, <2>2, <2>3, RowWritten
    <2>6. SealedAt(lease, lease', pos, e)
      <3>1. lease' = ReleaseIdle(Closed(e, pos), runs, e)
        BY <2>1, Zenon DEF SealTerminates
      <3> QED BY <1>0, <1>2, <3>1, CloseAndReleaseSeals
    <2>7. Sealed(e, run[r], run'[r])
      BY <1>5, <1>6, <1>10, <2>4, <2>5, <2>6 DEF Sealed, Copies
    <2> QED BY <1>a, <2>5, <2>7 DEF Reads
  <1> QED BY <1>7, <1>8, <1>9, <1>10

\* In short, for every kind of record.
LEMMA RecordProjected ==
    ASSUME OutcomeInv, HistoryInv, Projecting
    PROVE  /\ Projected /\ Moves /\ log' = log /\ pos' = pos + 1 /\ groupOffset' = groupOffset
           /\ leaseEpoch' = leaseEpoch
           /\ pos \in DOMAIN log /\ Record = log[pos] /\ pos <= nextOffset
           /\ pos \in Nat \ {0} /\ nextOffset \in Nat
           /\ Record.writer \in Leases /\ Record.writer # 0 /\ lease[Record.writer].run \in Runs
  <1>0. TypeOK /\ RowsInv /\ LogInv /\ RecordInv
    BY Parts
  <1>1. Projected
    BY CommitProjected, FinishProjected, SealProjected DEF Projecting
  <1>2. /\ pos \in DOMAIN log /\ pos' = pos + 1 /\ log' = log /\ groupOffset' = groupOffset
        /\ Record = log[pos]
    BY <1>0, ProjectedRecord DEF Projecting, writers, Record
  <1>3. Moves
    <2>1. Next
      BY DEF Projecting, Next, ProjectorNext
    <2> QED BY <1>0, <2>1, StepMoves
  <1>4. leaseEpoch' = leaseEpoch
    BY Zenon DEF Projecting, ProjectCommit, ProjectFinish, ProjectSeal, ApplyCommit, RecordOnly,
           FinishOverruled, FinishSettles, SealSettled, SealRecovers, SealTerminates, ledger
  <1> QED BY <1>1, <1>2, <1>3, <1>4, NextRecord

-----------------------------------------------------------------------------
(* A record that is projected keeps what was projected.                      *)

\* The history goes on with it if it is a new commit,
LEMMA AppliedProjected ==
    ASSUME OutcomeInv, HistoryInv, Projecting
    PROVE  Applied'
  <1>0. TypeOK /\ Applied /\ Reached
    BY Parts
  <1>1. /\ log' = log /\ pos \in DOMAIN log /\ Record = log[pos]
        /\ pos <= nextOffset /\ pos \in Nat \ {0} /\ nextOffset \in Nat
        /\ nextOffset' = IF pos = nextOffset THEN pos + 1 ELSE nextOffset
        /\ native' = IF Record.kind = "commit" /\ pos = nextOffset
                     THEN Append(native, pos) ELSE native
    BY RecordProjected DEF Projected
  <1>2. CommitOffsets' = CommitOffsets /\ \A n : Number(n)' = Number(n)
    <2>1. CommitOffsets' = CommitOffsets
      BY <1>1 DEF CommitOffsets
    <2>2. \A n : Before(n)' = Before(n)
      BY <2>1 DEF Before
    <2> QED BY <2>1, <2>2 DEF Number
  <1>3. native \in Seq(Nat) /\ Len(native) \in Nat /\ DOMAIN native = 1..Len(native)
    BY <1>0 DEF TypeOK, LedgerTypeOK
  <1>4. \A i \in CommitOffsets : i \in Nat
    BY <1>0, LogOffsets
  <1>5. CASE pos # nextOffset
    <2>1. native' = native /\ nextOffset' = nextOffset
      BY <1>1, <1>5
    <2> QED BY <1>0, <1>2, <2>1 DEF Applied
  <1>6. CASE pos = nextOffset /\ Record.kind # "commit"
    <2>1. native' = native /\ nextOffset' = pos + 1 /\ Number(pos + 1) = Number(pos)
      BY <1>0, <1>1, <1>6, CountNext
    <2>2. pos \notin CommitOffsets
      BY <1>1, <1>6 DEF CommitOffsets
    <2>3. \A i \in CommitOffsets : i < pos + 1 => i < pos
      BY <1>1, <1>4, <2>2
    <2>4. \A i \in CommitOffsets : i < pos => i < pos + 1
      BY <1>1, <1>4
    <2> QED BY <1>0, <1>2, <1>6, <2>1, <2>3, <2>4 DEF Applied
  <1>7. CASE pos = nextOffset /\ Record.kind = "commit"
    <2>1. /\ native' = Append(native, pos) /\ nextOffset' = pos + 1
          /\ Number(pos + 1) = Number(pos) + 1
      BY <1>0, <1>1, <1>7, CountNext
    <2>2. /\ Len(native') = Len(native) + 1 /\ DOMAIN native' = 1..(Len(native) + 1)
          /\ native'[Len(native) + 1] = pos
          /\ \A n \in DOMAIN native : native'[n] = native[n]
      BY <1>1, <1>3, <2>1
    <2>3. Len(native) = Number(pos) /\ pos \in CommitOffsets
      BY <1>0, <1>1, <1>7 DEF Applied, CommitOffsets
    <2>4. ASSUME NEW n \in DOMAIN native'
          PROVE  native'[n] \in CommitOffsets /\ native'[n] < pos + 1
                 /\ n = Number(native'[n]) + 1
      <3>1. CASE n = Len(native) + 1
        BY <1>1, <2>2, <2>3, <3>1
      <3>2. CASE n \in DOMAIN native
        <4>1. native[n] \in CommitOffsets /\ native[n] < pos /\ n = Number(native[n]) + 1
          BY <1>0, <1>7, <3>2 DEF Applied
        <4> QED BY <1>1, <1>4, <2>2, <3>2, <4>1
      <3> QED BY <1>3, <2>2, <3>1, <3>2
    <2>5. ASSUME NEW i \in CommitOffsets, i < pos + 1
          PROVE  Number(i) + 1 \in DOMAIN native' /\ native'[Number(i) + 1] = i
      <3>1. CASE i = pos
        BY <1>3, <2>2, <2>3, <3>1
      <3>2. CASE i < pos
        <4>1. Number(i) + 1 \in DOMAIN native /\ native[Number(i) + 1] = i
          BY <1>0, <1>7, <3>2 DEF Applied
        <4> QED BY <1>3, <2>2, <4>1
      <3> QED BY <1>1, <1>4, <2>5, <3>1, <3>2
    <2> QED BY <1>2, <2>1, <2>2, <2>3, <2>4, <2>5 DEF Applied
  <1> QED BY <1>5, <1>6, <1>7

\* what it closes is projected,
LEMMA ReachedProjected ==
    ASSUME OutcomeInv, HistoryInv, Projecting
    PROVE  Reached'
  <1> DEFINE e == Record.writer
             r == lease[e].run
  <1>0. TypeOK /\ LedgerTypeOK /\ Reached
    BY Parts
  <1>1. /\ log' = log /\ pos \in DOMAIN log /\ pos' = pos + 1 /\ groupOffset' = groupOffset
        /\ pos <= nextOffset /\ pos \in Nat \ {0} /\ nextOffset \in Nat
        /\ nextOffset' = IF pos = nextOffset THEN pos + 1 ELSE nextOffset
        /\ \A p \in Runs \ {r} : Copies(run[p], run'[p])
        /\ Reads(e, run[r], run'[r]) /\ r \in Runs /\ e \in Leases
    BY RecordProjected DEF Projected
  <1>2. /\ pos' <= nextOffset' /\ groupOffset' <= nextOffset' /\ nextOffset' <= Len(log') + 1
        /\ pos < nextOffset' /\ nextOffset <= nextOffset' /\ nextOffset' \in Nat
    <2>1. Len(log) \in Nat /\ pos <= Len(log) /\ groupOffset \in Nat
      BY <1>0, <1>1, LogOffsets
    <2>2. groupOffset <= nextOffset /\ nextOffset <= Len(log) + 1
      BY <1>0 DEF Reached
    <2> QED BY <1>1, <2>1, <2>2
  <1>3. \A d \in Leases : lease'[d].seal < nextOffset'
    <2>1. \A d \in Leases : lease'[d].seal = lease[d].seal \/ lease'[d].seal = pos
      BY <1>1 DEF Reads, Touched, Anchored, Sealed, Erased, SealsKept, SealedAt
    <2>2. \A d \in Leases : lease[d].seal < nextOffset /\ lease[d].seal \in Nat
      BY <1>0 DEF Reached, LedgerTypeOK, LeaseRow
    <2> QED BY <1>1, <1>2, <2>1, <2>2
  <1>4. ASSUME NEW p \in Runs, run'[p].sealedAt # 0
        PROVE  Closes(run'[p].sealedAt, run'[p].lease) /\ run'[p].sealedAt < nextOffset'
    <2>1. ASSUME Closes(run[p].sealedAt, run[p].lease), run[p].sealedAt < nextOffset,
                 run'[p].sealedAt = run[p].sealedAt, run'[p].lease = run[p].lease
          PROVE  Closes(run'[p].sealedAt, run'[p].lease) /\ run'[p].sealedAt < nextOffset'
      <3>1. run[p].sealedAt \in Nat
        BY <1>0 DEF LedgerTypeOK, RunRow
      <3> QED BY <1>1, <1>2, <2>1, <3>1
    <2>2. run[p].sealedAt # 0 => Closes(run[p].sealedAt, run[p].lease) /\ run[p].sealedAt < nextOffset
      BY <1>0 DEF Reached
    <2>3. CASE Copies(run[p], run'[p])
      BY <1>4, <2>1, <2>2, <2>3 DEF Copies
    <2>4. CASE p = r /\ Sealed(e, run[r], run'[r])
      BY <1>2, <2>1, <2>2, <2>4 DEF Sealed
    <2> QED BY <1>1, <1>4, <2>3, <2>4 DEF Reads, Touched, Anchored, Erased
  <1>5. \A i, d : Closes(i, d)' = Closes(i, d)
    BY <1>1 DEF Closes
  <1>6. \A p \in Runs : run'[p].sealedAt # 0 =>
            /\ run'[p].sealedAt \in DOMAIN log' /\ log'[run'[p].sealedAt].writer = run'[p].lease
            /\ log'[run'[p].sealedAt].kind \in {"finish", "seal"}
            /\ run'[p].sealedAt < nextOffset'
    BY <1>1, <1>4 DEF Closes
  <1> QED BY <1>2, <1>3, <1>6 DEF Reached, Closes

\* the rows tell which executions are in progress,
LEMMA RowsProjected ==
    ASSUME OutcomeInv, HistoryInv, Projecting
    PROVE  Closings' /\ Working' /\ \A p \in Runs : Decided(p)'
  <1> DEFINE e == Record.writer
             r == lease[e].run
  <1>0. TypeOK /\ LedgerTypeOK /\ RowsInv /\ Closings /\ Working /\ \A p \in Runs : Decided(p)
    BY Parts
  <1>1. /\ Moves /\ leaseEpoch' = leaseEpoch /\ pos \in Nat \ {0} /\ e # 0
        /\ \A p \in Runs \ {r} : Copies(run[p], run'[p])
        /\ Reads(e, run[r], run'[r]) /\ r \in Runs /\ e \in Leases
    BY RecordProjected DEF Projected
  <1>2. Closings'
    <2> SUFFICES ASSUME NEW d \in 1..leaseEpoch
                 PROVE  IF run'[lease'[d].run].lease = d
                        THEN lease'[d].seal # 0 => run'[lease'[d].run].sealedAt # 0
                        ELSE lease'[d].seal # 0
      BY <1>1 DEF Closings
    <2> DEFINE q == lease[d].run
    <2>1. lease'[d].run = q /\ q \in Runs /\ d \in Leases
      BY <1>0, <1>1, IssuedStays, Issued DEF RowsInv, Held
    <2>2. IF run[q].lease = d THEN lease[d].seal # 0 => run[q].sealedAt # 0 ELSE lease[d].seal # 0
      BY <1>0 DEF Closings
    <2>3. lease'[d].seal = lease[d].seal \/ (d = e /\ lease'[d].seal = pos)
      BY <1>1, <2>1 DEF Reads, Touched, Anchored, Sealed, Erased, SealsKept, SealedAt
    <2>4. CASE q # r
      <3>1. Copies(run[q], run'[q]) /\ lease'[d].seal = lease[d].seal
        BY <1>1, <2>1, <2>3, <2>4
      <3> QED BY <2>1, <2>2, <3>1 DEF Copies
    <2>5. CASE q = r
      <3>1. CASE Touched(e, run[r], run'[r])
        BY <2>1, <2>2, <2>5, <3>1 DEF Touched, SealsKept, Copies
      <3>2. CASE Anchored(e, run[r], run'[r])
        BY <2>1, <2>2, <2>5, <3>2 DEF Anchored, SealsKept
      <3>3. CASE Sealed(e, run[r], run'[r])
        <4>1. run'[r].sealedAt # 0 /\ run'[r].lease = e /\ run[r].lease = e
          BY <1>1, <3>3 DEF Sealed
        <4> QED BY <2>1, <2>2, <2>3, <2>5, <4>1
      <3>4. CASE Erased(e, run[r], run'[r])
        <4>1. run'[r].lease = 0 /\ run[r].lease = e /\ lease'[e].seal # 0
          BY <3>4 DEF Erased
        <4>2. d # 0
          OBVIOUS
        <4> QED BY <2>1, <2>2, <2>3, <2>5, <4>1, <4>2
      <3> QED BY <1>1, <3>1, <3>2, <3>3, <3>4 DEF Reads
    <2> QED BY <2>4, <2>5
  <1>3. ASSUME NEW p \in Runs
        PROVE  Works(run'[p])
    <2>1. Works(run[p])
      BY <1>0 DEF Working
    <2>2. CASE Copies(run[p], run'[p])
      BY <2>1, <2>2 DEF Copies, Works
    <2>3. CASE p = r /\ (Anchored(e, run[r], run'[r]) \/ Sealed(e, run[r], run'[r]))
      BY <1>1, <2>1, <2>3 DEF Anchored, Sealed, Works, Outcome
    <2>4. CASE p = r /\ Erased(e, run[r], run'[r])
      BY <2>4 DEF Erased, Works
    <2> QED BY <1>1, <2>2, <2>3, <2>4 DEF Reads, Touched
  <1>4. ASSUME NEW p \in Runs
        PROVE  Decided(p)'
    <2>1. run'[p].lease # 0 /\ run'[p].sealedAt = 0 /\ IsTerminalRunState(run'[p].state)
             => IsTerminalRunState(run[p].state) \/ run'[p].sealId # run[p].sealId
      <3>1. CASE Copies(run[p], run'[p])
        BY <3>1 DEF Copies
      <3>2. CASE p = r /\ Anchored(e, run[r], run'[r])
        BY <3>2 DEF Anchored
      <3>3. CASE p = r /\ (Sealed(e, run[r], run'[r]) \/ Erased(e, run[r], run'[r]))
        BY <1>1, <3>3 DEF Sealed, Erased
      <3> QED BY <1>1, <3>1, <3>2, <3>3 DEF Reads, Touched
    <2> QED BY <1>0, <1>1, <2>1, DecidedStays
  <1> QED BY <1>2, <1>3, <1>4 DEF Working

\* and what was projected of them is what they published first.
LEMMA FirstProjected ==
    ASSUME OutcomeInv, HistoryInv, Projecting, NEW p \in Runs
    PROVE  FirstOf(p)'
  <1> DEFINE e == Record.writer
             r == lease[e].run
             d == run'[p].lease
             n == run'[p].first
  <1>0. TypeOK /\ LedgerTypeOK /\ RowsInv /\ FirstOf(p)
    BY Parts
  <1>1. /\ log' = log /\ pos \in DOMAIN log /\ pos' = pos + 1 /\ Record = log[pos]
        /\ pos <= nextOffset /\ pos \in Nat \ {0} /\ nextOffset \in Nat
        /\ nextOffset' = IF pos = nextOffset THEN pos + 1 ELSE nextOffset
        /\ \A q \in Runs \ {r} : Copies(run[q], run'[q])
        /\ prefixes \ {e} \subseteq prefixes'
        /\ Reads(e, run[r], run'[r]) /\ r \in Runs /\ e \in Leases
    BY RecordProjected DEF Projected
  <1>2. /\ \A j \in DOMAIN log : j \in Nat /\ (j < nextOffset' => j < nextOffset \/ j = pos)
        /\ nextOffset' \in Nat /\ nextOffset <= nextOffset' /\ pos < nextOffset'
    BY <1>0, <1>1, LogOffsets
  <1>3. CommitOffsets \subseteq DOMAIN log /\ CommitOffsets' = CommitOffsets
    BY <1>1 DEF CommitOffsets
  <1> SUFFICES ASSUME d # 0, run'[p].sealedAt = 0
               PROVE  IF n = 0
                      THEN \A j \in DOMAIN log :
                              j < nextOffset' /\ log[j].writer = d => log[j].kind = "finish"
                      ELSE /\ n \in CommitOffsets /\ n < nextOffset'
                           /\ log[n].writer = d
                           /\ \A j \in DOMAIN log :
                                 log[j].writer = d /\ log[j].kind # "finish" => n <= j
                           /\ d \in prefixes' \/ pos' <= n
    BY <1>1, <1>3 DEF FirstOf
  <1>4. CASE Anchored(e, run[r], run'[r]) /\ p = r
    <2>1. /\ run[p].lease = e /\ run[p].sealedAt = 0 /\ run[p].first = 0 /\ n = pos /\ d = e
          /\ Record.kind = "commit" /\ e \in prefixes'
      BY <1>4 DEF Anchored
    <2>2. \A j \in DOMAIN log : j < nextOffset /\ log[j].writer = e => log[j].kind = "finish"
      BY <1>0, <2>1 DEF FirstOf
    <2>3. pos = nextOffset
      BY <1>1, <2>1, <2>2
    <2>4. \A j \in DOMAIN log : log[j].writer = e /\ log[j].kind # "finish" => pos <= j
      BY <1>1, <1>2, <2>2, <2>3
    <2>5. pos \in CommitOffsets
      BY <1>1, <2>1 DEF CommitOffsets
    <2> QED BY <1>1, <1>2, <2>1, <2>4, <2>5
  <1>5. CASE Copies(run[p], run'[p])
    <2>1. run[p].lease = d /\ run[p].sealedAt = 0 /\ run[p].first = n
      BY <1>5 DEF Copies
    <2>2. IF n = 0
          THEN \A j \in DOMAIN log :
                  j < nextOffset /\ log[j].writer = d => log[j].kind = "finish"
          ELSE /\ n \in CommitOffsets /\ n < nextOffset
               /\ log[n].writer = d
               /\ \A j \in DOMAIN log :
                     log[j].writer = d /\ log[j].kind # "finish" => n <= j
               /\ d \in prefixes \/ pos <= n
      BY <1>0, <2>1 DEF FirstOf
    <2>3. n \in CommitOffsets => n \in Nat /\ log[n].kind = "commit"
      BY <1>2 DEF CommitOffsets
    <2>4. CASE d # e
      <3>1. n = 0 => \A j \in DOMAIN log :
                        j < nextOffset' /\ log[j].writer = d => log[j].kind = "finish"
        BY <1>1, <1>2, <2>2, <2>4
      <3>2. n # 0 => d \in prefixes' \/ pos + 1 <= n
        <4>1. n # 0 => n # pos
          BY <1>1, <2>2, <2>4
        <4> QED BY <1>1, <2>2, <2>3, <2>4, <4>1
      <3> QED BY <1>1, <1>2, <2>2, <2>3, <3>1, <3>2
    <2>5. CASE d = e
      <3>1. p = r
        BY <1>0, <2>1, <2>5, LeaseOfRun
      <3>2. ~Sealed(e, run[r], run'[r]) /\ ~Erased(e, run[r], run'[r])
        BY <1>1, <2>1, <2>5, <3>1 DEF Sealed, Erased
      <3>3. CASE Anchored(e, run[r], run'[r])
        BY <1>4, <3>1, <3>3
      <3>4. CASE Touched(e, run[r], run'[r])
        <4>1. \/ n # 0 /\ e \in prefixes'
              \/ Record.kind = "finish" /\ prefixes' = prefixes
          BY <2>1, <2>5, <3>1, <3>4 DEF Touched
        <4>2. n = 0 => \A j \in DOMAIN log :
                          j < nextOffset' /\ log[j].writer = d => log[j].kind = "finish"
          BY <1>1, <1>2, <2>2, <4>1
        <4>3. n # 0 => d \in prefixes' \/ pos + 1 <= n
          <5>1. Record.kind = "finish" /\ n # 0 => n # pos
            BY <1>1, <2>2, <2>3
          <5> QED BY <1>1, <2>2, <2>3, <2>5, <4>1, <5>1
        <4> QED BY <1>1, <1>2, <2>2, <2>3, <4>2, <4>3
      <3> QED BY <1>1, <3>2, <3>3, <3>4 DEF Reads
    <2> QED BY <2>4, <2>5
  <1>6. CASE p = r /\ (Sealed(e, run[r], run'[r]) \/ Erased(e, run[r], run'[r]))
    BY <1>1, <1>6 DEF Sealed, Erased
  <1> QED BY <1>1, <1>4, <1>5, <1>6 DEF Reads, Touched

\* Together.
LEMMA ProjectedKeeps ==
    ASSUME OutcomeInv, HistoryInv, Projecting
    PROVE  Applied' /\ Reached' /\ ExecutionInv'
  <1>1. \A p \in Runs : Decided(p)' /\ FirstOf(p)'
    BY RowsProjected, FirstProjected
  <1> QED BY <1>1, AppliedProjected, ReachedProjected, RowsProjected DEF ExecutionInv

-----------------------------------------------------------------------------
(* What the writers know of the history.                                     *)

\* No writer learns anything new of it or adds anything to it.
HeadsRest ==
    /\ log' = log
    /\ \A e \in Leases :
          /\ Unopened(e)' => Unopened(e) /\ sent'[e] = sent[e]
          /\ Appends(e)' => Appends(e) /\ head'[e] = head[e] /\ sent'[e] = sent[e]
    /\ \A t \in transaction' :
          t.fact.kind # "seal" =>
              /\ t \in transaction
              /\ t.client \in Leases /\ phase'[t.client] = "sending" =>
                    /\ phase[t.client] = "sending"
                    /\ head'[t.client] = head[t.client] /\ sent'[t.client] = sent[t.client]

\* The same records, counted the same.
LEMMA CountUnchanged ==
    ASSUME log' = log
    PROVE  Total' = Total /\ \A n : Number(n)' = Number(n)
  <1>1. CommitOffsets' = CommitOffsets
    BY DEF CommitOffsets
  <1>2. \A n : Before(n)' = Before(n)
    BY <1>1 DEF Before
  <1>3. \A n : Number(n)' = Number(n)
    BY <1>2 DEF Number
  <1> QED BY <1>3 DEF Total

\* One more is counted if it is a commit.
LEMMA CountMore ==
    ASSUME TypeOK, NEW f, log' = Append(log, f)
    PROVE  Total' = IF f.kind = "commit" THEN Total + 1 ELSE Total
  <1>0. PICK n \in Nat : n = Len(log) + 1
    BY LogOffsets
  <1>1. /\ \A i \in DOMAIN log' : i \in DOMAIN log \/ i = n
        /\ Len(log') = n /\ n \in DOMAIN log' /\ log'[n] = f
        /\ \A i \in DOMAIN log : i \in DOMAIN log' /\ log'[i] = log[i]
    BY <1>0, CountStays
  <1>2. \A i \in DOMAIN log : i \in Nat /\ i < n
    BY <1>0, LogOffsets
  <1>3. IsFiniteSet(Before(n)) /\ CommitOffsets \subseteq DOMAIN log
    BY LogOffsets, Countable
  <1>4. Before(n) = CommitOffsets
    BY <1>2, <1>3 DEF Before
  <1>5. CommitOffsets' = IF f.kind = "commit" THEN CommitOffsets \cup {n} ELSE CommitOffsets
    BY <1>1, <1>2, <1>3 DEF CommitOffsets
  <1>6. Before(n + 1)' = CommitOffsets'
    <2>1. \A i \in CommitOffsets' : i < n + 1
      BY <1>1, <1>2 DEF CommitOffsets
    <2> QED BY <2>1 DEF Before
  <1>7. Total = Cardinality(CommitOffsets)
    BY <1>0, <1>4 DEF Total, Number
  <1>8. Total' = Cardinality(CommitOffsets')
    <2>1. Total' = Number(n + 1)'
      BY <1>1 DEF Total
    <2> QED BY <1>6, <2>1 DEF Number
  <1>9. n \notin CommitOffsets
    BY <1>2, <1>3
  <1>10. Cardinality(CommitOffsets \cup {n}) = Cardinality(CommitOffsets) + 1
    BY <1>3, <1>4, <1>9, FS_AddElement
  <1> QED BY <1>5, <1>7, <1>8, <1>10

\* Such steps keep what they know.
LEMMA HeadsRestKeep ==
    ASSUME TypeOK, SenderInv, WritingInv, HeadsRest
    PROVE  WritingInv'
  <1>1. Total' = Total /\ \A n : Number(n)' = Number(n)
    BY CountUnchanged DEF HeadsRest
  <1>2. NumberedLog'
    BY <1>1 DEF NumberedLog, WritingInv, HeadsRest
  <1>3. HeadInv'
    BY <1>1 DEF HeadInv, WritingInv, HeadsRest
  <1>4. ASSUME NEW t \in transaction'
        PROVE  /\ t.fact.kind = "commit" =>
                     /\ t.fact.seq = Total + 1
                     /\ phase'[t.client] = "sending" => head'[t.client] + sent'[t.client] = Total + 1
               /\ t.fact.kind = "finish" => t.fact.seq \in {0, Total}
    <2>1. CASE t.fact.kind = "seal"
      BY <2>1
    <2>2. CASE t.fact.kind # "seal"
      <3>1. t \in transaction /\ t.client \in Leases
        BY <2>2, WritersAreLeases DEF HeadsRest, SenderInv
      <3> QED BY <2>2, <3>1 DEF HeadsRest, WritingInv, SendingInv
    <2> QED BY <2>1, <2>2
  <1>5. SendingInv'
    BY <1>1, <1>4 DEF SendingInv
  <1> QED BY <1>2, <1>3, <1>5 DEF WritingInv

\* Executors that come and go: a writer is left open by one that was running.
LEMMA ActorRests ==
    ASSUME TypeOK, UNCHANGED writers, UNCHANGED head,
           \A e \in Leases : phase[e] = "open" /\ worker'[e] \in {"running", "left"}
                               => worker[e] \in {"running", "left"}
    PROVE  HeadsRest
  <1>1. UNCHANGED <<log, producerEpoch, transaction, phase, epoch, sent>>
    BY DEF writers
  <1>2. \A e \in Leases : Unopened(e)' = Unopened(e) /\ (Appends(e)' => Appends(e))
    BY <1>1 DEF Unopened, Appends, Unfenced
  <1> QED BY <1>1, <1>2 DEF HeadsRest

\* A client whose writer starts or closes, or that is no execution's.
LEMMA PhaseRests ==
    ASSUME TypeOK, NEW c \in Clients, NEW x, phase' = [phase EXCEPT ![c] = x],
           UNCHANGED <<log, producerEpoch, transaction, epoch, sent, head>>,
           \/ x = "closed"
           \/ x = "granted" /\ phase[c] = "idle"
           \/ c \in Controls,
           \A e \in Leases : e # c => worker'[e] = worker[e]
    PROVE  HeadsRest
  <1>1. \A d \in Clients : phase'[d] = IF d = c THEN x ELSE phase[d]
    BY DEF TypeOK
  <1>2. Leases \subseteq Clients /\ Controls = Clients \ Leases
    BY OwnershipAssumption DEF Controls
  <1>3. ASSUME NEW e \in Leases
        PROVE  /\ Unopened(e)' => Unopened(e) /\ sent'[e] = sent[e]
               /\ Appends(e)' => Appends(e) /\ head'[e] = head[e] /\ sent'[e] = sent[e]
    <2>1. CASE e = c
      BY <1>1, <1>2, <2>1 DEF Unopened, Appends
    <2>2. CASE e # c
      BY <1>1, <1>2, <2>2 DEF Unopened, Appends, Unfenced
    <2> QED BY <2>1, <2>2
  <1>4. \A e \in Leases : phase'[e] = "sending" => phase[e] = "sending"
    BY <1>1, <1>2
  <1> QED BY <1>3, <1>4 DEF HeadsRest

\* A new producer: everybody else is fenced.
LEMMA InitRests ==
    ASSUME TypeOK, EpochInv, NEW c \in Clients, InitTransactions(c), UNCHANGED <<worker, head>>
    PROVE  HeadsRest
  <1>1. /\ phase[c] = "granted" /\ phase' = [phase EXCEPT ![c] = "initialized"]
        /\ producerEpoch' = producerEpoch + 1
        /\ epoch' = [epoch EXCEPT ![c] = producerEpoch + 1]
        /\ transaction' = {} /\ log' = log /\ sent' = sent
    BY DEF InitTransactions
  <1>2. Leases \subseteq Clients
    BY OwnershipAssumption
  <1>3. ASSUME NEW e \in Leases
        PROVE  /\ Unopened(e)' => Unopened(e) /\ sent'[e] = sent[e]
               /\ Appends(e)' => Appends(e) /\ head'[e] = head[e] /\ sent'[e] = sent[e]
    <2>1. CASE e = c
      BY <1>1, <1>2, <2>1 DEF Unopened, Appends, TypeOK
    <2>2. CASE e # c
      <3>1. phase'[e] = phase[e] /\ epoch'[e] = epoch[e]
        BY <1>1, <1>2, <2>2 DEF TypeOK
      <3>2. epoch[e] <= producerEpoch /\ epoch[e] \in Nat /\ producerEpoch \in Nat
        BY <1>2 DEF EpochInv, TypeOK
      <3>3. ~Unfenced(e)'
        BY <1>1, <3>1, <3>2 DEF Unfenced
      <3> QED BY <1>1, <3>1, <3>3 DEF Unopened, Appends
    <2> QED BY <2>1, <2>2
  <1> QED BY <1>1, <1>3 DEF HeadsRest

\* A seal is not of the history.
LEMMA SealRests ==
    ASSUME TypeOK, NEW k \in Controls, NEW fact, fact.kind = "seal", Submit(k, fact),
           UNCHANGED <<worker, head>>
    PROVE  HeadsRest
  <1>1. /\ phase' = [phase EXCEPT ![k] = "sending"] /\ sent' = [sent EXCEPT ![k] = @ + 1]
        /\ transaction' = IF Unfenced(k) THEN {[client |-> k, fact |-> fact]} ELSE transaction
        /\ UNCHANGED <<log, producerEpoch, epoch>>
    BY DEF Submit
  <1>2. \A e \in Leases : e \in Clients /\ e # k
    BY OwnershipAssumption DEF Controls
  <1>3. \A e \in Leases : phase'[e] = phase[e] /\ sent'[e] = sent[e]
    BY <1>1, <1>2 DEF TypeOK
  <1>4. \A e \in Leases : Unopened(e)' = Unopened(e) /\ Appends(e)' = Appends(e)
    BY <1>1, <1>3 DEF Unopened, Appends, Unfenced
  <1>5. \A t \in transaction' : t.fact.kind # "seal" => t \in transaction
    BY <1>1
  <1> QED BY <1>1, <1>3, <1>4, <1>5 DEF HeadsRest

-----------------------------------------------------------------------------
(* The steps that add to it.                                                 *)

\* An Agent that opens its writer has everything there is: whatever lies behind
\* the projected position would be of a writer that is closed, or its own.
LEMMA OpenedKeeps ==
    ASSUME OutcomeInv, HistoryInv, NEW e \in Leases, WorkerOpens(e)
    PROVE  WritingInv'
  <1>0. /\ TypeOK /\ LedgerTypeOK /\ LeaseInv /\ LogInv /\ RecordInv /\ NothingAfterClosure
        /\ SenderInv /\ NumberedLog /\ HeadInv /\ SendingInv /\ Applied /\ Reached
    BY Parts
  <1>1. /\ Granted(e) /\ phase[e] = "initialized" /\ phase' = [phase EXCEPT ![e] = "open"]
        /\ head' = [head EXCEPT ![e] = Len(native)]
        /\ UNCHANGED <<log, producerEpoch, transaction, epoch, sent, worker>>
    BY DEF WorkerOpens, FinishOpen
  <1>2. e = leaseEpoch
    <2>1. ~lease[e].released /\ e \in 1..leaseEpoch
      BY <1>1 DEF Granted
    <2> QED BY <1>0, <2>1 DEF LeaseInv, LedgerTypeOK
  <1>3. ASSUME NEW j \in CommitOffsets, nextOffset <= j, j < Len(log) + 1
        PROVE  FALSE
    <2> DEFINE w == log[j].writer
    <2>1. j \in DOMAIN log /\ log[j].kind = "commit" /\ j \in Nat /\ w \in Leases
      BY <1>0, LogOffsets DEF CommitOffsets
    <2>2. w # e
      BY <1>0, <1>1, <2>1 DEF RecordInv
    <2>3. w \in 1..(leaseEpoch - 1)
      BY <1>0, <1>2, <2>1, <2>2 DEF LogInv, Leases, LedgerTypeOK
    <2>4. lease[w].seal # 0
      BY <1>0, <2>1, <2>3 DEF LeaseInv
    <2>5. j <= lease[w].seal
      BY <1>0, <2>1, <2>4 DEF NothingAfterClosure
    <2>6. lease[w].seal < nextOffset /\ lease[w].seal \in Nat /\ nextOffset \in Nat
      BY <1>0, <2>1 DEF Reached, LedgerTypeOK, LeaseRow
    <2> QED BY <1>3, <2>1, <2>5, <2>6
  <1>4. Len(native) = Total
    <2>1. nextOffset \in Nat /\ Len(log) + 1 \in Nat /\ nextOffset <= Len(log) + 1
      BY <1>0, LogOffsets DEF Reached
    <2>2. Number(Len(log) + 1) = Number(nextOffset)
      BY <1>0, <1>3, <2>1, CountSame
    <2> QED BY <1>0, <2>2 DEF Total, Applied
  <1>5. e \in Clients /\ Leases \subseteq Clients
    BY OwnershipAssumption
  <1>6. sent[e] = 0
    BY <1>0, <1>1 DEF HeadInv, Unopened
  <1>7. Total' = Total /\ (\A n : Number(n)' = Number(n)) /\ Total \in Nat
    BY <1>0, <1>1, CountUnchanged, CountAll
  <1>8. NumberedLog'
    BY <1>0, <1>1, <1>7 DEF NumberedLog
  <1>9. ASSUME NEW d \in Leases
        PROVE  /\ Unopened(d)' => sent'[d] = 0
               /\ Appends(d)' => head'[d] + sent'[d] = Total
    <2>1. CASE d = e
      BY <1>0, <1>1, <1>4, <1>5, <1>6, <1>7, <2>1 DEF TypeOK, Unopened
    <2>2. CASE d # e
      <3>1. phase'[d] = phase[d] /\ head'[d] = head[d] /\ sent'[d] = sent[d]
        BY <1>0, <1>1, <1>5, <2>2 DEF TypeOK
      <3>2. Unopened(d)' = Unopened(d) /\ Appends(d)' = Appends(d)
        BY <1>1, <3>1 DEF Unopened, Appends, Unfenced
      <3> QED BY <1>0, <3>1, <3>2 DEF HeadInv
    <2> QED BY <2>1, <2>2
  <1>10. HeadInv'
    BY <1>7, <1>9 DEF HeadInv
  <1>11. ASSUME NEW t \in transaction
         PROVE  /\ t.fact.kind = "commit" =>
                      /\ t.fact.seq = Total + 1
                      /\ phase'[t.client] = "sending" => head'[t.client] + sent'[t.client] = Total + 1
                /\ t.fact.kind = "finish" => t.fact.seq \in {0, Total}
    <2>1. t.client \in Clients /\ t.fact.writer \in Leases
      BY <1>0, WritersAreLeases
    <2>2. CASE t.fact.kind = "commit"
      <3>1. t.client \in Leases
        BY <1>0, <2>1, <2>2 DEF SenderInv
      <3>2. phase'[t.client] = "sending" =>
                /\ phase[t.client] = "sending" /\ head'[t.client] = head[t.client]
                /\ sent'[t.client] = sent[t.client]
        BY <1>0, <1>1, <1>5, <3>1 DEF TypeOK
      <3> QED BY <1>0, <2>2, <3>2 DEF SendingInv
    <2>3. CASE t.fact.kind # "commit"
      BY <1>0, <2>3 DEF SendingInv
    <2> QED BY <2>2, <2>3
  <1>12. SendingInv'
    BY <1>1, <1>7, <1>11 DEF SendingInv
  <1> QED BY <1>8, <1>10, <1>12 DEF WritingInv

\* A record of an execution that may append is the next of the history, or names
\* the last of it.
LEMMA SubmittedKeeps ==
    ASSUME TypeOK, SenderInv, InflightInv, WritingInv, NEW e \in Leases, NEW fact,
           Submit(e, fact), worker[e] \in {"running", "left"}, UNCHANGED head,
           \A d \in Leases \ {e} : worker'[d] = worker[d],
           \/ fact.kind = "commit" /\ fact.seq = head[e] + sent[e] + 1
           \/ fact.kind = "finish" /\ fact.seq \in {0, head[e] + sent[e]}
    PROVE  WritingInv'
  <1>1. /\ phase[e] = "open" /\ phase' = [phase EXCEPT ![e] = "sending"]
        /\ sent' = [sent EXCEPT ![e] = @ + 1]
        /\ transaction' = IF Unfenced(e) THEN {[client |-> e, fact |-> fact]} ELSE transaction
        /\ UNCHANGED <<log, producerEpoch, epoch, head>>
    BY DEF Submit
  <1>2. e \in Clients /\ Leases \subseteq Clients
    BY OwnershipAssumption
  <1>3. /\ phase'[e] = "sending" /\ sent'[e] = sent[e] + 1
        /\ \A d \in Leases \ {e} : phase'[d] = phase[d] /\ sent'[d] = sent[d]
    BY <1>1, <1>2 DEF TypeOK
  <1>4. /\ ~Unopened(e)' /\ ~Appends(e)'
        /\ \A d \in Leases \ {e} : Unopened(d)' = Unopened(d) /\ Appends(d)' = Appends(d)
    BY <1>1, <1>3 DEF Unopened, Appends, Unfenced
  <1>5. CASE ~Unfenced(e)
    <2>1. \A t \in transaction : t.client # e
      BY <1>5 DEF InflightInv
    <2>2. ASSUME NEW t \in transaction, t.client \in Leases, phase'[t.client] = "sending"
          PROVE  /\ phase[t.client] = "sending"
                 /\ head'[t.client] = head[t.client] /\ sent'[t.client] = sent[t.client]
      BY <1>1, <1>3, <2>1, <2>2
    <2>3. HeadsRest
      BY <1>1, <1>3, <1>4, <1>5, <2>2 DEF HeadsRest
    <2> QED BY <2>3, HeadsRestKeep
  <1>6. CASE Unfenced(e)
    <2>1. head[e] + sent[e] = Total
      BY <1>1, <1>6 DEF WritingInv, HeadInv, Appends
    <2>2. Total' = Total /\ (\A n : Number(n)' = Number(n)) /\ Total \in Nat
      BY <1>1, CountUnchanged, CountAll
    <2>3. NumberedLog'
      BY <1>1, <2>2 DEF NumberedLog, WritingInv
    <2>4. HeadInv'
      BY <1>1, <1>3, <1>4, <2>2 DEF HeadInv, WritingInv
    <2>5. head[e] + sent'[e] = Total + 1
      <3>1. head[e] \in Nat /\ sent[e] \in Nat
        BY <1>2 DEF TypeOK
      <3> QED BY <1>3, <2>1, <3>1
    <2>6. \A t \in transaction' : t.client = e /\ t.fact = fact
      BY <1>1, <1>6
    <2>7. SendingInv'
      BY <1>1, <2>1, <2>2, <2>5, <2>6 DEF SendingInv
    <2> QED BY <2>3, <2>4, <2>7 DEF WritingInv
  <1> QED BY <1>5, <1>6

\* What Kafka accepts is the next record of the history.
LEMMA AcceptedIsNext ==
    ASSUME OutcomeInv, HistoryInv, NEW t \in transaction, Acknowledged(t) \/ ReplyLost(t)
    PROVE  WritingInv'
  <1>0. /\ TypeOK /\ SenderInv /\ InflightInv /\ EpochInv
        /\ NumberedLog /\ HeadInv /\ SendingInv
    BY Parts
  <1>1. /\ log' = Append(log, t.fact) /\ transaction' = {}
        /\ UNCHANGED <<producerEpoch, epoch>>
        /\ t.client \in Clients /\ t.fact \in Facts
        /\ \A c \in Clients : phase'[c] = phase[c] \/ (c = t.client /\ phase[c] = "sending" /\ phase'[c] = "open")
        /\ \A e \in Leases : worker'[e] # worker[e] => worker'[e] = "completed"
        /\ t.fact.kind = "finish" /\ t.client \in Leases /\ phase'[t.client] = "open"
             => worker'[t.client] = "completed"
    BY <1>0, AcceptedRecord
  <1>2. sent' = sent /\ head' = head
    BY Zenon DEF Acknowledged, ReplyLost, Commit, WriterStep, workers
  <1>3. Leases \subseteq Clients /\ \A e \in Leases : e \notin Controls
    BY OwnershipAssumption DEF Controls
  <1>4. Total' = IF t.fact.kind = "commit" THEN Total + 1 ELSE Total
    BY <1>0, <1>1, CountMore
  <1>5. NumberedLog'
    <2>0. PICK n \in Nat : n = Len(log) + 1
      BY <1>0, LogOffsets
    <2>1. /\ \A i \in DOMAIN log' : i \in DOMAIN log \/ i = n
          /\ \A i \in DOMAIN log : log'[i] = log[i] /\ i \in Nat /\ i <= n
          /\ log'[n] = t.fact /\ \A i \in Nat : i <= n => Number(i)' = Number(i)
      BY <1>0, <1>1, <2>0, LogOffsets, CountStays
    <2>2. Total = Number(n)
      BY <2>0 DEF Total
    <2>3. ASSUME NEW i \in DOMAIN log'
          PROVE  /\ log'[i].kind = "commit" => log'[i].seq = Number(i)' + 1
                 /\ log'[i].kind = "finish" => log'[i].seq \in {0, Number(i)'}
      <3>1. CASE i = n
        BY <1>0, <2>1, <2>2, <3>1 DEF SendingInv
      <3>2. CASE i \in DOMAIN log
        <4>1. Number(i)' = Number(i) /\ log'[i] = log[i]
          BY <2>1, <3>2
        <4> QED BY <1>0, <3>2, <4>1 DEF NumberedLog
      <3> QED BY <2>1, <3>1, <3>2
    <2> QED BY <2>3 DEF NumberedLog
  <1>6. ASSUME NEW e \in Leases
        PROVE  /\ Unopened(e)' => sent[e] = 0
               /\ Appends(e)' => head[e] + sent[e] = Total'
    <2>1. phase'[e] = phase[e] \/ (e = t.client /\ phase[e] = "sending" /\ phase'[e] = "open")
      BY <1>1, <1>3
    <2>2. Unopened(e)' => Unopened(e)
      BY <2>1 DEF Unopened
    <2>3. Unopened(e)' => sent[e] = 0
      BY <1>0, <2>2 DEF HeadInv
    <2>4. ASSUME Appends(e)'
          PROVE  head[e] + sent[e] = Total'
      <3>1. phase'[e] = "open" /\ epoch[e] = producerEpoch /\ worker'[e] # "completed"
        BY <1>1, <2>4 DEF Appends, Unfenced
      <3>2. epoch[t.client] # 0 /\ epoch[t.client] = producerEpoch
            /\ phase[t.client] \in {"sending", "closed"}
        BY <1>0 DEF InflightInv, Unfenced
      <3>3. e = t.client
        BY <1>0, <1>1, <1>3, <3>1, <3>2 DEF EpochInv
      <3>4. phase[e] = "sending"
        BY <2>1, <3>1, <3>2, <3>3
      <3>5. t.fact.kind = "commit"
        <4>1. t.fact.kind # "seal"
          BY <1>0, <1>3, <3>3 DEF SenderInv
        <4>2. t.fact.kind # "finish"
          BY <1>1, <3>1, <3>3
        <4> QED BY <1>1, <4>1, <4>2 DEF Facts
      <3> QED BY <1>0, <1>4, <3>3, <3>4, <3>5 DEF SendingInv
    <2> QED BY <2>3, <2>4
  <1>7. HeadInv'
    BY <1>2, <1>6 DEF HeadInv
  <1>8. SendingInv'
    BY <1>1 DEF SendingInv
  <1> QED BY <1>5, <1>7, <1>8 DEF WritingInv

-----------------------------------------------------------------------------
(* Every step.                                                               *)

\* The executions.
LEMMA WorkerKeepsWriting ==
    ASSUME OutcomeInv, HistoryInv, WorkerNext
    PROVE  WritingInv'
  <1>0. TypeOK /\ SenderInv /\ InflightInv /\ EpochInv /\ WritingInv
    BY Parts DEF HistoryInv
  <1>r. ASSUME HeadsRest
        PROVE  WritingInv'
    BY <1>0, <1>r, HeadsRestKeep
  <1> PICK e \in 1..leaseEpoch :
       \/ WorkerBeginsOpen(e) \/ WorkerInitializes(e) \/ WorkerOpens(e)
       \/ WorkerOpenRefused(e) \/ WorkerOpenFails(e)
       \/ SendCommit(e) \/ (\E o \in Outcome : SendFinish(e, o))
       \/ WorkerRequestsRecovery(e) \/ WorkerLeaves(e) \/ WorkerCloses(e)
       \/ (\E quarantine \in BOOLEAN : WorkerRecordsFailure(e, quarantine))
       \/ ExitConfirmed(e) \/ WorkerCrashes(e)
       \/ LeaseExpires(e) \/ SweepExpired(e) \/ WorkerRetired(e)
       \/ AppendFailed(e) \/ InDoubt(e)
    BY Zenon DEF WorkerNext
  <1>e. e \in Leases /\ e \in Clients
    BY <1>0, Issued, OwnershipAssumption
  <1>1. CASE WorkerBeginsOpen(e)
    <2>1. /\ phase' = [phase EXCEPT ![e] = "granted"] /\ phase[e] = "idle"
          /\ UNCHANGED <<log, transaction, producerEpoch, epoch, sent, head, worker>>
      BY <1>1 DEF WorkerBeginsOpen, BeginOpen, WriterStep, workers
    <2> QED BY <1>0, <1>r, <1>e, <2>1, PhaseRests
  <1>2. CASE WorkerInitializes(e)
    <2>1. InitTransactions(e) /\ UNCHANGED <<worker, head>>
      BY <1>2 DEF WorkerInitializes, WriterStep, workers
    <2> QED BY <1>0, <1>r, <1>e, <2>1, InitRests
  <1>3. CASE WorkerOpens(e)
    BY <1>e, <1>3, OpenedKeeps
  <1>4. CASE \/ WorkerOpenRefused(e) \/ WorkerOpenFails(e) \/ WorkerCloses(e)
             \/ AppendFailed(e) \/ InDoubt(e)
    <2>1. /\ phase' = [phase EXCEPT ![e] = "closed"]
          /\ UNCHANGED <<log, transaction, producerEpoch, epoch, sent, head, worker>>
      BY <1>4, Zenon DEF WorkerOpenRefused, WorkerOpenFails, WorkerCloses, AppendFailed,
           InDoubt, CloseWriter, AppendFails, AppendInDoubt, WriterStep, workers
    <2> QED BY <1>0, <1>r, <1>e, <2>1, PhaseRests
  <1>5. CASE SendCommit(e)
    <2>1. /\ Submit(e, CommitFact(e)) /\ worker[e] \in {"running", "left"}
          /\ UNCHANGED <<head, worker>>
      BY <1>5 DEF SendCommit, WriterStep, workers
    <2>2. CommitFact(e).kind = "commit" /\ CommitFact(e).seq = head[e] + sent[e] + 1
      BY DEF CommitFact
    <2> QED BY <1>0, <1>e, <2>1, <2>2, SubmittedKeeps
  <1>6. CASE \E o \in Outcome : SendFinish(e, o)
    <2> PICK o \in Outcome : SendFinish(e, o)
      BY <1>6
    <2>1. /\ Submit(e, FinishFact(e, o)) /\ worker[e] = "running"
          /\ UNCHANGED head /\ \A d \in Leases \ {e} : worker'[d] = worker[d]
      BY <1>0 DEF SendFinish, TypeOK
    <2>2. FinishFact(e, o).kind = "finish" /\ FinishFact(e, o).seq \in {0, head[e] + sent[e]}
      BY DEF FinishFact
    <2> QED BY <1>0, <1>e, <2>1, <2>2, SubmittedKeeps
  <1>7. CASE \/ WorkerRequestsRecovery(e) \/ WorkerLeaves(e)
             \/ \E quarantine \in BOOLEAN : WorkerRecordsFailure(e, quarantine)
    <2>1. worker' = [worker EXCEPT ![e] = "left"] /\ UNCHANGED <<writers, head>>
      BY <1>7, Zenon DEF WorkerRequestsRecovery, WorkerLeaves, WorkerRecordsFailure
    <2>2. phase[e] = "open" => worker[e] = "running"
      BY <1>7 DEF WorkerRequestsRecovery, MayRecover, WorkerLeaves, WorkerRecordsFailure, StartFailed
    <2>3. \A d \in Leases : phase[d] = "open" /\ worker'[d] \in {"running", "left"}
                               => worker[d] \in {"running", "left"}
      BY <1>0, <2>1, <2>2 DEF TypeOK
    <2> QED BY <1>0, <1>r, <2>1, <2>3, ActorRests
  <1>8. CASE WorkerCrashes(e)
    <2>1. /\ phase' = [phase EXCEPT ![e] = "closed"]
          /\ UNCHANGED <<log, transaction, producerEpoch, epoch, sent, head>>
          /\ \A d \in Leases : d # e => worker'[d] = worker[d]
      BY <1>0, <1>8 DEF WorkerCrashes, TypeOK
    <2> QED BY <1>0, <1>r, <1>e, <2>1, PhaseRests
  <1>9. CASE \/ ExitConfirmed(e) \/ LeaseExpires(e) \/ SweepExpired(e) \/ WorkerRetired(e)
    <2>1. UNCHANGED writers /\ UNCHANGED <<worker, head>>
      BY <1>9, Zenon DEF ExitConfirmed, LeaseExpires, SweepExpired, WorkerRetired, LedgerStep, workers
    <2> QED BY <1>0, <1>r, <2>1, ActorRests
  <1> QED BY <1>1, <1>2, <1>3, <1>4, <1>5, <1>6, <1>7, <1>8, <1>9

\* The attempts of the publication control.
LEMMA ControlKeepsWriting ==
    ASSUME OutcomeInv, HistoryInv, ControlNext
    PROVE  WritingInv'
  <1>0. TypeOK /\ SenderInv /\ EpochInv /\ WritingInv
    BY Parts DEF HistoryInv
  <1>r. ASSUME HeadsRest
        PROVE  WritingInv'
    BY <1>0, <1>r, HeadsRestKeep
  <1>1. ASSUME NEW e \in 1..leaseEpoch, ControlSkips(e)
        PROVE  WritingInv'
    <2>1. UNCHANGED writers /\ UNCHANGED <<worker, head>>
      BY <1>1 DEF ControlSkips, LedgerStep, workers
    <2> QED BY <1>0, <1>r, <2>1, ActorRests
  <1>2. ASSUME NEW k \in Controls, NEW e \in 1..leaseEpoch, ControlBegins(k, e)
        PROVE  WritingInv'
    <2>1. /\ phase' = [phase EXCEPT ![k] = "granted"] /\ k \in Clients
          /\ UNCHANGED <<log, transaction, producerEpoch, epoch, sent, worker, head>>
      BY <1>2 DEF ControlBegins, BeginOpen, Controls
    <2> QED BY <1>0, <1>r, <2>1, PhaseRests
  <1>3. ASSUME NEW k \in Controls,
               \/ ControlInitializes(k) \/ ControlOpens(k) \/ ControlRefused(k)
               \/ ControlAppends(k) \/ ControlReceipt(k) \/ ControlFails(k)
               \/ AppendFailed(k) \/ InDoubt(k)
        PROVE  WritingInv'
    <2>k. k \in Clients
      BY DEF Controls
    <2>0. UNCHANGED <<worker, head>>
      BY <1>3, Zenon DEF ControlInitializes, ControlOpens, ControlRefused, ControlAppends,
           ControlReceipt, ControlFails, AppendFailed, InDoubt, WriterStep, workers
    <2>1. CASE ControlInitializes(k)
      BY <1>0, <1>r, <2>k, <2>0, <2>1, InitRests DEF ControlInitializes
    <2>2. CASE ControlOpens(k)
      <3>1. /\ phase' = [phase EXCEPT ![k] = "open"]
            /\ UNCHANGED <<log, transaction, producerEpoch, epoch, sent>>
        BY <2>2 DEF ControlOpens, FinishOpen
      <3> QED BY <1>0, <1>r, <2>k, <2>0, <3>1, PhaseRests
    <2>3. CASE ControlAppends(k)
      <3>1. Submit(k, SealFact(scope[k])) /\ SealFact(scope[k]).kind = "seal"
        BY <2>3 DEF ControlAppends, SealFact
      <3> QED BY <1>0, <1>r, <2>0, <3>1, SealRests
    <2>4. CASE \/ ControlRefused(k) \/ ControlReceipt(k) \/ ControlFails(k)
               \/ AppendFailed(k) \/ InDoubt(k)
      <3>1. /\ phase' = [phase EXCEPT ![k] = "closed"]
            /\ UNCHANGED <<log, transaction, producerEpoch, epoch, sent>>
        BY <2>4, Zenon DEF ControlRefused, ControlReceipt, ControlFails, AppendFailed, InDoubt,
             CloseWriter, AppendFails, AppendInDoubt
      <3> QED BY <1>0, <1>r, <2>k, <2>0, <3>1, PhaseRests
    <2> QED BY <1>3, <2>1, <2>2, <2>3, <2>4
  <1> QED BY <1>1, <1>2, <1>3, Zenon DEF ControlNext

\* Everybody.
LEMMA WritingKept ==
    ASSUME OutcomeInv, HistoryInv, [Next]_vars
    PROVE  WritingInv'
  <1>0. TypeOK /\ SenderInv /\ ScopeInv /\ WritingInv
    BY Parts DEF HistoryInv
  <1>r. ASSUME HeadsRest
        PROVE  WritingInv'
    BY <1>0, <1>r, HeadsRestKeep
  <1>1. CASE LedgerNext
    <2>1. UNCHANGED writers /\ UNCHANGED head
      BY <1>1, Zenon DEF LedgerNext, LedgerStep, ClaimRun, workers
    <2>2. worker' = worker \/ (leaseEpoch + 1 \in Leases /\
                                 worker' = [worker EXCEPT ![leaseEpoch + 1] = "running"])
      BY <1>1, Zenon DEF LedgerNext, LedgerStep, ClaimRun, Claim, workers
    <2>3. ASSUME NEW e \in Leases, phase[e] = "open"
          PROVE  worker'[e] = worker[e]
      <3>1. e <= leaseEpoch
        BY <1>0, <2>3 DEF ScopeInv
      <3>2. leaseEpoch \in Nat /\ e \in Nat
        BY <1>0 DEF TypeOK, LedgerTypeOK, Leases
      <3>3. e # leaseEpoch + 1
        BY <3>1, <3>2
      <3> QED BY <1>0, <2>2, <3>3 DEF TypeOK
    <2> QED BY <1>0, <1>r, <2>1, <2>3, ActorRests
  <1>2. CASE WorkerNext
    BY <1>2, WorkerKeepsWriting
  <1>3. CASE ControlNext
    BY <1>3, ControlKeepsWriting
  <1>4. CASE BrokerNext
    <2>1. ASSUME NEW t \in transaction, Acknowledged(t) \/ ReplyLost(t)
          PROVE  WritingInv'
      BY <2>1, AcceptedIsNext
    <2>2. CASE Aborted
      <3>1. /\ transaction' = {}
            /\ UNCHANGED <<log, producerEpoch, phase, epoch, sent, worker, head>>
        BY <2>2 DEF Aborted, Abort, WriterStep, workers
      <3>2. \A e \in Leases : Unopened(e)' = Unopened(e) /\ Appends(e)' = Appends(e)
        BY <3>1 DEF Unopened, Appends, Unfenced
      <3>3. HeadsRest
        BY <3>1, <3>2 DEF HeadsRest
      <3> QED BY <1>r, <3>3
    <2> QED BY <1>4, <2>1, <2>2 DEF BrokerNext
  <1>5. CASE ProjectorNext \/ UNCHANGED vars
    <2>1. UNCHANGED writers /\ UNCHANGED <<worker, head>>
      BY <1>5, Zenon DEF ProjectorNext, ProjectCommit, ProjectFinish, ProjectSeal,
           CommitProgress, ProjectorRestarts, ProjectorStep, vars, workers
    <2> QED BY <1>0, <1>r, <2>1, ActorRests
  <1> QED BY <1>1, <1>2, <1>3, <1>4, <1>5 DEF Next

-----------------------------------------------------------------------------
(* The theorems.                                                             *)

\* Nothing was written and nothing was projected at first.
LEMMA HistoryStarts == Init => HistoryInv
  <1> SUFFICES ASSUME Init
               PROVE  HistoryInv
    OBVIOUS
  <1>1. TypeOK
    BY InitKeeps DEF IInv
  <1>2. /\ run = [r \in Runs |-> NoRun] /\ lease = [e \in Leases |-> NoLease] /\ leaseEpoch = 0
        /\ native = <<>> /\ nextOffset = 1
        /\ log = <<>> /\ transaction = {} /\ phase = [c \in Clients |-> "idle"]
        /\ sent = [c \in Clients |-> 0] /\ pos = 1 /\ groupOffset = 1
    BY DEF Init, LedgerInit, WritersInit
  <1>3. DOMAIN log = {} /\ CommitOffsets = {} /\ Len(log) = 0
    BY <1>2 DEF CommitOffsets
  <1>4. Leases \subseteq Clients
    BY OwnershipAssumption
  <1>5. \A n : Number(n) = 0
    <2>1. \A n : Before(n) = {}
      BY <1>3 DEF Before
    <2>2. Cardinality({}) = 0
      BY FS_EmptySet
    <2> QED BY <2>1, <2>2 DEF Number
  <1>6. WritingInv
    <2>1. \A e \in Leases : phase[e] = "idle" /\ sent[e] = 0
      BY <1>2, <1>4
    <2> QED BY <1>2, <1>3, <2>1 DEF WritingInv, NumberedLog, HeadInv, SendingInv, Unopened, Appends
  <1>7. Applied
    <2>1. Len(native) = 0 /\ DOMAIN native = {}
      BY <1>2
    <2> QED BY <1>2, <1>3, <1>5, <2>1 DEF Applied
  <1>8. Reached
    BY <1>2, <1>3 DEF Reached, NoRun, NoLease
  <1>9. ExecutionInv
    BY <1>2 DEF ExecutionInv, Closings, Working, Works, Decided, FirstOf, NoRun
  <1> QED BY <1>6, <1>7, <1>8, <1>9 DEF HistoryInv

\* Every step keeps the invariant.
LEMMA HistoryKept == OutcomeInv /\ HistoryInv /\ [Next]_vars => HistoryInv'
  <1> SUFFICES ASSUME OutcomeInv, HistoryInv, [Next]_vars
               PROVE  HistoryInv'
    OBVIOUS
  <1>1. WritingInv'
    BY WritingKept
  <1>2. Applied' /\ Reached' /\ ExecutionInv'
    BY UnprojectedKeeps, ProjectedKeeps
  <1> QED BY <1>1, <1>2 DEF HistoryInv

\* For every value of the constants, the invariant holds throughout.
THEOREM HistoryInvHolds == Spec => [](OutcomeInv /\ HistoryInv)
  BY OutcomeStarts, OutcomeKept, HistoryStarts, HistoryKept, PTL DEF Spec

\* For any number of Runs, leases, attempts, restarts and faults, what the Projector
\* has put into the durable history are the accepted commits in log order, each of
\* them once (postgres-durable-commit-projector.ts project, applyIn).
THEOREM NativeIsCommitPrefixHolds == Spec => []NativeIsCommitPrefix
  <1>1. OutcomeInv /\ HistoryInv => NativeIsCommitPrefix
    <2> SUFFICES ASSUME OutcomeInv, HistoryInv, NEW n \in DOMAIN native
                 PROVE  /\ native[n] \in CommitOffsets
                        /\ n = Cardinality({i \in CommitOffsets : i <= native[n]})
      BY DEF NativeIsCommitPrefix
    <2> DEFINE at == native[n]
    <2>0. TypeOK /\ Applied
      BY Parts
    <2>1. at \in CommitOffsets /\ n = Number(at) + 1
      BY <2>0 DEF Applied
    <2>2. \A i \in CommitOffsets : i \in DOMAIN log /\ log[i].kind = "commit" /\ i \in Nat
      <3>1. \A i \in DOMAIN log : i \in Nat
        BY <2>0, LogOffsets
      <3> QED BY <3>1 DEF CommitOffsets
    <2>3. {i \in CommitOffsets : i <= at} = Before(at + 1)
      <3>1. at \in Nat
        BY <2>1, <2>2
      <3>2. \A i \in CommitOffsets : i <= at <=> i < at + 1
        BY <2>2, <3>1
      <3> HIDE DEF at
      <3> QED BY <3>2 DEF Before
    <2>4. Number(at + 1) = Number(at) + 1
      BY <2>0, <2>1, <2>2, CountNext
    <2> QED BY <2>1, <2>3, <2>4 DEF Number
  <1> QED BY <1>1, HistoryInvHolds, PTL

\* For any number of Runs, leases, attempts, restarts and faults, everything an
\* execution was acknowledged for is in the durable history by the time its writer
\* counts as closed (#finishWork, #seal, session_leases.writer_sealed_at).
THEOREM CommitsMaterializedHolds == Spec => []CommitsMaterialized
  <1>1. OutcomeInv /\ HistoryInv => CommitsMaterialized
    <2> SUFFICES ASSUME OutcomeInv, HistoryInv, NEW i \in CommitOffsets,
                        lease[log[i].writer].seal # 0
                 PROVE  \E n \in DOMAIN native : native[n] = i
      BY DEF CommitsMaterialized
    <2> DEFINE s == lease[log[i].writer].seal
    <2>0. TypeOK /\ LedgerTypeOK /\ Applied /\ Reached /\ NothingAfterClosure
      BY Parts
    <2>1. i \in DOMAIN log /\ log[i].kind = "commit" /\ i \in Nat /\ log[i].writer \in Leases
      BY <2>0, LogOffsets DEF CommitOffsets
    <2>2. i <= s
      BY <2>0, <2>1 DEF NothingAfterClosure
    <2>3. s < nextOffset /\ s \in Nat /\ nextOffset \in Nat
      BY <2>0, <2>1 DEF Reached, LedgerTypeOK, LeaseRow
    <2>4. i < nextOffset
      BY <2>1, <2>2, <2>3
    <2> QED BY <2>0, <2>4 DEF Applied
  <1> QED BY <1>1, HistoryInvHolds, PTL

\* For any number of Runs, leases, attempts, restarts and faults, an Agent that may
\* still append has loaded every commit there is, so the sequence it uses next is
\* the next one of the history (direct-session-kafka.ts #open, worker-execution-log.ts
\* commitNative).
THEOREM LoadedHeadIsCompleteHolds == Spec => []LoadedHeadIsComplete
  <1>1. OutcomeInv /\ HistoryInv => LoadedHeadIsComplete
    <2> SUFFICES ASSUME OutcomeInv, HistoryInv, NEW e \in 1..leaseEpoch,
                        phase[e] = "open", Unfenced(e), worker[e] = "running"
                 PROVE  head[e] + sent[e] = Cardinality(CommitOffsets)
      BY DEF LoadedHeadIsComplete
    <2>0. TypeOK /\ HeadInv
      BY Parts
    <2>1. e \in Leases /\ Appends(e)
      BY <2>0, Issued DEF Appends
    <2> QED BY <2>0, <2>1, CountAll DEF HeadInv
  <1> QED BY <1>1, HistoryInvHolds, PTL

\* For any number of Runs, leases, attempts, restarts and faults, no check of the
\* Projector fails on the record it reads next, so no record of the partition is
\* retried for ever (execution-stream-projection.ts, work-finished-projection.ts).
THEOREM ProjectorNeverStallsHolds == Spec => []ProjectorNeverStalls
  <1>1. OutcomeInv /\ HistoryInv => ProjectorNeverStalls
    BY NothingThrows DEF ProjectorNeverStalls
  <1> QED BY <1>1, HistoryInvHolds, PTL

=============================================================================
