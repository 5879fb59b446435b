----------------------------- MODULE HumanInputs -----------------------------
(***************************************************************************)
(* A message a person sends to a conversation: it starts a Run of its own, *)
(* or the Pi Worker of the Run at work queues it in Pi's inbox.  A message *)
(* is known by its idempotency key; the browser repeats a request whose    *)
(* answer it lost, and several requests of one key may be under way.       *)
(*                                                                         *)
(* The API decides inside the admission transaction, which holds the       *)
(* Session row, from the rows and from what the Projector has projected of *)
(* the native log; the Worker decides from the log itself.  The lifecycle  *)
(* of Runs and leases is RunLedger's, here with what the inputs see of it. *)
(***************************************************************************)
EXTENDS Naturals, Sequences, FiniteSets, FiniteSetsExt

CONSTANTS
  Keys,       \* idempotency keys of messages
  Uploads,    \* the keys whose message has an attachment
  Attempts,   \* bound: requests that submit a message
  Ops,        \* bound: edits and withdrawals of queued messages
  NumRuns,    \* bound: Runs of the conversation; Run 1 is at work from the start
  MaxLease,   \* bound: executions
  NoKey,      \* the initial message of Run 1
  None,       \* no attempt
  Faults      \* what may happen besides the normal course: see FaultKinds

FaultKinds == {"crash", "fail", "stop", "refuse", "repeat", "timeout", "prepare",
               "expire", "cancel"}

Runs == 1..NumRuns
Leases == 1..MaxLease

ASSUME InputsAssumption ==
  /\ NumRuns \in Nat \ {0} /\ MaxLease \in Nat \ {0}
  /\ Uploads \subseteq Keys /\ NoKey \notin Keys /\ None \notin Attempts
  /\ Attempts \cap Ops = {}
  /\ Faults \subseteq FaultKinds

VARIABLES
  run,       \* the runs rows, with the Stop of each
  leases,    \* the session_leases rows: Run, and writer_sealed_at
  exec,      \* per lease, the Runner in a Worker process
  native,    \* Pi's state at the end of the log
  view,      \* Pi's state as projected into PostgreSQL
  tail,      \* records of the log that are not projected yet
  lock,      \* the attempt whose admission transaction holds the Session row
  attempt,   \* requests that submit a message
  op,        \* edits and withdrawals
  calls,     \* commands on their way to the Runner of a lease, and their copies
  upload,    \* session_uploads, one per key with an attachment
  returned   \* history: what a page of a Stop's batch gave back to the composer

rows == <<run, leases>>
journal == <<native, view, tail>>
vars == <<run, leases, exec, native, view, tail, lock, attempt, op, calls, upload, returned>>

Terminal == {"completed", "failed", "cancelled"}
Phases == {"none", "opening", "gated", "open", "ended", "gone"}
Statuses == {"none", "queued", "consumed", "aborted", "withdrawn"}
Steps == {"new", "reading", "admitted", "sent", "done"}
Answers == {"none", "accepted", "closed", "unavailable"}

NoRun == [key |-> NoKey, state |-> "absent", lease |-> 0, released |-> FALSE,
          sealing |-> FALSE, sealed |-> FALSE, recovering |-> FALSE,
          stop |-> "none", returning |-> FALSE]
NoExec == [phase |-> "none", busy |-> FALSE, aborted |-> FALSE, idle |-> FALSE,
           line |-> None]

TypeOK ==
  /\ run \in [Runs -> [key : Keys \cup {NoKey},
                       state : {"absent", "queued", "running"} \cup Terminal,
                       lease : 0..MaxLease, released : BOOLEAN, sealing : BOOLEAN,
                       sealed : BOOLEAN, recovering : BOOLEAN,
                       stop : {"none", "active", "refused", "done"},
                       returning : BOOLEAN]]
  /\ leases \in [Leases -> [run : 0..NumRuns, sealed : BOOLEAN]]
  /\ exec \in [Leases -> [phase : Phases, busy : BOOLEAN, aborted : BOOLEAN,
                          idle : BOOLEAN, line : Attempts \cup {None}]]
  /\ \A state \in {native, view} :
       /\ state.meta \subseteq Runs \X Keys
       /\ state.sub \in [Keys -> [run : 0..NumRuns, status : Statuses]]
       /\ state.edits \in [Keys -> SUBSET Ops]
       /\ state.receipts \subseteq Ops
  /\ lock \in Attempts \cup {None}
  /\ attempt \in [Attempts -> [key : Keys \cup {NoKey}, step : Steps, run : 0..NumRuns,
                               lease : 0..MaxLease, again : BOOLEAN,
                               pin : {"none", "held", "settled"}, answer : Answers]]
  /\ op \in [Ops -> [key : Keys \cup {NoKey}, kind : {"none", "edit", "withdraw"},
                     seen : SUBSET (Keys \X SUBSET Ops), run : 0..NumRuns,
                     answer : {"none", "applied", "refused"}]]
  /\ calls \in [Attempts \cup Ops -> [Leases -> 0..2]]
  /\ upload \in [Uploads -> {"draft", "accepted", "deleted"}]
  /\ returned \subseteq Runs \X Keys

\* Run 1 is at work: its Worker holds lease 1 and has submitted its initial message.
Init ==
  /\ run = [r \in Runs |->
              IF r = 1 THEN [NoRun EXCEPT !.state = "running", !.lease = 1] ELSE NoRun]
  /\ leases = [e \in Leases |-> [run |-> IF e = 1 THEN 1 ELSE 0, sealed |-> FALSE]]
  /\ exec = [e \in Leases |->
              IF e = 1 THEN [NoExec EXCEPT !.phase = "open", !.busy = TRUE] ELSE NoExec]
  /\ native = [meta |-> {}, sub |-> [k \in Keys |-> [run |-> 0, status |-> "none"]],
               edits |-> [k \in Keys |-> {}], receipts |-> {}]
  /\ view = native
  /\ tail = <<>>
  /\ lock = None
  /\ attempt = [i \in Attempts |->
                  [key |-> NoKey, step |-> "new", run |-> 0, lease |-> 0, again |-> FALSE,
                   pin |-> "none", answer |-> "none"]]
  /\ op = [o \in Ops |-> [key |-> NoKey, kind |-> "none", seen |-> {}, run |-> 0,
                          answer |-> "none"]]
  /\ calls = [c \in Attempts \cup Ops |-> [e \in Leases |-> 0]]
  /\ upload = [k \in Uploads |-> "draft"]
  /\ returned = {}

-----------------------------------------------------------------------------
(* The native log.  A record changes Pi's state; the Projector applies the   *)
(* records in order, the Worker has applied every one it appended.           *)

Queued(state) == {k \in Keys : state.sub[k].status = "queued"}

Applied(state, c) ==
  CASE c.kind = "meta" -> [state EXCEPT !.meta = @ \cup {<<c.run, c.key>>}]
    [] c.kind = "submit" -> [state EXCEPT !.sub[c.key] = [run |-> c.run, status |-> "queued"]]
    [] c.kind = "consume" -> [state EXCEPT !.sub[c.key].status = "consumed"]
    [] c.kind = "edit" -> [state EXCEPT !.edits[c.key] = @ \cup {c.op},
                                        !.receipts = @ \cup {c.op}]
    [] c.kind = "withdraw" -> [state EXCEPT !.sub[c.key].status = "withdrawn",
                                            !.receipts = @ \cup {c.op}]
    [] c.kind = "abort" ->
         [state EXCEPT !.sub = [k \in Keys |->
            IF k \in Queued(state) THEN [@[k] EXCEPT !.status = "aborted"] ELSE @[k]]]
    [] OTHER -> state

Committed(c) ==
  /\ native' = Applied(native, c)
  /\ tail' = Append(tail, c)
  /\ UNCHANGED view

\* humanInputQueueRevisionMaterial: the queued messages with their edits.
Revision(state) == {<<k, state.edits[k]>> : k \in Queued(state)}

-----------------------------------------------------------------------------
(* Admission by the API (queued-input-service.ts).                           *)

Settled(r) == run[r].state \in Terminal
Sealing(r) == run[r].sealing /\ ~run[r].sealed

\* receivingConversationRunId: work under way, else the next, else the last Run.
Receiving ==
  LET atWork == {r \in Runs : run[r].state = "running" \/ run[r].recovering \/ Sealing(r)}
      waiting == {r \in Runs : run[r].state = "queued"}
  IN  IF atWork # {} THEN Min(atWork)
      ELSE IF waiting # {} THEN Min(waiting)
      ELSE Max({r \in Runs : run[r].state # "absent"})

RunOf(k) == {r \in Runs : run[r].key = k}

\* settleUploadPins: an accepted message keeps its files.
PinsSettled(i, accepted) ==
  upload' = [k \in Uploads |->
               IF accepted /\ attempt[i].pin = "held" /\ attempt[i].key = k
                  /\ upload[k] = "draft"
               THEN "accepted" ELSE upload[k]]

SettledPin(pin) == IF pin = "held" THEN "settled" ELSE pin

\* The transaction takes the Session row and looks for the Run and for the
\* submission of this key.
Begin(i, k) ==
  /\ lock = None
  /\ attempt[i].step = "new" /\ (attempt[i].again => attempt[i].key = k)
  /\ IF RunOf(k) # {} \/ view.sub[k].run # 0
     THEN /\ attempt' = [attempt EXCEPT ![i] =
                [@ EXCEPT !.key = k, !.step = "done", !.answer = "accepted"]]
          /\ UNCHANGED lock
     ELSE /\ attempt' = [attempt EXCEPT ![i] = [@ EXCEPT !.key = k, !.step = "reading"]]
          /\ lock' = i
  /\ UNCHANGED <<rows, exec, journal, op, calls, upload, returned>>

\* A Run that takes no more input: settled, with everything it wrote projected.
Closed(r) == Settled(r) /\ (run[r].lease = 0 \/ run[r].sealed)

\* bindInputUploads: the attachment is still there.
Bindable(k) == k \in Uploads => upload[k] # "deleted"

\* acceptInitial: the message is the initial input of a new Run.
AcceptInitial(i) ==
  LET k == attempt[i].key
      absent == {r \in Runs : run[r].state = "absent"}
  IN  /\ attempt[i].step = "reading"
      /\ Closed(Receiving) /\ Bindable(k)
      /\ absent # {}
      /\ run' = [run EXCEPT ![Min(absent)] = [NoRun EXCEPT !.key = k, !.state = "queued"]]
      /\ upload' = [u \in Uploads |-> IF u = k THEN "accepted" ELSE upload[u]]
      /\ attempt' = [attempt EXCEPT ![i] = [@ EXCEPT !.step = "done", !.answer = "accepted"]]
      /\ lock' = None
      /\ UNCHANGED <<leases, exec, journal, op, calls, returned>>

\* #assertReceiving, and the lease the Worker of the Run holds.
Accepts(r) == run[r].state = "running" /\ run[r].stop # "active" /\ run[r].lease # 0

\* The Run at work takes the message; its attachments are pinned until the
\* Worker's answer is known.
Admit(i) ==
  LET k == attempt[i].key IN
  /\ attempt[i].step = "reading"
  /\ ~Closed(Receiving) /\ Accepts(Receiving) /\ Bindable(k)
  /\ attempt' = [attempt EXCEPT ![i] =
       [@ EXCEPT !.step = "admitted", !.run = Receiving, !.lease = run[Receiving].lease,
                 !.pin = IF k \in Uploads THEN "held" ELSE "none"]]
  /\ lock' = None
  /\ UNCHANGED <<rows, exec, journal, op, calls, upload, returned>>

Refuse(i) ==
  /\ attempt[i].step = "reading"
  /\ ~Bindable(attempt[i].key) \/ ~(Closed(Receiving) \/ Accepts(Receiving))
  /\ attempt' = [attempt EXCEPT ![i] = [@ EXCEPT !.step = "done", !.answer = "unavailable"]]
  /\ lock' = None
  /\ UNCHANGED <<rows, exec, journal, op, calls, upload, returned>>

\* currentAssignment: the Run still has the execution it was admitted for.
Assigned(r, e) == run[r].state = "running" /\ run[r].lease = e /\ ~run[r].released

\* #deliver.  The client of the Worker sends a command a second time when the
\* first request failed in a way it may repeat.
Send(i) ==
  LET a == attempt[i] IN
  /\ a.step = "admitted"
  /\ IF Assigned(a.run, a.lease)
     THEN /\ attempt' = [attempt EXCEPT ![i].step = "sent"]
          /\ \E n \in 1..(IF "repeat" \in Faults THEN 2 ELSE 1) :
               calls' = [calls EXCEPT ![i][a.lease] = n]
     ELSE /\ attempt' = [attempt EXCEPT ![i] =
               [@ EXCEPT !.step = "done", !.answer = "unavailable", !.pin = SettledPin(a.pin)]]
          /\ UNCHANGED calls
  /\ UNCHANGED <<rows, exec, journal, lock, op, upload, returned>>

\* The Worker's answer.  A closed target only permits one more look at the rows.
Receive(i) ==
  LET a == attempt[i]
      definite == a.answer \in {"accepted", "closed"}
  IN  /\ a.step = "sent" /\ a.answer # "none"
      /\ PinsSettled(i, a.answer = "accepted")
      /\ attempt' = [attempt EXCEPT ![i] =
           IF a.answer = "closed" /\ ~a.again
           THEN [@ EXCEPT !.step = "new", !.again = TRUE, !.answer = "none",
                          !.pin = SettledPin(a.pin)]
           ELSE [@ EXCEPT !.step = "done",
                          !.pin = IF definite THEN SettledPin(a.pin) ELSE a.pin]]
      /\ UNCHANGED <<rows, exec, journal, lock, op, calls, returned>>

\* Mutant: a request without an answer is taken for a refusal.
TimeoutRefuses(i) ==
  /\ "timeout" \in Faults
  /\ attempt[i].step \in {"admitted", "sent"} /\ attempt[i].answer = "none"
  /\ attempt' = [attempt EXCEPT ![i] = [@ EXCEPT !.step = "done", !.answer = "unavailable",
                                                !.pin = SettledPin(attempt[i].pin)]]
  /\ UNCHANGED <<rows, exec, journal, lock, op, calls, upload, returned>>

\* The request fails or times out, or the API process dies: nothing is known.
Timeout(i) ==
  /\ "timeout" \in Faults
  /\ attempt[i].step \in {"admitted", "sent"} /\ attempt[i].answer = "none"
  /\ attempt' = [attempt EXCEPT ![i] = [@ EXCEPT !.step = "done", !.answer = "unavailable"]]
  /\ UNCHANGED <<rows, exec, journal, lock, op, calls, upload, returned>>

-----------------------------------------------------------------------------
(* Edits and withdrawals (mutate, #mutateInitial).                           *)

\* The person changes a queued message as a page of the projected queue shows it.
Change(o, k, kind) ==
  /\ op[o].kind = "none" /\ k \in Queued(view)
  /\ op' = [op EXCEPT ![o] = [@ EXCEPT !.key = k, !.kind = kind, !.seen = Revision(view),
                                      !.run = view.sub[k].run]]
  /\ UNCHANGED <<rows, exec, journal, lock, attempt, calls, upload, returned>>

\* The request, repeated as often as its answer is lost.
SendChange(o) ==
  LET r == op[o].run
      e == run[r].lease
  IN  /\ op[o].kind # "none" /\ op[o].answer = "none"
      /\ IF o \in view.receipts
         THEN op' = [op EXCEPT ![o].answer = "applied"] /\ UNCHANGED calls
         ELSE /\ Accepts(r) /\ Assigned(r, e) /\ calls[o][e] = 0
              /\ calls' = [calls EXCEPT ![o][e] = 1]
              /\ UNCHANGED op
      /\ UNCHANGED <<rows, exec, journal, lock, attempt, upload, returned>>

\* Withdrawing the initial message of a Run no Worker has claimed.
CancelInitial(r) ==
  /\ "cancel" \in Faults /\ lock = None
  /\ run[r].state = "queued" /\ run[r].key # NoKey
  /\ \A e \in Leases : leases[e].run # r
  /\ run' = [run EXCEPT ![r].state = "cancelled"]
  /\ UNCHANGED <<leases, exec, journal, lock, attempt, op, calls, upload, returned>>

-----------------------------------------------------------------------------
(* The Runner of a Worker (pi-cloud-turn-runner.ts, durable/human-inputs.ts). *)
(* Submissions, edits and the decision to end run one at a time on its line. *)

RunAt(e) == leases[e].run
Accepting(e) == exec[e].phase = "open"
Serving(e) == exec[e].phase \in {"open", "ended"}
LineFree(e) == exec[e].line = None

Taken(c, e) == calls' = [calls EXCEPT ![c][e] = @ - 1]
AnswerOf(i, e, what) ==
  attempt' = [attempt EXCEPT ![i].answer =
                IF attempt[i].step = "sent" /\ attempt[i].lease = e /\ @ = "none"
                THEN what ELSE @]
RunnerUnchanged == UNCHANGED <<rows, view, lock, op, upload, returned>>

\* submit: its record precedes the preparation of attachments and Pi's receipt.
StartInput(e, i) ==
  LET c == [kind |-> "meta", run |-> RunAt(e), key |-> attempt[i].key] IN
  /\ Serving(e) /\ LineFree(e) /\ calls[i][e] > 0
  /\ Taken(i, e)
  /\ IF <<c.run, c.key>> \notin native.meta /\ ~Accepting(e)
     THEN AnswerOf(i, e, "closed") /\ UNCHANGED <<exec, native, tail>>
     ELSE /\ exec' = [exec EXCEPT ![e].line = i]
          /\ UNCHANGED attempt
          /\ IF <<c.run, c.key>> \in native.meta THEN UNCHANGED <<native, tail>>
             ELSE Committed(c)
  /\ RunnerUnchanged

\* Mutant: a request repeated is answered from its record alone.
SubmitFromRecord(e) ==
  LET i == exec[e].line IN
  /\ Serving(e) /\ ~LineFree(e)
  /\ exec' = [exec EXCEPT ![e] = [@ EXCEPT !.line = None, !.idle = exec[e].idle /\ ~Accepting(e)]]
  /\ AnswerOf(i, e, "accepted")
  /\ UNCHANGED <<native, tail, calls>>
  /\ RunnerUnchanged

\* Mutant: a message Pi queued does not count as input since the Run was idle.
SubmitUnnoticed(e) ==
  LET i == exec[e].line
      k == attempt[i].key
  IN  /\ Accepting(e) /\ ~LineFree(e)
      /\ exec' = [exec EXCEPT ![e].line = None]
      /\ AnswerOf(i, e, "accepted")
      /\ IF native.sub[k].run # 0 THEN UNCHANGED <<native, tail>>
         ELSE Committed([kind |-> "submit", run |-> RunAt(e), key |-> k])
      /\ UNCHANGED calls
      /\ RunnerUnchanged

\* Pi's own receipt decides: it exists, or it is made while the Run accepts.
Submit(e) ==
  LET i == exec[e].line
      k == attempt[i].key
      placed == native.sub[k].run # 0
  IN  /\ Serving(e) /\ ~LineFree(e)
      /\ IF placed \/ Accepting(e)
         THEN /\ exec' = [exec EXCEPT ![e] = [@ EXCEPT !.line = None,
                                                   !.idle = exec[e].idle /\ ~Accepting(e)]]
              /\ AnswerOf(i, e, "accepted")
              /\ IF placed THEN UNCHANGED <<native, tail>>
                 ELSE Committed([kind |-> "submit", run |-> RunAt(e), key |-> k])
         ELSE /\ exec' = [exec EXCEPT ![e].line = None]
              /\ AnswerOf(i, e, "closed")
              /\ UNCHANGED <<native, tail>>
      /\ UNCHANGED calls
      /\ RunnerUnchanged

\* The preparation of an attachment fails.
PrepareFails(e) ==
  LET i == exec[e].line IN
  /\ "prepare" \in Faults
  /\ Serving(e) /\ ~LineFree(e) /\ native.sub[attempt[i].key].run = 0
  /\ exec' = [exec EXCEPT ![e].line = None]
  /\ AnswerOf(i, e, "unavailable")
  /\ UNCHANGED <<native, tail, calls>>
  /\ RunnerUnchanged

\* Mutant: the queue is as the person saw it, or the message is gone from it.
ApplicableUnread(e, o) ==
  Accepting(e) /\ (op[o].key \in Queued(native) => op[o].seen = Revision(native))

\* mutate: one native transaction checks the receipt, the status of the
\* submission and the revision of the queue.
Applicable(e, o) ==
  /\ Accepting(e)
  /\ op[o].key \in Queued(native)
  /\ op[o].seen = Revision(native)

Mutate(e, o) ==
  LET c == [kind |-> op[o].kind, run |-> RunAt(e), key |-> op[o].key, op |-> o]
      answer == IF o \in native.receipts \/ Applicable(e, o) THEN "applied" ELSE "refused"
  IN  /\ Serving(e) /\ LineFree(e) /\ calls[o][e] > 0
      /\ Taken(o, e)
      /\ IF o \notin native.receipts /\ Applicable(e, o)
         THEN Committed(c) ELSE UNCHANGED <<native, tail, view>>
      /\ exec' = IF answer = "applied" THEN [exec EXCEPT ![e].idle = @ /\ ~Accepting(e)] ELSE exec
      /\ \/ op' = [op EXCEPT ![o].answer = IF @ = "none" THEN answer ELSE @]
         \/ "timeout" \in Faults /\ UNCHANGED op
      /\ UNCHANGED <<rows, lock, attempt, upload, returned>>

\* A command for a Runner that is not there any more.
NoTarget(c, e) ==
  /\ exec[e].phase = "gone" /\ calls[c][e] > 0
  /\ Taken(c, e)
  /\ IF c \in Attempts THEN AnswerOf(c, e, "unavailable") ELSE UNCHANGED attempt
  /\ UNCHANGED <<exec, native, tail>>
  /\ RunnerUnchanged

\* Pi takes a queued message into the conversation, works and answers.
Consume(e, k) ==
  /\ Serving(e) /\ k \in Queued(native)
  /\ Committed([kind |-> "consume", key |-> k])
  /\ exec' = [exec EXCEPT ![e].busy = TRUE]
  /\ UNCHANGED <<rows, lock, attempt, op, calls, upload, returned>>

WorkDone(e) ==
  /\ Serving(e) /\ exec[e].busy
  /\ exec' = [exec EXCEPT ![e].busy = FALSE]
  /\ UNCHANGED <<rows, journal, lock, attempt, op, calls, upload, returned>>

\* waitForIdle, and the end of the Run if no input came since.
SeeIdle(e) ==
  /\ Accepting(e) /\ ~exec[e].busy /\ ~exec[e].idle /\ Queued(native) = {}
  /\ exec' = [exec EXCEPT ![e].idle = TRUE]
  /\ UNCHANGED <<rows, journal, lock, attempt, op, calls, upload, returned>>

End(e) ==
  /\ Accepting(e) /\ exec[e].idle /\ LineFree(e)
  /\ exec' = [exec EXCEPT ![e].phase = "ended"]
  /\ UNCHANGED <<rows, journal, lock, attempt, op, calls, upload, returned>>

\* The Stop reaches the Runner: it closes its input and then aborts the conversation.
StopArrives(e) ==
  /\ Serving(e) \/ exec[e].phase = "gated"
  /\ run[RunAt(e)].stop = "active" /\ ~exec[e].aborted
  /\ exec' = [exec EXCEPT ![e] = [@ EXCEPT !.phase = "ended", !.aborted = TRUE,
                                          !.idle = FALSE]]
  /\ UNCHANGED <<rows, journal, lock, attempt, op, calls, upload, returned>>

Abort(e) ==
  /\ exec[e].phase = "ended" /\ exec[e].aborted /\ ~exec[e].idle
  /\ Committed([kind |-> "abort"])
  /\ exec' = [exec EXCEPT ![e] = [@ EXCEPT !.busy = FALSE, !.idle = TRUE]]
  /\ UNCHANGED <<rows, lock, attempt, op, calls, upload, returned>>

Finish(e) ==
  /\ exec[e].phase = "ended" /\ exec[e].idle /\ ~exec[e].busy
  /\ Committed([kind |-> "finish", lease |-> e,
                outcome |-> IF exec[e].aborted THEN "cancelled" ELSE "completed"])
  /\ exec' = [exec EXCEPT ![e] = [NoExec EXCEPT !.phase = "gone"]]
  /\ UNCHANGED <<rows, lock, attempt, op, calls, upload, returned>>

\* Bound: only where another execution can follow.
Crash(e) ==
  /\ "crash" \in Faults /\ e < MaxLease
  /\ exec[e].phase \notin {"none", "gone"}
  /\ exec' = [exec EXCEPT ![e] = [NoExec EXCEPT !.phase = "gone"]]
  /\ UNCHANGED <<rows, journal, lock, attempt, op, calls, upload, returned>>

\* bind: a new Run aborts what another Run left unfinished in the conversation.
Abandons(e) == \E k \in Queued(native) : native.sub[k].run # RunAt(e)

\* An execution opened for a Stop waits for it before it does anything.
Open(e) ==
  /\ exec[e].phase = "opening"
  /\ exec' = [exec EXCEPT ![e] =
       [@ EXCEPT !.phase = IF run[RunAt(e)].stop = "active" THEN "gated" ELSE "open",
                 !.busy = TRUE]]
  /\ IF Abandons(e) THEN Committed([kind |-> "abort"]) ELSE UNCHANGED journal
  /\ UNCHANGED <<rows, lock, attempt, op, calls, upload, returned>>

-----------------------------------------------------------------------------
(* Runs, leases and the Projector: see RunLedger.                            *)

\* What is not the rows.
RowsOnly == UNCHANGED <<exec, journal, lock, attempt, op, calls, upload, returned>>

AcceptStop(r) ==
  /\ "stop" \in Faults /\ lock = None
  /\ run[r].stop = "none"
  /\ run[r].state = "running" \/ (run[r].state = "queued" /\ run[r].recovering)
  /\ run' = [run EXCEPT ![r] = [@ EXCEPT !.stop = "active", !.returning = TRUE]]
  /\ UNCHANGED leases
  /\ RowsOnly

\* The cancellation executor gives the request up before the Worker knew of it.
RefuseStop(r) ==
  /\ "refuse" \in Faults
  /\ run[r].stop = "active" /\ run[r].state = "running" /\ ~exec[run[r].lease].aborted
  /\ run' = [run EXCEPT ![r].stop = "refused"]
  /\ UNCHANGED leases
  /\ RowsOnly

Held(e) == RunAt(e) # 0 /\ run[RunAt(e)].lease = e /\ ~run[RunAt(e)].released
           /\ run[RunAt(e)].state = "running"

\* The execution is given up: its Run will be recovered by another one.
GiveUp(e) ==
  /\ Held(e) /\ (exec[e].phase = "gone" \/ ("expire" \in Faults /\ e < MaxLease))
  /\ run' = [run EXCEPT ![RunAt(e)] =
       [@ EXCEPT !.released = TRUE, !.sealing = TRUE, !.recovering = TRUE]]
  /\ UNCHANGED leases
  /\ RowsOnly

\* The Run's failure is decided; what its Worker wrote is still being projected.
Fail(e) ==
  /\ "fail" \in Faults /\ lock = None
  /\ Held(e)
  /\ run' = [run EXCEPT ![RunAt(e)] =
       [@ EXCEPT !.released = TRUE, !.sealing = TRUE, !.state = "failed"]]
  /\ UNCHANGED leases
  /\ RowsOnly

\* The writer is fenced before its seal enters the log.
Seal(e) ==
  /\ RunAt(e) # 0 /\ run[RunAt(e)].lease = e /\ run[RunAt(e)].sealing
  /\ ~leases[e].sealed
  /\ \A n \in DOMAIN tail : ~(tail[n].kind = "seal" /\ tail[n].lease = e)
  /\ exec' = [exec EXCEPT ![e] = [NoExec EXCEPT !.phase = "gone"]]
  /\ Committed([kind |-> "seal", lease |-> e])
  /\ UNCHANGED <<rows, lock, attempt, op, calls, upload, returned>>

Claim(r, e) ==
  /\ lock = None
  /\ run[r].state = "queued"
  /\ \A p \in Runs : p < r => Settled(p)
  /\ \A p \in Runs : ~Sealing(p) /\ run[p].state # "running"
  /\ leases[e].run = 0
  /\ \A d \in 1..(e - 1) : leases[d].run # 0 /\ leases[d].sealed
  /\ run' = [run EXCEPT ![r] = [@ EXCEPT !.state = "running", !.lease = e,
                                        !.released = FALSE, !.recovering = FALSE]]
  /\ leases' = [leases EXCEPT ![e].run = r]
  /\ exec' = [exec EXCEPT ![e].phase = "opening"]
  /\ UNCHANGED <<journal, lock, attempt, op, calls, upload, returned>>

\* Records that settle a Run or its writer change the Session row as well.
FinishProjected(c) ==
  LET r == RunAt(c.lease) IN
  /\ lock = None
  /\ IF Settled(r)
     THEN run' = [run EXCEPT ![r].released = TRUE] /\ UNCHANGED leases
     ELSE /\ run' = [run EXCEPT ![r] =
               [@ EXCEPT !.state = c.outcome, !.sealed = TRUE, !.released = TRUE,
                         !.recovering = FALSE,
                         !.stop = IF run[r].stop = "active" THEN "done" ELSE run[r].stop]]
          /\ leases' = [leases EXCEPT ![c.lease].sealed = ~run[r].sealing]

\* Mutant: the seal is projected without the Session row.
SealProjectedUnlocked(c) ==
  LET r == RunAt(c.lease) IN
  /\ leases' = [leases EXCEPT ![c.lease].sealed = TRUE]
  /\ run' = [run EXCEPT ![r] =
       IF Settled(r) THEN [@ EXCEPT !.sealed = TRUE]
       ELSE [@ EXCEPT !.state = "queued", !.lease = 0, !.released = FALSE,
                      !.sealing = FALSE]]

SealProjected(c) ==
  LET r == RunAt(c.lease) IN
  /\ lock = None
  /\ leases' = [leases EXCEPT ![c.lease].sealed = TRUE]
  /\ run' = [run EXCEPT ![r] =
       IF Settled(r) THEN [@ EXCEPT !.sealed = TRUE]
       ELSE [@ EXCEPT !.state = "queued", !.lease = 0, !.released = FALSE,
                      !.sealing = FALSE]]

Project ==
  /\ tail # <<>>
  /\ view' = Applied(view, Head(tail))
  /\ tail' = Tail(tail)
  /\ CASE Head(tail).kind = "finish" -> FinishProjected(Head(tail))
       [] Head(tail).kind = "seal" -> SealProjected(Head(tail))
       [] OTHER -> UNCHANGED rows
  /\ UNCHANGED <<exec, native, lock, attempt, op, calls, upload, returned>>

-----------------------------------------------------------------------------
(* The messages a Stop gives back (stopped-inputs.ts), and attachments.      *)

\* Mutant: the batch is read as soon as the Run's outcome is decided.
ReadableUnsealed(r) == run[r].returning /\ Settled(r)

Readable(r) == run[r].returning /\ Closed(r)

\* readReturnedInputs: the messages recorded for the Run that Pi never took.
Batch(r) ==
  {k \in Keys : <<r, k>> \in view.meta /\ view.sub[k].status \in {"queued", "aborted"}}

ReadBatch(r) ==
  /\ Readable(r)
  /\ returned' = returned \cup {<<r, k>> : k \in Batch(r)}
  /\ UNCHANGED <<rows, exec, journal, lock, attempt, op, calls, upload>>

Acknowledge(r) ==
  /\ Readable(r) /\ \A k \in Batch(r) : <<r, k>> \in returned
  /\ run' = [run EXCEPT ![r].returning = FALSE]
  /\ UNCHANGED leases
  /\ RowsOnly

\* Nothing the writer of that lease did is still unprojected.
Ruled(i) == leases[attempt[i].lease].sealed

\* reconcileUploadPins, on one snapshot of the projection.
ReconcilePin(i) ==
  LET a == attempt[i]
      placed == <<a.run, a.key>> \in view.meta /\ view.sub[a.key].run = a.run
  IN  /\ a.pin = "held" /\ (placed \/ Ruled(i))
      /\ PinsSettled(i, placed)
      /\ attempt' = [attempt EXCEPT ![i].pin = "settled"]
      /\ UNCHANGED <<rows, exec, journal, lock, op, calls, returned>>

\* A draft that expired or was removed, and that nobody has pinned.
Reap(k) ==
  /\ upload[k] = "draft"
  /\ \A i \in Attempts : ~(attempt[i].key = k /\ attempt[i].pin = "held")
  /\ upload' = [upload EXCEPT ![k] = "deleted"]
  /\ UNCHANGED <<rows, exec, journal, lock, attempt, op, calls, returned>>

-----------------------------------------------------------------------------
Admission(i) ==
  \/ \E k \in Keys : Begin(i, k)
  \/ AcceptInitial(i) \/ Admit(i) \/ Refuse(i)
  \/ Send(i) \/ Receive(i) \/ Timeout(i)

Changes ==
  \/ \E o \in Ops, k \in Keys : Change(o, k, "edit") \/ Change(o, k, "withdraw")
  \/ \E o \in Ops : SendChange(o)
  \/ \E r \in Runs : CancelInitial(r)

Line(e) ==
  \/ \E i \in Attempts : StartInput(e, i)
  \/ Submit(e) \/ PrepareFails(e)
  \/ \E o \in Ops : Mutate(e, o)
  \/ \E c \in Attempts \cup Ops : NoTarget(c, e)

Runner(e) ==
  \/ Open(e) \/ (\E k \in Keys : Consume(e, k)) \/ WorkDone(e)
  \/ SeeIdle(e) \/ End(e) \/ Abort(e) \/ Finish(e)

Lifecycle ==
  \/ \E r \in Runs : AcceptStop(r) \/ RefuseStop(r)
  \/ \E r \in Runs, e \in Leases : Claim(r, e)
  \/ \E e \in Leases : StopArrives(e) \/ Crash(e) \/ GiveUp(e) \/ Fail(e) \/ Seal(e)
  \/ Project

Upkeep ==
  \/ \E r \in Runs : ReadBatch(r) \/ Acknowledge(r)
  \/ \E i \in Attempts : ReconcilePin(i)
  \/ \E k \in Uploads : Reap(k)

Next ==
  \/ \E i \in Attempts : Admission(i)
  \/ Changes
  \/ \E e \in Leases : Line(e) \/ Runner(e)
  \/ Lifecycle
  \/ Upkeep

Spec == Init /\ [][Next]_vars

\* A transaction that holds a row ends; commands arrive; Pi works through its
\* queue; what was given up is sealed, projected and recovered; the reconciler of
\* pins runs again and again.  Nobody need send a message, stop a Run or end it.
Fairness ==
  /\ \A i \in Attempts : WF_vars(AcceptInitial(i) \/ Admit(i) \/ Refuse(i))
                        /\ WF_vars(ReconcilePin(i))
  /\ WF_vars(Project)
  /\ \A e \in Leases :
       /\ WF_vars(Line(e))
       /\ \A k \in Keys : WF_vars(Consume(e, k))
       /\ WF_vars(Open(e)) /\ WF_vars(WorkDone(e)) /\ WF_vars(StopArrives(e))
       /\ WF_vars(Abort(e)) /\ WF_vars(Seal(e)) /\ WF_vars(GiveUp(e))
       /\ \A r \in Runs : SF_vars(Claim(r, e))

FairSpec == Spec /\ Fairness

-----------------------------------------------------------------------------
Placements(k) == Cardinality(RunOf(k)) + (IF native.sub[k].run # 0 THEN 1 ELSE 0)

\* One identity across the active and the idle conversation: a message becomes the
\* initial input of one Run or one submission of Pi, never both or two of them,
\* although requests are repeated, delayed and decided from a projection that
\* lags behind the Worker's log.
PlacedOnce == \A k \in Keys : Placements(k) <= 1

\* A message the API reported as accepted is placed: a record that was written
\* before Pi's receipt is no acceptance.
AcceptedIsPlaced ==
  \A i \in Attempts : attempt[i].answer = "accepted" => Placements(attempt[i].key) = 1

\* The files of a message that is placed and not withdrawn are there, also when the
\* answer of the Worker never arrived.
FilesAreKept ==
  \A k \in Uploads :
    RunOf(k) # {} \/ native.sub[k].status \in {"queued", "consumed", "aborted"}
      => upload[k] # "deleted"

Untaken(r) == {k \in Keys : native.sub[k].run = r /\ native.sub[k].status \in {"queued", "aborted"}}

\* A message Run r recorded without a receipt of Pi's, and a later Run accepted.
TakenUpLater(r, k) ==
  LET s == native.sub[k].run IN s > r /\ {<<r, k>>, <<s, k>>} \subseteq native.meta

\* What a Stop gives back is what its Run accepted and Pi never took, from the first
\* page on and however the execution ended, and Pi does not take it later.  Nothing
\* else is given back but a message the Run only recorded and a later Run accepted
\* when it was repeated; Pi may still take that one.
ReturnIsExact ==
  /\ \A r \in Runs : Readable(r) =>
       /\ Untaken(r) \subseteq Batch(r)
       /\ \A k \in Batch(r) \ Untaken(r) : TakenUpLater(r, k)
  /\ \A r \in Runs, k \in Keys :
       <<r, k>> \in returned /\ native.sub[k].status = "consumed" => TakenUpLater(r, k)

\* Consumption wins a race against an edit or a withdrawal: an edit that was
\* answered is part of what Pi took, and what was withdrawn stays withdrawn.
ChangesAreSeen ==
  [][\A k \in Keys :
       /\ native.sub[k].status \in {"consumed", "withdrawn", "aborted"}
            => native'.sub[k] = native.sub[k] /\ native'.edits[k] = native.edits[k]]_vars

\* A message Pi queued is taken, withdrawn or aborted: a Run does not end, and its
\* recovery does not resume, beside a message left in the queue. The exceptions are
\* a Run that failed, and one recovered for a Stop that was then refused: it waits.
QueuedIsTaken ==
  \A k \in Keys :
    (native.sub[k].status = "queued")
      ~> \/ native.sub[k].status # "queued"
         \/ run[native.sub[k].run].state = "failed"
         \/ run[native.sub[k].run].stop = "refused"
=============================================================================
