------------------------- MODULE HumanInputs_proofs --------------------------
(* What TLAPS proves of HumanInputs for any number of messages, requests,   *)
(* changes, Runs and leases: a message becomes one thing, an acceptance is  *)
(* true, files outlive the message they belong to, a Stop gives back what   *)
(* Pi did not take, and what Pi took is not changed.                        *)
EXTENDS HumanInputs, FiniteSetTheorems, WellFoundedInduction, TLAPS

-----------------------------------------------------------------------------
(* Numbers and sequences.                                                    *)

\* A non-empty set of naturals has a least member.
LEMMA LeastMember ==
  ASSUME NEW S \in SUBSET Nat, S # {}
  PROVE  \E m \in S : \A n \in S : m <= n
  <1>1. PICK m \in S : \A n \in S : ~(<<n, m>> \in OpToRel(<, Nat))
    BY NatLessThanWellFounded, WFMin, Zenon
  <1>2. \A n \in S : ~(n < m)
    BY <1>1, Zenon DEF OpToRel
  <1> QED BY <1>2

\* The first of some Runs.
LEMMA MinMember ==
  ASSUME NEW S, S \subseteq Runs, S # {}
  PROVE  Min(S) \in S /\ \A n \in S : Min(S) <= n
  <1>1. S \in SUBSET Nat
    BY InputsAssumption DEF Runs
  <1>2. PICK m \in S : \A n \in S : m <= n
    BY <1>1, LeastMember
  <1> QED BY <1>2 DEF Min

\* The last of some Runs.
LEMMA MaxMember ==
  ASSUME NEW S, S \subseteq Runs, S # {}
  PROVE  Max(S) \in S
  <1>1. S \subseteq Nat /\ NumRuns \in Nat /\ \A n \in S : n <= NumRuns
    BY InputsAssumption DEF Runs
  <1> DEFINE T == {NumRuns - n : n \in S}
  <1>2. \A n \in S : NumRuns - n \in T /\ NumRuns - n \in Nat
    <2>1. \A n \in S : NumRuns - n \in T
      OBVIOUS
    <2>2. ASSUME NEW n \in S PROVE NumRuns - n \in Nat
      <3>1. n \in Nat /\ n <= NumRuns
        BY <1>1
      <3> HIDE DEF T
      <3> QED BY <1>1, <3>1
    <2> QED BY <2>1, <2>2
  <1>3. T \in SUBSET Nat
    BY <1>1
  <1>4. T # {}
    BY <1>2
  <1>5. PICK t \in T : \A u \in T : t <= u
    <2> HIDE DEF T
    <2> QED BY <1>3, <1>4, LeastMember
  <1>6. PICK m \in S : t = NumRuns - m
    OBVIOUS
  <1>7. ASSUME NEW n \in S PROVE t <= NumRuns - n
    <2>1. NumRuns - n \in T
      BY <1>2
    <2> HIDE DEF T
    <2> QED BY <1>5, <2>1
  <1>8. \A n \in S : m >= n
    BY <1>1, <1>6, <1>7
  <1> QED BY <1>8 DEF Max

\* A record more.
LEMMA AppendMeans ==
  ASSUME NEW S, NEW s \in Seq(S), NEW c \in S
  PROVE  /\ Append(s, c) \in Seq(S) /\ Append(s, c)[Len(s) + 1] = c
         /\ Len(s) + 1 \in DOMAIN Append(s, c)
         /\ \A n \in DOMAIN s : n \in DOMAIN Append(s, c) /\ Append(s, c)[n] = s[n] /\ n < Len(s) + 1
         /\ \A n \in DOMAIN Append(s, c) : n \in DOMAIN s \/ n = Len(s) + 1
         /\ DOMAIN Append(s, c) \subseteq Nat /\ DOMAIN s \subseteq Nat
  OBVIOUS

\* A record less.
LEMMA TailMeans ==
  ASSUME NEW S, NEW s \in Seq(S), s # <<>>
  PROVE  /\ Tail(s) \in Seq(S) /\ Head(s) = s[1] /\ Head(s) \in S /\ 1 \in DOMAIN s
         /\ DOMAIN s \subseteq Nat /\ DOMAIN Tail(s) \subseteq Nat
         /\ \A n \in DOMAIN s : n = 1 \/ n > 1
         /\ \A n \in DOMAIN Tail(s) : n + 1 \in DOMAIN s /\ Tail(s)[n] = s[n + 1] /\ n + 1 > 1
         /\ \A n \in DOMAIN s : n = 1 \/ (n - 1 \in DOMAIN Tail(s) /\ Tail(s)[n - 1] = s[n])
         /\ (\A n \in DOMAIN s : n <= 1) => Tail(s) = <<>>
  <1>1. Len(s) \in Nat /\ Len(s) >= 1 /\ DOMAIN s = 1..Len(s)
    OBVIOUS
  <1>2. Tail(s) \in Seq(S) /\ Len(Tail(s)) = Len(s) - 1 /\ DOMAIN Tail(s) = 1..(Len(s) - 1)
    BY <1>1
  <1>3. \A n \in 1..(Len(s) - 1) : Tail(s)[n] = s[n + 1]
    BY <1>1
  <1>4. \A n \in DOMAIN s : n = 1 \/ (n - 1 \in DOMAIN Tail(s) /\ Tail(s)[n - 1] = s[n])
    <2> SUFFICES ASSUME NEW n \in DOMAIN s, n # 1
                 PROVE  n - 1 \in DOMAIN Tail(s) /\ Tail(s)[n - 1] = s[n]
      OBVIOUS
    <2>1. n - 1 \in 1..(Len(s) - 1) /\ (n - 1) + 1 = n
      BY <1>1
    <2> QED BY <1>2, <1>3, <2>1
  <1>5. (\A n \in DOMAIN s : n <= 1) => Tail(s) = <<>>
    <2> HAVE \A n \in DOMAIN s : n <= 1
    <2>1. Len(s) <= 1
      BY <1>1
    <2>2. Len(Tail(s)) = 0
      BY <1>1, <1>2, <2>1
    <2> QED BY <1>2, <2>2
  <1> QED BY <1>1, <1>2, <1>3, <1>4, <1>5

-----------------------------------------------------------------------------
(* The invariant.                                                            *)

\* The records of the log.
Record ==
  [kind : {"meta", "submit"}, run : Runs, key : Keys]
  \cup [kind : {"edit", "withdraw"}, run : Runs, key : Keys, op : Ops]
  \cup [kind : {"consume"}, key : Keys]
  \cup [kind : {"abort"}]
  \cup [kind : {"finish"}, lease : Leases, outcome : {"completed", "cancelled"}]
  \cup [kind : {"seal"}, lease : Leases]

\* Pi's state.
State ==
  [meta : SUBSET (Runs \X Keys), sub : [Keys -> [run : 0..NumRuns, status : Statuses]],
   edits : [Keys -> SUBSET Ops], receipts : SUBSET Ops]

\* The rows, with the values each field takes.
RunRow == [key : Keys \cup {NoKey}, state : {"absent", "queued", "running"} \cup Terminal,
           lease : 0..MaxLease, released : BOOLEAN, sealing : BOOLEAN, sealed : BOOLEAN,
           recovering : BOOLEAN, stop : {"none", "active", "refused", "done"}, returning : BOOLEAN]

ExecRow == [phase : Phases, busy : BOOLEAN, aborted : BOOLEAN, idle : BOOLEAN,
            line : Attempts \cup {None}]

AttemptRow == [key : Keys \cup {NoKey}, step : Steps, run : 0..NumRuns, lease : 0..MaxLease,
               again : BOOLEAN, pin : {"none", "held", "settled"}, answer : Answers]

Typed == TypeOK /\ native \in State /\ view \in State /\ tail \in Seq(Record)

\* A lease some Run was given.
Issued(e) == leases[e].run # 0

\* A lease whose writer is not known to be closed.
Writes(e) == Issued(e) /\ ~leases[e].sealed

\* What the row of a Run says of its lease.
RunRowInv(r) ==
  /\ run[r].state = "absent" => run[r].key = NoKey
  /\ run[r].state \in {"absent", "queued"} => run[r].lease = 0
  /\ run[r].state = "running" => run[r].lease # 0 /\ Writes(run[r].lease)
  /\ run[r].lease # 0 => RunAt(run[r].lease) = r
  /\ Settled(r) /\ run[r].lease # 0 => run[r].sealed \/ run[r].sealing
  /\ run[r].sealed => Settled(r) /\ run[r].lease # 0 /\ exec[run[r].lease].phase = "gone"
  /\ run[r].sealing => run[r].lease # 0
  /\ run[r].recovering =>
       /\ run[r].state \in {"queued", "running"} /\ \E e \in Leases : RunAt(e) = r
       /\ run[r].state = "running" => run[r].released

RunInv == (\A r \in Runs : RunRowInv(r)) /\ run[1].state # "absent"

\* One writer, and the Run it writes for.
WriterInv ==
  /\ \A d, e \in Leases : Writes(d) /\ Writes(e) => d = e
  /\ \A d, e \in Leases : d < e /\ Issued(e) => Issued(d)
  /\ \A e \in Leases :
       /\ Writes(e) => run[RunAt(e)].lease = e
       /\ exec[e].phase = "none" <=> ~Issued(e)
       /\ leases[e].sealed => exec[e].phase = "gone"
       /\ exec[e].line # None => Serving(e)

\* A record that ends an execution or closes its writer.
Ends(c) == c.kind \in {"finish", "seal"}

\* What is not projected was written by the one writer there is, and nothing but
\* its seal behind the end of its execution.
TailInv ==
  /\ tail # <<>> => \E e \in Leases : Writes(e)
  /\ \A n \in DOMAIN tail : \A e \in Leases : Writes(e) =>
       /\ tail[n].kind \in {"meta", "submit", "edit", "withdraw"} => tail[n].run = RunAt(e)
       /\ tail[n].kind \in {"submit", "edit", "withdraw", "consume"}
            => native.sub[tail[n].key].run = RunAt(e)
       /\ Ends(tail[n]) => tail[n].lease = e /\ exec[e].phase = "gone"
       /\ tail[n].kind = "seal" => run[RunAt(e)].sealing
       /\ run[RunAt(e)].sealed => tail[n].kind = "seal"
  /\ \A n, m \in DOMAIN tail :
       /\ n < m /\ Ends(tail[n]) => tail[m].kind = "seal"
       /\ tail[n].kind = "seal" => m <= n

LedgerInv == RunInv /\ WriterInv /\ TailInv

\* Pi's queue holds messages of the Run at work, each with the record of its arrival.
NativeInv ==
  /\ \A k \in Keys :
       /\ native.sub[k].status = "none" <=> native.sub[k].run = 0
       /\ native.sub[k].run # 0 => <<native.sub[k].run, k>> \in native.meta
  /\ \A e \in Leases : exec[e].phase \in {"gated", "open", "ended"} =>
       \A k \in Queued(native) : native.sub[k].run = RunAt(e)

\* A queued message and an aborted one were both not taken.
Kind(status) == IF status = "aborted" THEN "queued" ELSE status

\* The records that change the status of a message, and the status they leave.
About(c, k) == c.kind \in {"submit", "consume", "withdraw"} /\ c.key = k

After(c) == CASE c.kind = "submit" -> "queued" [] c.kind = "consume" -> "consumed"
              [] OTHER -> "withdrawn"

\* What the projection lacks is in front of the Projector.
ViewInv ==
  /\ \A p \in native.meta : p \in view.meta \/
       \E n \in DOMAIN tail : tail[n].kind = "meta" /\ p = <<tail[n].run, tail[n].key>>
  /\ \A k \in Keys :
       /\ view.sub[k].run \in {0, native.sub[k].run}
       /\ view.sub[k].run = 0 => view.sub[k].status = "none"
       /\ view.sub[k].run # native.sub[k].run =>
            \E n \in DOMAIN tail : tail[n].kind = "submit" /\ tail[n].key = k
       /\ (\A n \in DOMAIN tail : ~About(tail[n], k))
            => Kind(view.sub[k].status) = Kind(native.sub[k].status)
       /\ \A n \in DOMAIN tail :
            /\ About(tail[n], k) /\ (\A m \in DOMAIN tail : m > n => ~About(tail[m], k))
                 => Kind(native.sub[k].status) = After(tail[n])
            /\ tail[n].kind \in {"consume", "withdraw"} /\ tail[n].key = k /\ view.sub[k].run = 0
                 => \E m \in DOMAIN tail : m < n /\ tail[m].kind = "submit" /\ tail[m].key = k

JournalInv == NativeInv /\ ViewInv

\* What a read of the rows sees when no execution can still place the message.
AllClosed == \A r \in Runs : run[r].state = "absent" \/ Closed(r)

\* What a request knows of its message, and where it went.
AttemptRowInv(i) ==
  /\ attempt[i].step = "reading" <=> lock = i
  /\ attempt[i].step # "new" \/ attempt[i].again => attempt[i].key \in Keys
  /\ attempt[i].step = "reading" =>
       /\ RunOf(attempt[i].key) = {}
       /\ AllClosed => native.sub[attempt[i].key].run = 0
  /\ attempt[i].step \in {"admitted", "sent"} \/ attempt[i].pin = "held" =>
       /\ attempt[i].lease # 0 /\ Issued(attempt[i].lease)
       /\ attempt[i].run = RunAt(attempt[i].lease)
  /\ attempt[i].pin = "held" => attempt[i].step \in {"admitted", "sent", "done"}
  /\ attempt[i].step \in {"new", "reading", "admitted"} => attempt[i].answer = "none"
  /\ attempt[i].answer = "accepted" =>
       RunOf(attempt[i].key) # {} \/ native.sub[attempt[i].key].run # 0

AttemptInv == \A i \in Attempts : AttemptRowInv(i)

\* A command, or a request on the line, reaches the execution e.
Reaches(i, e) == calls[i][e] > 0 \/ exec[e].line = i

\* The request is, or may still be sent, to the execution e.
Refers(i, e) == Reaches(i, e) \/ (attempt[i].step \in {"admitted", "sent"} /\ attempt[i].lease = e)

\* The request has no answer that lets it look at the rows once more.
Waits(i) ==
  attempt[i].step = "done" \/ (attempt[i].step = "sent" /\ attempt[i].answer # "closed")

\* An execution that still takes commands.
Working(e) == exec[e].phase \in {"opening", "gated", "open"}

\* A command on its way is of the request that was admitted for that execution, which
\* holds the files of its message until they are accepted.
CommandRowInv(i, e) ==
  /\ Refers(i, e) =>
       /\ Issued(e) /\ (attempt[i].step # "new" \/ attempt[i].again)
       /\ RunOf(attempt[i].key) # {} => exec[e].phase = "gone"
  /\ exec[e].line = i => <<RunAt(e), attempt[i].key>> \in native.meta
  /\ Working(e) =>
       /\ Reaches(i, e) => attempt[i].lease = e /\ attempt[i].run = RunAt(e) /\ Waits(i)
       /\ Refers(i, e) /\ attempt[i].key \in Uploads =>
            attempt[i].pin = "held" \/ upload[attempt[i].key] = "accepted"

CommandInv ==
  \A e \in Leases :
    /\ \A i \in Attempts : CommandRowInv(i, e)
    /\ \A o \in Ops : calls[o][e] > 0 => op[o].kind # "none"

\* An edit or a withdrawal names a message and a Run.
OpInv == \A o \in Ops : op[o].kind # "none" => op[o].key \in Keys /\ op[o].run # 0

\* A message becomes one thing.
PlaceInv ==
  \A k \in Keys :
    /\ native.sub[k].run # 0 => RunOf(k) = {}
    /\ \A r, s \in RunOf(k) : r = s

\* The request that placed a message holds its files until it is known to have.
Holds(i, k) ==
  /\ attempt[i].key = k /\ attempt[i].pin = "held" /\ attempt[i].run = native.sub[k].run
  /\ attempt[i].step = "done"
       \/ (attempt[i].step = "sent" /\ attempt[i].answer \in {"accepted", "unavailable"})
  /\ \/ view.sub[k].run = attempt[i].run /\ <<attempt[i].run, k>> \in view.meta
     \/ ~leases[attempt[i].lease].sealed

\* Files are kept by their acceptance, or by the request that placed their message.
FileInv ==
  /\ \A i \in Attempts : attempt[i].pin = "held" =>
       attempt[i].key \in Uploads /\ upload[attempt[i].key] # "deleted"
  /\ \A k \in Uploads :
       /\ RunOf(k) # {} => upload[k] = "accepted"
       /\ native.sub[k].run # 0 /\ native.sub[k].status # "withdrawn" =>
            upload[k] = "accepted" \/ \E i \in Attempts : Holds(i, k)

\* What a Stop gives back was not taken, and nothing can take it any more.
ReturnInv ==
  \A r \in Runs, k \in Keys : <<r, k>> \in returned =>
    /\ Closed(r) /\ run[r].state # "absent"
    /\ native.sub[k].run = r => native.sub[k].status \in {"queued", "aborted"}

InputInv ==
  /\ Typed /\ LedgerInv /\ JournalInv /\ AttemptInv /\ CommandInv /\ OpInv
  /\ PlaceInv /\ FileInv /\ ReturnInv

-----------------------------------------------------------------------------
(* Records and rows.                                                         *)

\* What each kind of record carries.
LEMMA RecordMeans ==
  ASSUME NEW c \in Record
  PROVE  /\ c.kind \in {"meta", "submit", "edit", "withdraw", "consume", "abort", "finish", "seal"}
         /\ c.kind \in {"meta", "submit", "edit", "withdraw"} => c.run \in Runs
         /\ c.kind \in {"meta", "submit", "edit", "withdraw", "consume"} => c.key \in Keys
         /\ c.kind \in {"edit", "withdraw"} => c.op \in Ops
         /\ c.kind \in {"finish", "seal"} => c.lease \in Leases
         /\ c.kind = "finish" => c.outcome \in {"completed", "cancelled"}
  BY DEF Record

\* What a record does to Pi's state.
LEMMA AppliedMeans ==
  ASSUME NEW s \in State, NEW c \in Record
  PROVE  /\ Applied(s, c) \in State
         /\ Applied(s, c).meta = s.meta \cup (IF c.kind = "meta" THEN {<<c.run, c.key>>} ELSE {})
         /\ \A k \in Keys :
              /\ Applied(s, c).sub[k].run =
                   IF c.kind = "submit" /\ c.key = k THEN c.run ELSE s.sub[k].run
              /\ Applied(s, c).sub[k].status =
                   IF About(c, k) THEN After(c)
                   ELSE IF c.kind = "abort" /\ s.sub[k].status = "queued" THEN "aborted"
                   ELSE s.sub[k].status
              /\ (c.kind = "edit" /\ c.key = k) \/ Applied(s, c).edits[k] = s.edits[k]
  <1>0. /\ s.meta \subseteq Runs \X Keys
        /\ s.sub \in [Keys -> [run : 0..NumRuns, status : Statuses]]
        /\ s.edits \in [Keys -> SUBSET Ops] /\ s.receipts \subseteq Ops
        /\ \A k \in Keys : s.sub[k] \in [run : 0..NumRuns, status : Statuses]
    BY DEF State
  <1>1. CASE c.kind = "meta"
    <2>1. Applied(s, c) = [s EXCEPT !.meta = @ \cup {<<c.run, c.key>>}]
      BY <1>1 DEF Applied
    <2>2. <<c.run, c.key>> \in Runs \X Keys
      BY <1>1, RecordMeans
    <2> QED BY <1>0, <1>1, <2>1, <2>2 DEF State, About
  <1>2. CASE c.kind = "submit"
    <2>1. c.run \in Runs /\ c.key \in Keys /\ c.run \in 0..NumRuns
      BY <1>2, RecordMeans, InputsAssumption DEF Runs
    <2> DEFINE row == [run |-> c.run, status |-> "queued"]
    <2>2. row \in [run : 0..NumRuns, status : Statuses]
      BY <2>1 DEF Statuses
    <2>3. Applied(s, c) = [s EXCEPT !.sub = [s.sub EXCEPT ![c.key] = row]]
      BY <1>2 DEF Applied, State
    <2>4. [s.sub EXCEPT ![c.key] = row] \in [Keys -> [run : 0..NumRuns, status : Statuses]]
      BY <1>0, <2>2
    <2>5. \A k \in Keys : [s.sub EXCEPT ![c.key] = row][k] =
            IF c.key = k THEN row ELSE s.sub[k]
      BY <1>0, <2>1
    <2>6. /\ Applied(s, c).meta = s.meta /\ Applied(s, c).sub = [s.sub EXCEPT ![c.key] = row]
          /\ Applied(s, c).edits = s.edits /\ Applied(s, c).receipts = s.receipts
      BY <2>3 DEF State
    <2>7. Applied(s, c) \in State
      BY <1>0, <2>3, <2>4 DEF State
    <2>8. \A k \in Keys : About(c, k) <=> c.key = k
      BY <1>2 DEF About
    <2>9. After(c) = "queued"
      BY <1>2 DEF After
    <2> QED BY <1>2, <2>1, <2>5, <2>6, <2>7, <2>8, <2>9
  <1>3. ASSUME c.kind \in {"consume", "withdraw"}
        PROVE  /\ c.key \in Keys
               /\ [s.sub EXCEPT ![c.key].status = After(c)]
                    \in [Keys -> [run : 0..NumRuns, status : Statuses]]
               /\ \A k \in Keys :
                    /\ [s.sub EXCEPT ![c.key].status = After(c)][k].run = s.sub[k].run
                    /\ [s.sub EXCEPT ![c.key].status = After(c)][k].status =
                         IF c.key = k THEN After(c) ELSE s.sub[k].status
    <2>1. c.key \in Keys
      BY <1>3, RecordMeans
    <2>2. After(c) \in Statuses
      BY DEF After, Statuses
    <2> HIDE DEF After
    <2> QED BY <1>0, <2>1, <2>2
  <1>4. CASE c.kind = "consume"
    <2>1. After(c) = "consumed"
      BY <1>4 DEF After
    <2>2. Applied(s, c) = [s EXCEPT !.sub = [s.sub EXCEPT ![c.key].status = After(c)]]
      BY <1>4, <2>1 DEF Applied, State
    <2> QED BY <1>0, <1>3, <1>4, <2>2 DEF State, About
  <1>5. CASE c.kind = "withdraw"
    <2>1. After(c) = "withdrawn" /\ c.op \in Ops
      BY <1>5, RecordMeans DEF After
    <2>2. Applied(s, c) = [s EXCEPT !.sub = [s.sub EXCEPT ![c.key].status = After(c)],
                                    !.receipts = s.receipts \cup {c.op}]
      BY <1>5, <2>1 DEF Applied, State
    <2>3. Applied(s, c).sub = [s.sub EXCEPT ![c.key].status = After(c)]
          /\ Applied(s, c).meta = s.meta /\ Applied(s, c).edits = s.edits
          /\ Applied(s, c).receipts = s.receipts \cup {c.op}
      BY <2>2 DEF State
    <2>4. Applied(s, c) = [meta |-> s.meta, sub |-> [s.sub EXCEPT ![c.key].status = After(c)],
                           edits |-> s.edits, receipts |-> s.receipts \cup {c.op}]
      BY <2>2 DEF State
    <2>5. Applied(s, c) \in State
      BY <1>0, <1>3, <1>5, <2>1, <2>4 DEF State
    <2> QED BY <1>0, <1>3, <1>5, <2>3, <2>5 DEF About
  <1>6. CASE c.kind = "edit"
    <2>1. c.key \in Keys /\ c.op \in Ops
      BY <1>6, RecordMeans
    <2>2. Applied(s, c) = [s EXCEPT !.edits = [s.edits EXCEPT ![c.key] = @ \cup {c.op}],
                                    !.receipts = s.receipts \cup {c.op}]
      BY <1>6 DEF Applied, State
    <2>3. /\ [s.edits EXCEPT ![c.key] = @ \cup {c.op}] \in [Keys -> SUBSET Ops]
          /\ \A k \in Keys : k # c.key => [s.edits EXCEPT ![c.key] = @ \cup {c.op}][k] = s.edits[k]
      BY <1>0, <2>1
    <2>4. /\ Applied(s, c).meta = s.meta /\ Applied(s, c).sub = s.sub
          /\ Applied(s, c).edits = [s.edits EXCEPT ![c.key] = @ \cup {c.op}]
          /\ Applied(s, c).receipts = s.receipts \cup {c.op}
      BY <2>2 DEF State
    <2>5. Applied(s, c) = [meta |-> s.meta, sub |-> s.sub,
                           edits |-> [s.edits EXCEPT ![c.key] = @ \cup {c.op}],
                           receipts |-> s.receipts \cup {c.op}]
      BY <2>2 DEF State
    <2>6. Applied(s, c) \in State
      BY <1>0, <2>1, <2>3, <2>5 DEF State
    <2> QED BY <1>6, <2>3, <2>4, <2>6 DEF About
  <1>7. CASE c.kind = "abort"
    <2> DEFINE new == [k \in Keys |-> IF k \in Queued(s) THEN [s.sub[k] EXCEPT !.status = "aborted"]
                                      ELSE s.sub[k]]
    <2>1. Applied(s, c) = [s EXCEPT !.sub = new]
      BY <1>7 DEF Applied, State
    <2>2. \A k \in Keys :
            /\ new[k] \in [run : 0..NumRuns, status : Statuses] /\ new[k].run = s.sub[k].run
            /\ new[k].status = IF s.sub[k].status = "queued" THEN "aborted" ELSE s.sub[k].status
      BY <1>0 DEF Queued, Statuses
    <2>3. new \in [Keys -> [run : 0..NumRuns, status : Statuses]]
      BY <2>2
    <2> HIDE DEF new
    <2> QED BY <1>0, <1>7, <2>1, <2>2, <2>3 DEF State, About
  <1>8. CASE c.kind \in {"finish", "seal"}
    <2>1. Applied(s, c) = s
      BY <1>8 DEF Applied
    <2> QED BY <1>8, <2>1 DEF About
  <1> QED BY <1>1, <1>2, <1>4, <1>5, <1>6, <1>7, <1>8, RecordMeans

\* The rows, executions and requests of a state.
LEMMA Rows ==
  ASSUME Typed
  PROVE  /\ run \in [Runs -> RunRow] /\ exec \in [Leases -> ExecRow]
         /\ attempt \in [Attempts -> AttemptRow]
         /\ leases \in [Leases -> [run : 0..NumRuns, sealed : BOOLEAN]]
         /\ \A r \in Runs : run[r] \in RunRow /\ (run[r].lease # 0 => run[r].lease \in Leases)
         /\ \A e \in Leases :
              /\ leases[e] \in [run : 0..NumRuns, sealed : BOOLEAN] /\ exec[e] \in ExecRow
              /\ Issued(e) => RunAt(e) \in Runs
         /\ \A i \in Attempts :
              /\ attempt[i] \in AttemptRow
              /\ attempt[i].lease # 0 => attempt[i].lease \in Leases
              /\ attempt[i].run # 0 => attempt[i].run \in Runs
         /\ 0 \notin Runs /\ 0 \notin Leases /\ 1 \in Runs
  <1>1. /\ run \in [Runs -> RunRow] /\ exec \in [Leases -> ExecRow]
        /\ attempt \in [Attempts -> AttemptRow]
        /\ leases \in [Leases -> [run : 0..NumRuns, sealed : BOOLEAN]]
    BY DEF Typed, TypeOK, RunRow, ExecRow, AttemptRow
  <1>2. /\ \A n \in 0..NumRuns : n # 0 => n \in Runs
        /\ \A n \in 0..MaxLease : n # 0 => n \in Leases
        /\ 0 \notin Runs /\ 0 \notin Leases /\ 1 \in Runs
    BY InputsAssumption DEF Runs, Leases
  <1>3. \A r \in Runs : run[r] \in RunRow /\ (run[r].lease # 0 => run[r].lease \in Leases)
    BY <1>1, <1>2 DEF RunRow
  <1>4. \A e \in Leases :
          /\ leases[e] \in [run : 0..NumRuns, sealed : BOOLEAN] /\ exec[e] \in ExecRow
          /\ Issued(e) => RunAt(e) \in Runs
    BY <1>1, <1>2 DEF Issued, RunAt
  <1>5. \A i \in Attempts :
          /\ attempt[i] \in AttemptRow
          /\ attempt[i].lease # 0 => attempt[i].lease \in Leases
          /\ attempt[i].run # 0 => attempt[i].run \in Runs
    BY <1>1, <1>2 DEF AttemptRow
  <1> QED BY <1>1, <1>2, <1>3, <1>4, <1>5

-----------------------------------------------------------------------------
(* What a step does to rows, executions and the log.                         *)

\* An execution that may still write.
Alive(e) == exec[e].phase \notin {"none", "gone"}

\* The record c is one that the execution e may append now.
Content(e, c) ==
  /\ c.kind \in {"meta", "submit", "edit", "withdraw"} => c.run = RunAt(e)
  /\ c.kind = "submit" =>
       /\ exec[e].phase = "open" /\ native.sub[c.key].run = 0
       /\ <<c.run, c.key>> \in native.meta
       /\ \E i \in Attempts : exec[e].line = i /\ attempt[i].key = c.key
  /\ c.kind \in {"edit", "withdraw", "consume"} =>
       exec[e].phase \in {"open", "ended"} /\ c.key \in Queued(native)
  /\ c.kind \in {"meta", "submit", "edit", "withdraw", "consume", "abort"} => Alive(e)
  /\ Ends(c) => c.lease = e /\ exec'[e].phase = "gone"
  /\ c.kind = "finish" => Alive(e)
  /\ c.kind = "seal" => Writes(e) /\ run[RunAt(e)].sealing /\ \A n \in DOMAIN tail : tail[n].kind # "seal"

\* A step of the execution e, or its fencing.
Acts(e) ==
  /\ Issued(e) /\ UNCHANGED <<rows, lock, upload, returned>>
  /\ exec' \in [Leases -> ExecRow]
  /\ \A d \in Leases : d # e => exec'[d] = exec[d]
  /\ exec'[e].phase # "none" /\ (exec[e].phase = "gone" => exec'[e].phase = "gone")
  /\ exec'[e].line # None => exec'[e].phase \in {"open", "ended"}
  /\ exec[e].phase = "gated" /\ Alive(e)' => exec'[e].phase \in {"gated", "ended"}
  /\ exec[e].phase = "ended" /\ Alive(e)' => exec'[e].phase = "ended"
  /\ exec[e].phase = "open" /\ Alive(e)' => exec'[e].phase \in {"open", "ended"}
  /\ exec[e].phase = "opening" /\ exec'[e].phase \in {"gated", "open", "ended"} =>
       (\E c \in Record : c.kind = "abort" /\ Committed(c))
         \/ (UNCHANGED journal /\ \A k \in Queued(native) : native.sub[k].run = RunAt(e))
  /\ UNCHANGED journal \/ \E c \in Record : Committed(c) /\ Content(e, c)

\* An execution that is alive writes.
LEMMA AliveWrites ==
  ASSUME Typed, LedgerInv, NEW e \in Leases, Alive(e)
  PROVE  Issued(e) /\ Writes(e) /\ RunAt(e) \in Runs
  BY Rows DEF LedgerInv, WriterInv, Alive, Writes, Issued, RunAt

\* An execution changes its own row.
LEMMA ExecMeans ==
  ASSUME Typed, NEW e \in Leases, NEW x \in ExecRow, exec' = [exec EXCEPT ![e] = x]
  PROVE  /\ exec' \in [Leases -> ExecRow] /\ exec'[e] = x
         /\ \A d \in Leases : d # e => exec'[d] = exec[d]
  BY Rows

\* The rows of an execution after a step of it.
LEMMA ExecRows ==
  ASSUME Typed, NEW e \in Leases
  PROVE  /\ [NoExec EXCEPT !.phase = "gone"] \in ExecRow
         /\ [NoExec EXCEPT !.phase = "gone"].phase = "gone"
         /\ [NoExec EXCEPT !.phase = "gone"].line = None
         /\ \A i \in Attempts \cup {None} :
              [exec[e] EXCEPT !.line = i] \in ExecRow /\ [exec[e] EXCEPT !.line = i].line = i
                /\ [exec[e] EXCEPT !.line = i].phase = exec[e].phase
         /\ \A b \in BOOLEAN :
              /\ [exec[e] EXCEPT !.idle = b] \in ExecRow
              /\ [exec[e] EXCEPT !.idle = b].line = exec[e].line
              /\ [exec[e] EXCEPT !.idle = b].phase = exec[e].phase
              /\ [exec[e] EXCEPT !.busy = b] \in ExecRow
              /\ [exec[e] EXCEPT !.busy = b].line = exec[e].line
              /\ [exec[e] EXCEPT !.busy = b].phase = exec[e].phase
              /\ [exec[e] EXCEPT !.line = None, !.idle = b] \in ExecRow
              /\ [exec[e] EXCEPT !.line = None, !.idle = b].line = None
              /\ [exec[e] EXCEPT !.line = None, !.idle = b].phase = exec[e].phase
         /\ \A p \in Phases :
              /\ [exec[e] EXCEPT !.phase = p] \in ExecRow
              /\ [exec[e] EXCEPT !.phase = p].line = exec[e].line
              /\ [exec[e] EXCEPT !.phase = p].phase = p
              /\ [exec[e] EXCEPT !.phase = p, !.busy = TRUE] \in ExecRow
              /\ [exec[e] EXCEPT !.phase = p, !.busy = TRUE].line = exec[e].line
              /\ [exec[e] EXCEPT !.phase = p, !.busy = TRUE].phase = p
         /\ [exec[e] EXCEPT !.phase = "ended", !.aborted = TRUE, !.idle = FALSE] \in ExecRow
         /\ [exec[e] EXCEPT !.phase = "ended", !.aborted = TRUE, !.idle = FALSE].line = exec[e].line
         /\ [exec[e] EXCEPT !.phase = "ended", !.aborted = TRUE, !.idle = FALSE].phase = "ended"
         /\ [exec[e] EXCEPT !.busy = FALSE, !.idle = TRUE] \in ExecRow
         /\ [exec[e] EXCEPT !.busy = FALSE, !.idle = TRUE].line = exec[e].line
         /\ [exec[e] EXCEPT !.busy = FALSE, !.idle = TRUE].phase = exec[e].phase
  <1>1. exec[e] \in ExecRow
    BY Rows
  <1>2. [NoExec EXCEPT !.phase = "gone"] \in ExecRow
        /\ [NoExec EXCEPT !.phase = "gone"].phase = "gone"
        /\ [NoExec EXCEPT !.phase = "gone"].line = None
    BY DEF NoExec, ExecRow, Phases
  <1>3. "ended" \in Phases
    BY DEF Phases
  <1> QED BY <1>1, <1>2, <1>3 DEF ExecRow

\* What an execution that is alive may know of the one request on its line.
LEMMA LineKnown ==
  ASSUME InputInv, NEW e \in Leases, exec[e].line # None
  PROVE  /\ exec[e].line \in Attempts /\ attempt[exec[e].line].key \in Keys
         /\ <<RunAt(e), attempt[exec[e].line].key>> \in native.meta /\ Serving(e) /\ Issued(e)
         /\ exec[e].phase = "open" => RunOf(attempt[exec[e].line].key) = {}
  <1> DEFINE i == exec[e].line
  <1>1. i \in Attempts /\ Serving(e)
    BY Rows DEF InputInv, LedgerInv, WriterInv, ExecRow
  <1>2. Refers(i, e)
    BY DEF Refers, Reaches
  <1> HIDE DEF i
  <1>3. attempt[i].key \in Keys /\ Issued(e) /\ (exec[e].phase = "open" => RunOf(attempt[i].key) = {})
    BY <1>1, <1>2 DEF InputInv, CommandInv, CommandRowInv, Working, AttemptInv, AttemptRowInv
  <1>4. <<RunAt(e), attempt[i].key>> \in native.meta
    BY <1>1 DEF InputInv, CommandInv, CommandRowInv, Working, i
  <1> QED BY <1>1, <1>3, <1>4 DEF i

\* A serving execution is alive.
LEMMA ServingAlive ==
  ASSUME InputInv, NEW e \in Leases, Serving(e) \/ Alive(e)
  PROVE  Alive(e) /\ Issued(e) /\ Writes(e) /\ RunAt(e) \in Runs
  BY AliveWrites DEF InputInv, Serving, Alive

\* A request is taken from the commands, and its record written.
LEMMA StartInputActs ==
  ASSUME InputInv, NEW e \in Leases, NEW i \in Attempts, StartInput(e, i)
  PROVE  Acts(e) /\ \A k \in Keys : native'.sub[k].run = native.sub[k].run
  <1> DEFINE c == [kind |-> "meta", run |-> RunAt(e), key |-> attempt[i].key]
  <1>1. Alive(e) /\ Issued(e) /\ Writes(e) /\ RunAt(e) \in Runs /\ Serving(e)
    BY ServingAlive DEF StartInput
  <1>2. attempt[i].key \in Keys
    <2>1. calls[i][e] > 0
      BY DEF StartInput
    <2>2. Refers(i, e)
      BY <2>1 DEF Refers, Reaches
    <2> QED BY <2>2 DEF InputInv, CommandInv, CommandRowInv, Working, AttemptInv, AttemptRowInv
  <1>3. c \in Record /\ c.kind = "meta" /\ c.run = RunAt(e)
    BY <1>1, <1>2 DEF Record
  <1>4. Content(e, c)
    BY <1>1, <1>3 DEF Content, Ends
  <1>5. UNCHANGED <<rows, lock, upload, returned, view>>
    BY DEF StartInput, RunnerUnchanged
  <1>6. (exec' = exec /\ UNCHANGED <<native, tail>>)
        \/ (exec' = [exec EXCEPT ![e].line = i] /\ (UNCHANGED <<native, tail>> \/ Committed(c)))
    BY DEF StartInput
  <1> HIDE DEF c
  <1>7. UNCHANGED journal \/ (Committed(c) /\ Content(e, c))
    BY <1>4, <1>5, <1>6 DEF journal
  <1>8. exec[e] \in ExecRow /\ (exec[e].line # None => Serving(e)) /\ exec \in [Leases -> ExecRow]
    BY <1>1, Rows DEF InputInv
  <1>9. /\ exec' \in [Leases -> ExecRow] /\ exec'[e].phase = exec[e].phase
        /\ \A d \in Leases : d # e => exec'[d] = exec[d]
    <2>1. CASE exec' = exec
      BY <1>8, <2>1
    <2>2. CASE exec' = [exec EXCEPT ![e].line = i]
      <3>1. exec' = [exec EXCEPT ![e] = [exec[e] EXCEPT !.line = i]]
        BY <1>8, <2>2
      <3> DEFINE x == [exec[e] EXCEPT !.line = i]
      <3>2. x \in ExecRow /\ x.phase = exec[e].phase
        BY ExecRows DEF InputInv
      <3> HIDE DEF x
      <3> QED BY <3>1, <3>2, ExecMeans DEF InputInv, x
    <2> QED BY <1>6, <2>1, <2>2
  <1>10. \A k \in Keys : native'.sub[k].run = native.sub[k].run
    <2>1. native \in State /\ (native' = native \/ native' = Applied(native, c))
      BY <1>6 DEF Committed, InputInv, Typed
    <2> QED BY <1>3, <2>1, AppliedMeans
  <1> QED BY <1>1, <1>3, <1>5, <1>7, <1>9, <1>10 DEF Acts, Serving, Alive

\* Pi's receipt is made or found, or the input is closed.
LEMMA SubmitActs ==
  ASSUME InputInv, NEW e \in Leases, Submit(e)
  PROVE  /\ Acts(e) /\ exec'[e].line = None
         /\ \A k \in Keys : native'.sub[k].run # native.sub[k].run =>
              k = attempt[exec[e].line].key /\ exec[e].phase = "open"
         /\ \/ AnswerOf(exec[e].line, e, "accepted") /\ native'.sub[attempt[exec[e].line].key].run # 0
            \/ AnswerOf(exec[e].line, e, "closed") /\ exec[e].phase = "ended"
         /\ UNCHANGED calls
  <1> DEFINE i == exec[e].line
             k == attempt[i].key
             c == [kind |-> "submit", run |-> RunAt(e), key |-> k]
  <1>1. /\ Alive(e) /\ Issued(e) /\ Writes(e) /\ RunAt(e) \in Runs /\ Serving(e) /\ i # None
        /\ i \in Attempts /\ k \in Keys /\ <<RunAt(e), k>> \in native.meta
    BY ServingAlive, LineKnown DEF Submit, LineFree
  <1>2. c \in Record /\ c.kind = "submit" /\ c.run = RunAt(e) /\ c.key = k
    BY <1>1 DEF Record
  <1>3. /\ UNCHANGED <<rows, lock, upload, returned, view, calls>>
        /\ \/ /\ exec' = [exec EXCEPT ![e] = [@ EXCEPT !.line = None, !.idle = exec[e].idle /\ ~Accepting(e)]]
              /\ native.sub[k].run # 0 /\ UNCHANGED <<native, tail>> /\ AnswerOf(i, e, "accepted")
           \/ /\ exec' = [exec EXCEPT ![e] = [@ EXCEPT !.line = None, !.idle = exec[e].idle /\ ~Accepting(e)]]
              /\ native.sub[k].run = 0 /\ Accepting(e) /\ Committed(c) /\ AnswerOf(i, e, "accepted")
           \/ /\ exec' = [exec EXCEPT ![e].line = None] /\ UNCHANGED <<native, tail>>
              /\ ~Accepting(e) /\ AnswerOf(i, e, "closed")
    BY DEF Submit, RunnerUnchanged
  <1>4. native.sub[k].run = 0 /\ Accepting(e) => Content(e, c)
    BY <1>1, <1>2 DEF Content, Ends, Accepting
  <1>5. /\ exec[e] \in ExecRow /\ exec \in [Leases -> ExecRow]
        /\ (exec[e].idle /\ ~Accepting(e)) \in BOOLEAN
        /\ exec[e].phase \in {"open", "ended"} /\ native \in State
    BY <1>1, Rows DEF InputInv, Serving, Typed, ExecRow
  <1> HIDE DEF c, k, i
  <1>6. /\ exec' \in [Leases -> ExecRow] /\ exec'[e].phase = exec[e].phase /\ exec'[e].line = None
        /\ \A d \in Leases : d # e => exec'[d] = exec[d]
    <2>1. CASE exec' = [exec EXCEPT ![e] = [@ EXCEPT !.line = None, !.idle = exec[e].idle /\ ~Accepting(e)]]
      <3> DEFINE b == exec[e].idle /\ ~Accepting(e)
      <3> DEFINE x == [exec[e] EXCEPT !.line = None, !.idle = b]
      <3>1. exec' = [exec EXCEPT ![e] = x]
        BY <1>5, <2>1
      <3>2. b \in BOOLEAN
        BY <1>5
      <3> HIDE DEF b
      <3>3. x \in ExecRow /\ x.phase = exec[e].phase /\ x.line = None
        BY <3>2, ExecRows DEF InputInv
      <3> HIDE DEF x
      <3> QED BY <3>1, <3>3, ExecMeans DEF InputInv
    <2>2. CASE exec' = [exec EXCEPT ![e].line = None]
      <3>1. exec' = [exec EXCEPT ![e] = [exec[e] EXCEPT !.line = None]]
        BY <1>5, <2>2
      <3> DEFINE x == [exec[e] EXCEPT !.line = None]
      <3>2. x \in ExecRow /\ x.phase = exec[e].phase /\ x.line = None
        BY ExecRows DEF InputInv
      <3> HIDE DEF x
      <3> QED BY <3>1, <3>2, ExecMeans DEF InputInv, x
    <2> QED BY <1>3, <2>1, <2>2
  <1>7. UNCHANGED journal \/ (Committed(c) /\ Content(e, c) /\ native.sub[k].run = 0 /\ Accepting(e))
    BY <1>3, <1>4 DEF journal
  <1>8. Acts(e)
    BY <1>1, <1>2, <1>3, <1>5, <1>6, <1>7 DEF Acts, Alive
  <1>9. Committed(c) => /\ native'.sub[k].run # 0
                        /\ \A j \in Keys : j # k => native'.sub[j].run = native.sub[j].run
    <2> HAVE Committed(c)
    <2>1. native' = Applied(native, c)
      BY DEF Committed
    <2> QED BY <1>1, <1>2, <1>5, <2>1, AppliedMeans, Rows DEF InputInv
  <1>10. /\ \A j \in Keys : native'.sub[j].run # native.sub[j].run => j = k /\ exec[e].phase = "open"
         /\ \/ AnswerOf(i, e, "accepted") /\ native'.sub[k].run # 0
            \/ AnswerOf(i, e, "closed") /\ exec[e].phase = "ended"
    BY <1>3, <1>5, <1>9 DEF Accepting
  <1> QED BY <1>3, <1>6, <1>8, <1>10 DEF k, i

\* The other steps of an execution: nothing is placed, and its line is as it was or free.
Works(e) ==
  /\ Acts(e) /\ exec'[e].line \in {exec[e].line, None}
  /\ \A k \in Keys : native'.sub[k].run = native.sub[k].run

\* What makes a step such a step.
LEMMA WorksFrom ==
  ASSUME InputInv, NEW e \in Leases, NEW x \in ExecRow, NEW c \in Record,
         Issued(e), UNCHANGED <<rows, lock, upload, returned>>,
         exec' = [exec EXCEPT ![e] = x] \/ (exec' = exec /\ x = exec[e]),
         x.phase # "none", exec[e].phase = "gone" => x.phase = "gone",
         x.line \in {exec[e].line, None}, x.line # None => x.phase \in {"open", "ended"},
         exec[e].phase = "gated" => x.phase \in {"gated", "ended", "gone"},
         exec[e].phase = "ended" => x.phase \in {"ended", "gone"},
         exec[e].phase = "open" => x.phase \in {"open", "ended", "gone"},
         exec[e].phase = "opening" /\ x.phase \in {"gated", "open", "ended"} =>
           (c.kind = "abort" /\ Committed(c))
           \/ (UNCHANGED journal /\ \A k \in Queued(native) : native.sub[k].run = RunAt(e)),
         c.kind # "submit", UNCHANGED journal \/ (Committed(c) /\ Content(e, c))
  PROVE  Works(e)
  <1>1. /\ exec' \in [Leases -> ExecRow] /\ exec'[e] = x
        /\ \A d \in Leases : d # e => exec'[d] = exec[d]
    BY ExecMeans, Rows DEF InputInv
  <1>2. \A k \in Keys : native'.sub[k].run = native.sub[k].run
    <2>1. CASE UNCHANGED journal
      BY <2>1 DEF journal
    <2>2. CASE Committed(c)
      <3>1. native' = Applied(native, c) /\ native \in State
        BY <2>2 DEF Committed, InputInv, Typed
      <3> QED BY <3>1, AppliedMeans
    <2> QED BY <2>1, <2>2
  <1>3. Alive(e)' => /\ exec[e].phase # "gated" \/ exec'[e].phase \in {"gated", "ended"}
                     /\ exec[e].phase # "ended" \/ exec'[e].phase = "ended"
    BY <1>1 DEF Alive
  <1>4. Alive(e)' => exec[e].phase # "open" \/ exec'[e].phase \in {"open", "ended"}
    BY <1>1 DEF Alive
  <1>5. Acts(e)
    BY <1>1, <1>3, <1>4 DEF Acts
  <1> QED BY <1>1, <1>2, <1>5 DEF Works

\* The preparation of an attachment fails.
LEMMA PrepareFailsWorks ==
  ASSUME InputInv, NEW e \in Leases, PrepareFails(e)
  PROVE  Works(e)
  <1> DEFINE x == [exec[e] EXCEPT !.line = None]
             c == [kind |-> "abort"]
  <1>1. Serving(e) /\ Issued(e) /\ exec[e] \in ExecRow /\ exec \in [Leases -> ExecRow]
    BY ServingAlive, Rows DEF PrepareFails, InputInv
  <1>2. x \in ExecRow /\ x.line = None /\ x.phase = exec[e].phase
    BY ExecRows DEF InputInv
  <1>3. exec' = [exec EXCEPT ![e] = x] /\ UNCHANGED <<rows, lock, upload, returned>> /\ UNCHANGED journal
    BY <1>1 DEF PrepareFails, RunnerUnchanged, journal
  <1>4. c \in Record /\ c.kind = "abort"
    BY DEF Record
  <1>5. exec[e].phase \in {"open", "ended"}
    BY <1>1 DEF Serving
  <1> HIDE DEF x, c
  <1> QED BY <1>1, <1>2, <1>3, <1>4, <1>5, WorksFrom

\* An edit or a withdrawal.
LEMMA MutateWorks ==
  ASSUME InputInv, NEW e \in Leases, NEW o \in Ops, Mutate(e, o)
  PROVE  Works(e)
  <1> DEFINE c == [kind |-> op[o].kind, run |-> RunAt(e), key |-> op[o].key, op |-> o]
             x == IF exec' = exec THEN exec[e] ELSE [exec[e] EXCEPT !.idle = exec[e].idle /\ ~Accepting(e)]
             b == [kind |-> "abort"]
  <1>1. /\ Serving(e) /\ Issued(e) /\ Alive(e) /\ RunAt(e) \in Runs
        /\ exec[e] \in ExecRow /\ exec \in [Leases -> ExecRow]
    BY ServingAlive, Rows DEF Mutate, InputInv
  <1>2. x \in ExecRow /\ x.line = exec[e].line /\ x.phase = exec[e].phase
    <2> DEFINE y == exec[e].idle /\ ~Accepting(e)
    <2>1. y \in BOOLEAN
      OBVIOUS
    <2> HIDE DEF y
    <2>2. [exec[e] EXCEPT !.idle = y] \in ExecRow /\ [exec[e] EXCEPT !.idle = y].line = exec[e].line
          /\ [exec[e] EXCEPT !.idle = y].phase = exec[e].phase
      BY <2>1, ExecRows DEF InputInv
    <2> QED BY <1>1, <2>2 DEF y
  <1>3. exec' = exec \/ exec' = [exec EXCEPT ![e].idle = @ /\ ~Accepting(e)]
    BY DEF Mutate
  <1>4. exec' = [exec EXCEPT ![e] = x] \/ (exec' = exec /\ x = exec[e])
    BY <1>1, <1>3
  <1>5. UNCHANGED <<rows, lock, upload, returned>>
    BY DEF Mutate
  <1>6. UNCHANGED journal \/ (Committed(c) /\ Applicable(e, o))
    BY DEF Mutate, journal
  <1>7. op[o] \in [key : Keys \cup {NoKey}, kind : {"none", "edit", "withdraw"},
                   seen : SUBSET (Keys \X SUBSET Ops), run : 0..NumRuns,
                   answer : {"none", "applied", "refused"}]
        /\ op[o].kind # "none" /\ op[o].key \in Keys
    BY DEF InputInv, Typed, TypeOK, CommandInv, OpInv, Mutate
  <1>8. c \in Record /\ c.kind \in {"edit", "withdraw"} /\ c.run = RunAt(e) /\ c.key = op[o].key
    BY <1>1, <1>7 DEF Record
  <1>9. exec[e].phase \in {"open", "ended"}
    BY <1>1 DEF Serving
  <1> HIDE DEF c, x, b
  <1>10. Applicable(e, o) => Content(e, c)
    BY <1>1, <1>8, <1>9 DEF Content, Applicable, Ends
  <1>11. exec[e].line # None => exec[e].phase \in {"open", "ended"}
    BY <1>9
  <1>12. c.kind # "submit"
    BY <1>8
  <1> QED BY <1>1, <1>2, <1>4, <1>5, <1>6, <1>8, <1>9, <1>10, <1>11, <1>12, WorksFrom

\* A record that is only named.
LEMMA SomeRecord ==
  /\ [kind |-> "abort"] \in Record
  /\ \A k \in Keys : [kind |-> "consume", key |-> k] \in Record
  /\ \A e \in Leases : [kind |-> "seal", lease |-> e] \in Record
  /\ \A e \in Leases, o \in {"completed", "cancelled"} :
       [kind |-> "finish", lease |-> e, outcome |-> o] \in Record
  BY DEF Record

\* Pi takes a message, or is done with one.
LEMMA ConsumeWorks ==
  ASSUME InputInv, NEW e \in Leases, NEW k \in Keys, Consume(e, k)
  PROVE  Works(e)
  <1> DEFINE x == [exec[e] EXCEPT !.busy = TRUE]
             c == [kind |-> "consume", key |-> k]
  <1>1. Serving(e) /\ Issued(e) /\ Alive(e) /\ exec \in [Leases -> ExecRow]
    BY ServingAlive, Rows DEF Consume, InputInv
  <1>2. x \in ExecRow /\ x.line = exec[e].line /\ x.phase = exec[e].phase
    BY ExecRows DEF InputInv
  <1>3. /\ exec' = [exec EXCEPT ![e] = x] /\ UNCHANGED <<rows, lock, upload, returned>>
        /\ Committed(c) /\ k \in Queued(native)
    BY <1>1 DEF Consume
  <1>4. c \in Record /\ c.kind = "consume" /\ c.key = k
    BY SomeRecord
  <1>5. exec[e].phase \in {"open", "ended"}
    BY <1>1 DEF Serving
  <1> HIDE DEF x, c
  <1>6. Content(e, c)
    BY <1>1, <1>3, <1>4, <1>5 DEF Content, Ends
  <1> QED BY <1>1, <1>2, <1>3, <1>4, <1>5, <1>6, WorksFrom

\* The steps that write nothing.
LEMMA SilentWorks ==
  ASSUME InputInv, NEW e \in Leases,
         WorkDone(e) \/ SeeIdle(e) \/ End(e) \/ StopArrives(e) \/ Crash(e)
  PROVE  Works(e)
  <1> DEFINE c == [kind |-> "abort"]
  <1>1. /\ c \in Record /\ c.kind = "abort" /\ UNCHANGED journal
        /\ UNCHANGED <<rows, lock, upload, returned>> /\ exec \in [Leases -> ExecRow]
    BY SomeRecord, Rows DEF InputInv, WorkDone, SeeIdle, End, StopArrives, Crash
  <1>2. Alive(e) /\ Issued(e)
    <2>1. Serving(e) \/ Alive(e)
      BY DEF WorkDone, SeeIdle, End, StopArrives, Crash, Accepting, Serving, Alive
    <2> QED BY <2>1, ServingAlive
  <1>3. exec[e].line # None => exec[e].phase \in {"open", "ended"}
    BY LineKnown DEF Serving
  <1> HIDE DEF c
  <1>4. CASE WorkDone(e)
    <2> DEFINE y == [exec[e] EXCEPT !.busy = FALSE]
    <2>1. y \in ExecRow /\ y.line = exec[e].line /\ y.phase = exec[e].phase
      BY ExecRows DEF InputInv
    <2>2. exec' = [exec EXCEPT ![e] = y] /\ exec[e].phase \in {"open", "ended"}
      BY <1>1, <1>4 DEF WorkDone, Serving
    <2> HIDE DEF y
    <2> QED BY <1>1, <1>2, <1>3, <2>1, <2>2, WorksFrom
  <1>5. CASE SeeIdle(e)
    <2> DEFINE y == [exec[e] EXCEPT !.idle = TRUE]
    <2>1. y \in ExecRow /\ y.line = exec[e].line /\ y.phase = exec[e].phase
      BY ExecRows DEF InputInv
    <2>2. exec' = [exec EXCEPT ![e] = y] /\ exec[e].phase = "open"
      BY <1>1, <1>5 DEF SeeIdle, Accepting
    <2> HIDE DEF y
    <2> QED BY <1>1, <1>2, <1>3, <2>1, <2>2, WorksFrom
  <1>6. CASE End(e)
    <2> DEFINE y == [exec[e] EXCEPT !.phase = "ended"]
    <2>0. "ended" \in Phases
      BY DEF Phases
    <2>1. y \in ExecRow /\ y.line = exec[e].line /\ y.phase = "ended"
      BY <2>0, ExecRows DEF InputInv
    <2>2. exec' = [exec EXCEPT ![e] = y] /\ exec[e].phase = "open"
      BY <1>1, <1>6 DEF End, Accepting
    <2> HIDE DEF y
    <2> QED BY <1>1, <1>2, <1>3, <2>1, <2>2, WorksFrom
  <1>7. CASE StopArrives(e)
    <2> DEFINE y == [exec[e] EXCEPT !.phase = "ended", !.aborted = TRUE, !.idle = FALSE]
    <2>1. y \in ExecRow /\ y.line = exec[e].line /\ y.phase = "ended"
      BY ExecRows DEF InputInv
    <2>2. exec' = [exec EXCEPT ![e] = y] /\ exec[e].phase \in {"gated", "open", "ended"}
      BY <1>1, <1>7 DEF StopArrives, Serving
    <2> HIDE DEF y
    <2> QED BY <1>1, <1>2, <1>3, <2>1, <2>2, WorksFrom
  <1>8. CASE Crash(e)
    <2> DEFINE y == [NoExec EXCEPT !.phase = "gone"]
    <2>1. y \in ExecRow /\ y.line = None /\ y.phase = "gone"
      BY ExecRows DEF InputInv
    <2>2. exec' = [exec EXCEPT ![e] = y]
      BY <1>1, <1>8 DEF Crash
    <2> HIDE DEF y
    <2> QED BY <1>1, <1>2, <1>3, <2>1, <2>2, WorksFrom
  <1> QED BY <1>4, <1>5, <1>6, <1>7, <1>8

\* The conversation is aborted.
LEMMA AbortWorks ==
  ASSUME InputInv, NEW e \in Leases, Abort(e)
  PROVE  Works(e)
  <1> DEFINE x == [exec[e] EXCEPT !.busy = FALSE, !.idle = TRUE]
             c == [kind |-> "abort"]
  <1>1. Alive(e) /\ Issued(e) /\ exec \in [Leases -> ExecRow] /\ exec[e].phase = "ended"
    <2>1. Alive(e)
      BY DEF Abort, Alive
    <2> QED BY <2>1, ServingAlive, Rows DEF Abort, InputInv
  <1>2. x \in ExecRow /\ x.line = exec[e].line /\ x.phase = exec[e].phase
    BY ExecRows DEF InputInv
  <1>3. exec' = [exec EXCEPT ![e] = x] /\ UNCHANGED <<rows, lock, upload, returned>> /\ Committed(c)
    BY <1>1 DEF Abort
  <1>4. c \in Record /\ c.kind = "abort"
    BY SomeRecord
  <1> HIDE DEF x, c
  <1>5. Content(e, c)
    BY <1>1, <1>4 DEF Content, Ends
  <1> QED BY <1>1, <1>2, <1>3, <1>4, <1>5, WorksFrom

\* The execution ends.
LEMMA FinishWorks ==
  ASSUME InputInv, NEW e \in Leases, Finish(e)
  PROVE  Works(e)
  <1> DEFINE x == [NoExec EXCEPT !.phase = "gone"]
             o == IF exec[e].aborted THEN "cancelled" ELSE "completed"
             c == [kind |-> "finish", lease |-> e, outcome |-> o]
  <1>1. Alive(e) /\ Issued(e) /\ exec \in [Leases -> ExecRow] /\ exec[e].phase = "ended"
    <2>1. Alive(e)
      BY DEF Finish, Alive
    <2> QED BY <2>1, ServingAlive, Rows DEF Finish, InputInv
  <1>2. x \in ExecRow /\ x.line = None /\ x.phase = "gone"
    BY ExecRows DEF InputInv
  <1>3. exec' = [exec EXCEPT ![e] = x] /\ UNCHANGED <<rows, lock, upload, returned>> /\ Committed(c)
    BY <1>1 DEF Finish
  <1>4. c \in Record /\ c.kind = "finish" /\ c.lease = e
    <2>1. o \in {"completed", "cancelled"}
      OBVIOUS
    <2> HIDE DEF o
    <2> QED BY <2>1, SomeRecord
  <1> HIDE DEF x, c
  <1>5. exec'[e].phase = "gone"
    BY <1>2, <1>3, ExecMeans DEF InputInv
  <1>6. Content(e, c)
    BY <1>1, <1>4, <1>5 DEF Content, Ends
  <1> QED BY <1>1, <1>2, <1>3, <1>4, <1>6, WorksFrom

\* The writer is fenced and sealed.
LEMMA SealWorks ==
  ASSUME InputInv, NEW e \in Leases, Seal(e)
  PROVE  Works(e)
  <1> DEFINE x == [NoExec EXCEPT !.phase = "gone"]
             c == [kind |-> "seal", lease |-> e]
  <1>1. Issued(e) /\ Writes(e) /\ exec \in [Leases -> ExecRow] /\ run[RunAt(e)].sealing
    BY Rows DEF Seal, InputInv, Issued, Writes, RunAt
  <1>2. x \in ExecRow /\ x.line = None /\ x.phase = "gone"
    BY ExecRows DEF InputInv
  <1>3. exec' = [exec EXCEPT ![e] = x] /\ UNCHANGED <<rows, lock, upload, returned>> /\ Committed(c)
    BY <1>1 DEF Seal
  <1>4. c \in Record /\ c.kind = "seal" /\ c.lease = e
    BY SomeRecord
  <1>5. \A n \in DOMAIN tail : tail[n].kind # "seal"
    BY <1>1 DEF Seal, InputInv, LedgerInv, TailInv, Ends
  <1> HIDE DEF x, c
  <1>6. exec'[e].phase = "gone"
    BY <1>2, <1>3, ExecMeans DEF InputInv
  <1>7. Content(e, c)
    BY <1>1, <1>4, <1>5, <1>6 DEF Content, Ends
  <1> QED BY <1>1, <1>2, <1>3, <1>4, <1>7, WorksFrom

\* The conversation is opened for a Run: what another Run left is aborted.
LEMMA OpenWorks ==
  ASSUME InputInv, NEW e \in Leases, Open(e)
  PROVE  Works(e)
  <1> DEFINE p == IF run[RunAt(e)].stop = "active" THEN "gated" ELSE "open"
             x == [exec[e] EXCEPT !.phase = p, !.busy = TRUE]
             c == [kind |-> "abort"]
  <1>1. Alive(e) /\ Issued(e) /\ exec \in [Leases -> ExecRow] /\ exec[e].phase = "opening"
    <2>1. Alive(e)
      BY DEF Open, Alive
    <2> QED BY <2>1, ServingAlive, Rows DEF Open, InputInv
  <1>2. p \in {"gated", "open"} /\ p \in Phases
    BY DEF Phases
  <1>3. exec' = [exec EXCEPT ![e] = x] /\ UNCHANGED <<rows, lock, upload, returned>>
        /\ (UNCHANGED journal \/ Committed(c))
        /\ (Abandons(e) => Committed(c)) /\ (~Abandons(e) => UNCHANGED journal)
    BY <1>1 DEF Open
  <1>4. c \in Record /\ c.kind = "abort"
    BY SomeRecord
  <1> HIDE DEF p, c
  <1>5. x \in ExecRow /\ x.line = exec[e].line /\ x.phase = p
    BY <1>2, ExecRows DEF InputInv
  <1>6. exec[e].line = None
    BY <1>1, LineKnown DEF Serving
  <1> HIDE DEF x
  <1>7. Content(e, c)
    BY <1>1, <1>4 DEF Content, Ends
  <1>8. (c.kind = "abort" /\ Committed(c))
        \/ (UNCHANGED journal /\ \A k \in Queued(native) : native.sub[k].run = RunAt(e))
    BY <1>3, <1>4 DEF Abandons
  <1> QED BY <1>1, <1>2, <1>3, <1>4, <1>5, <1>6, <1>7, <1>8, WorksFrom

-----------------------------------------------------------------------------
(* The rows, executions and the log.                                         *)

World ==
  /\ run \in [Runs -> RunRow] /\ leases \in [Leases -> [run : 0..NumRuns, sealed : BOOLEAN]]
  /\ exec \in [Leases -> ExecRow] /\ native \in State /\ view \in State /\ tail \in Seq(Record)

\* The invariant has the types of these.
LEMMA WorldTyped ==
  ASSUME InputInv
  PROVE  World
  BY Rows DEF InputInv, Typed, World

\* A step that changes the row of one Run and nothing that depends on it.
RowMoves(r) ==
  /\ UNCHANGED <<leases, exec, journal>>
  /\ run' \in [Runs -> RunRow] /\ \A s \in Runs : s # r => run'[s] = run[s]
  /\ run'[r].lease = run[r].lease /\ run'[r].sealed = run[r].sealed
  /\ run[r].sealing => run'[r].sealing
  /\ RunRowInv(r)' /\ run'[r].state # "absent"
  /\ Settled(r) => Settled(r)'
  /\ lock' # None => run'[r].state = run[r].state

\* The new row of one Run.
LEMMA RunMeans ==
  ASSUME InputInv, NEW r \in Runs, NEW x \in RunRow, run' = [run EXCEPT ![r] = x]
  PROVE  /\ run' \in [Runs -> RunRow] /\ run'[r] = x
         /\ \A s \in Runs : s # r => run'[s] = run[s]
  BY WorldTyped DEF World

\* Of a Run that has not settled, what its row says.
LEMMA RowOf ==
  ASSUME InputInv, NEW r \in Runs
  PROVE  /\ RunRowInv(r) /\ run[r] \in RunRow /\ run \in [Runs -> RunRow]
         /\ run[r].lease # 0 => run[r].lease \in Leases
         /\ run[r].state = "running" /\ run[r].lease \in Leases => RunAt(run[r].lease) = r
  BY Rows DEF InputInv, LedgerInv, RunInv, RunRowInv

\* An idle conversation gets a new Run for the message.
LEMMA AcceptInitialMoves ==
  ASSUME InputInv, NEW i \in Attempts, AcceptInitial(i)
  PROVE  \E r \in Runs :
           /\ RowMoves(r) /\ run[r].state = "absent" /\ run[r].key = NoKey
           /\ run'[r].key = attempt[i].key /\ attempt[i].key \in Keys
  <1> DEFINE absent == {r \in Runs : run[r].state = "absent"}
             x == [NoRun EXCEPT !.key = attempt[i].key, !.state = "queued"]
  <1>0. Min(absent) \in absent
    <2>1. absent # {} /\ absent \subseteq Runs
      BY DEF AcceptInitial
    <2> HIDE DEF absent
    <2> QED BY <2>1, MinMember
  <1>1. PICK r \in Runs : r = Min(absent) /\ run[r].state = "absent"
    BY <1>0
  <1>2. attempt[i].key \in Keys
    BY DEF InputInv, AttemptInv, AttemptRowInv, AcceptInitial
  <1>3. x \in RunRow /\ x.key = attempt[i].key /\ x.state = "queued" /\ x.lease = 0 /\ ~x.sealed
        /\ ~x.sealing /\ ~x.recovering
    <2>1. 0 \in 0..MaxLease
      BY InputsAssumption
    <2> QED BY <1>2, <2>1 DEF NoRun, RunRow
  <1>4. run' = [run EXCEPT ![r] = x] /\ UNCHANGED <<leases, exec, journal>> /\ lock' = None
    BY <1>1 DEF AcceptInitial
  <1> HIDE DEF absent, x
  <1>5. run' \in [Runs -> RunRow] /\ run'[r] = x /\ \A s \in Runs : s # r => run'[s] = run[s]
    BY <1>1, <1>3, <1>4, RunMeans
  <1>6. RunRowInv(r) /\ run[r] \in RunRow
    BY <1>1, RowOf
  <1>7. run[r].lease = 0 /\ ~run[r].sealed /\ ~run[r].sealing /\ run[r].key = NoKey /\ ~Settled(r)
    BY <1>1, <1>6 DEF RunRowInv, Settled, Terminal
  <1>8. run'[r].sealed = run[r].sealed
    BY <1>3, <1>5, <1>6, <1>7 DEF RunRow
  <1>9. RunRowInv(r)'
    BY <1>3, <1>5 DEF RunRowInv, Settled, Terminal
  <1> QED BY <1>1, <1>2, <1>3, <1>4, <1>5, <1>7, <1>8, <1>9 DEF RowMoves, journal

\* The changes of one row that keep its message.
Rewrites(r) == RowMoves(r) /\ run'[r].key = run[r].key

\* Cancelling a Run that waits for its Sandbox rewrites its row.
LEMMA CancelInitialMoves ==
  ASSUME InputInv, NEW r \in Runs, CancelInitial(r)
  PROVE  Rewrites(r)
  <1> DEFINE x == [run[r] EXCEPT !.state = "cancelled"]
  <1>1. RunRowInv(r) /\ run[r] \in RunRow /\ run \in [Runs -> RunRow]
    BY RowOf
  <1>2. /\ x \in RunRow /\ x.state = "cancelled" /\ x.lease = run[r].lease /\ x.key = run[r].key
        /\ x.sealed = run[r].sealed /\ x.sealing = run[r].sealing /\ x.recovering = run[r].recovering
    BY <1>1 DEF RunRow, Terminal
  <1>3. run' = [run EXCEPT ![r] = x] /\ UNCHANGED <<leases, exec, journal, lock>> /\ lock = None
        /\ run[r].state = "queued"
    BY <1>1 DEF CancelInitial
  <1>4. run[r].lease = 0 /\ ~run[r].sealed /\ ~run[r].sealing /\ ~run[r].recovering
    BY <1>1, <1>3 DEF RunRowInv, Settled, Terminal, RunAt, CancelInitial
  <1> HIDE DEF x
  <1>5. run' \in [Runs -> RunRow] /\ run'[r] = x /\ \A s \in Runs : s # r => run'[s] = run[s]
    BY <1>2, <1>3, RunMeans
  <1> QED BY <1>1, <1>2, <1>3, <1>4, <1>5 DEF Rewrites, RowMoves, RunRowInv, Settled, Terminal

\* Accepting, refusing or acknowledging a stop rewrites the row and nothing else.
LEMMA StopMoves ==
  ASSUME InputInv, NEW r \in Runs, AcceptStop(r) \/ RefuseStop(r) \/ Acknowledge(r)
  PROVE  Rewrites(r)
  <1> DEFINE same(x) == /\ x.state = run[r].state /\ x.lease = run[r].lease /\ x.key = run[r].key
                        /\ x.sealed = run[r].sealed /\ x.sealing = run[r].sealing
                        /\ x.recovering = run[r].recovering /\ x.released = run[r].released
             a == [run[r] EXCEPT !.stop = "active", !.returning = TRUE]
             b == [run[r] EXCEPT !.stop = "refused"]
             d == [run[r] EXCEPT !.returning = FALSE]
  <1>1. RunRowInv(r) /\ run[r] \in RunRow /\ run \in [Runs -> RunRow]
    BY RowOf
  <1>2. a \in RunRow /\ same(a) /\ b \in RunRow /\ same(b) /\ d \in RunRow /\ same(d)
    BY <1>1 DEF RunRow
  <1>3. UNCHANGED <<leases, exec, journal>>
    BY DEF AcceptStop, RefuseStop, Acknowledge, RowsOnly
  <1>4. run' = [run EXCEPT ![r] = a] \/ run' = [run EXCEPT ![r] = b] \/ run' = [run EXCEPT ![r] = d]
    BY <1>1 DEF AcceptStop, RefuseStop, Acknowledge
  <1>5. run[r].state # "absent"
    BY DEF AcceptStop, RefuseStop, Acknowledge, Readable, Closed, Settled, Terminal
  <1> HIDE DEF a, b, d
  <1>6. PICK x \in RunRow : run' = [run EXCEPT ![r] = x] /\ same(x)
    BY <1>2, <1>4
  <1>7. run' \in [Runs -> RunRow] /\ run'[r] = x /\ \A s \in Runs : s # r => run'[s] = run[s]
    BY <1>6, RunMeans
  <1>8. UNCHANGED <<leases, exec>> /\ \A e : RunAt(e)' = RunAt(e) /\ Writes(e)' = Writes(e)
    BY <1>3 DEF RunAt, Writes, Issued
  <1>9. Settled(r)' <=> Settled(r)
    BY <1>6, <1>7 DEF Settled
  <1>10. RunRowInv(r)'
    BY <1>1, <1>6, <1>7, <1>8, <1>9 DEF RunRowInv
  <1> QED BY <1>3, <1>5, <1>6, <1>7, <1>9, <1>10 DEF Rewrites, RowMoves

\* An execution is given up, or its failure is decided.
LEMMA ReleaseMoves ==
  ASSUME InputInv, NEW e \in Leases, GiveUp(e) \/ Fail(e)
  PROVE  RunAt(e) \in Runs /\ Rewrites(RunAt(e))
  <1> SUFFICES ASSUME NEW r \in Runs, r = RunAt(e) PROVE Rewrites(r)
    BY Rows DEF InputInv, GiveUp, Fail, Held, Issued, RunAt
  <1> DEFINE a == [run[r] EXCEPT !.released = TRUE, !.sealing = TRUE, !.recovering = TRUE]
             b == [run[r] EXCEPT !.released = TRUE, !.sealing = TRUE, !.state = "failed"]
  <1>1. RunRowInv(r) /\ run[r] \in RunRow /\ run \in [Runs -> RunRow]
    BY RowOf
  <1>2. /\ run[r].state = "running" /\ run[r].lease = e /\ ~run[r].released /\ RunAt(e) = r
        /\ e # 0 /\ Writes(e)
    BY <1>1, Rows DEF GiveUp, Fail, Held, InputInv, RunRowInv
  <1>3. ~run[r].sealed /\ ~run[r].recovering
    BY <1>1, <1>2 DEF RunRowInv, Settled, Terminal
  <1>4. UNCHANGED <<leases, exec, journal, lock>> /\ (Fail(e) => lock = None)
        /\ (run' = [run EXCEPT ![r] = a] \/ (Fail(e) /\ run' = [run EXCEPT ![r] = b]))
    BY <1>1 DEF GiveUp, Fail, RowsOnly
  <1>5. /\ a \in RunRow /\ a.state = "running" /\ a.lease = e /\ a.key = run[r].key
        /\ a.sealed = run[r].sealed /\ a.sealing /\ a.recovering /\ a.released
        /\ b \in RunRow /\ b.state = "failed" /\ b.lease = e /\ b.key = run[r].key
        /\ b.sealed = run[r].sealed /\ b.sealing /\ b.recovering = run[r].recovering
    BY <1>1, <1>2 DEF RunRow, Terminal
  <1> HIDE DEF a, b
  <1>6. PICK x \in RunRow :
          /\ run' = [run EXCEPT ![r] = x] /\ x.lease = e /\ x.key = run[r].key
          /\ x.sealed = run[r].sealed /\ x.sealing
          /\ \/ x.state = "running" /\ x.released
             \/ x.state = "failed" /\ ~x.recovering /\ lock = None
    BY <1>3, <1>4, <1>5
  <1>7. run' \in [Runs -> RunRow] /\ run'[r] = x /\ \A s \in Runs : s # r => run'[s] = run[s]
    BY <1>6, RunMeans
  <1>8. \A d : RunAt(d)' = RunAt(d) /\ Writes(d)' = Writes(d)
    BY <1>4 DEF RunAt, Writes, Issued
  <1>9. RunRowInv(r)'
    BY <1>2, <1>3, <1>6, <1>7, <1>8 DEF RunRowInv, Settled, Terminal
  <1> QED BY <1>2, <1>3, <1>4, <1>6, <1>7, <1>9 DEF Rewrites, RowMoves, Settled, Terminal

\* The ledger after a change of one row.
LEMMA RowMovesLedger ==
  ASSUME InputInv, NEW r \in Runs, RowMoves(r)
  PROVE  World' /\ LedgerInv'
  <1>1. /\ \A e : /\ RunAt(e)' = RunAt(e) /\ (Writes(e)' <=> Writes(e)) /\ (Issued(e)' <=> Issued(e))
                  /\ (Serving(e)' <=> Serving(e))
        /\ UNCHANGED <<leases, exec, native, view, tail>>
    BY DEF RowMoves, RunAt, Writes, Issued, Serving, journal
  <1>2. World'
    BY <1>1, WorldTyped DEF RowMoves, World
  <1>3. \A s \in Runs : /\ run'[s].lease = run[s].lease /\ run'[s].sealed = run[s].sealed
                        /\ run[s].sealing => run'[s].sealing
                        /\ run'[s].state = "absent" => run[s].state = "absent"
    BY DEF RowMoves
  <1>4. RunInv'
    <2>1. ASSUME NEW s \in Runs, s # r PROVE RunRowInv(s)'
      <3>1. run'[s] = run[s] /\ RunRowInv(s)
        BY <2>1, RowOf DEF RowMoves
      <3> QED BY <1>1, <3>1 DEF RunRowInv, Settled
    <2>2. run'[1].state # "absent"
      BY <1>3, Rows DEF InputInv, LedgerInv, RunInv
    <2> QED BY <2>1, <2>2 DEF RowMoves, RunInv
  <1>5. \A e \in Leases : Writes(e) => RunAt(e) \in Runs
    BY Rows DEF InputInv, Writes
  <1>6. WriterInv'
    BY <1>1, <1>3, <1>5 DEF InputInv, LedgerInv, WriterInv
  <1>7. TailInv'
    BY <1>1, <1>3, <1>5 DEF InputInv, LedgerInv, TailInv, Ends
  <1> QED BY <1>2, <1>4, <1>6, <1>7 DEF LedgerInv

\* The ledger where none of it changes.
LEMMA RestLedger ==
  ASSUME InputInv, UNCHANGED <<rows, exec, journal>>
  PROVE  World' /\ LedgerInv'
  <1>1. UNCHANGED <<run, leases, exec, native, view, tail>>
    BY DEF rows, journal
  <1>2. World'
    BY <1>1, WorldTyped DEF World
  <1>3. RunInv'
    BY <1>1 DEF InputInv, LedgerInv, RunInv, RunRowInv, Settled, Writes, Issued, RunAt
  <1>4. WriterInv' /\ TailInv'
    BY <1>1 DEF InputInv, LedgerInv, WriterInv, TailInv, Ends, Writes, Issued, RunAt, Serving
  <1> QED BY <1>2, <1>3, <1>4 DEF LedgerInv

\* Who may append writes; what it appends takes nothing back and is its Run's.
LEMMA AppendGrows ==
  ASSUME InputInv, NEW e \in Leases, NEW c \in Record, Issued(e), Committed(c), Content(e, c)
  PROVE  /\ Writes(e) /\ RunAt(e) \in Runs /\ run[RunAt(e)].lease = e
         /\ native' = Applied(native, c) /\ native' \in State /\ UNCHANGED view
         /\ tail' = Append(tail, c) /\ tail \in Seq(Record) /\ tail' \in Seq(Record)
         /\ native.meta \subseteq native'.meta
         /\ \A k \in Keys : native.sub[k].run # 0 => native'.sub[k].run = native.sub[k].run
         /\ c.kind \in {"submit", "edit", "withdraw", "consume"} =>
              c.key \in Keys /\ native'.sub[c.key].run = RunAt(e)
  <1>1. Writes(e) /\ RunAt(e) \in Runs /\ run[RunAt(e)].lease = e
    <2>1. Writes(e)
      <3>1. CASE Alive(e)
        BY <3>1, ServingAlive
      <3>2. CASE c.kind = "seal"
        BY <3>2 DEF Content
      <3> QED BY <3>1, <3>2, RecordMeans DEF Content
    <2>2. RunAt(e) \in Runs
      BY Rows DEF InputInv
    <2> QED BY <2>1, <2>2 DEF InputInv, LedgerInv, WriterInv
  <1>2. native' = Applied(native, c) /\ UNCHANGED view /\ tail' = Append(tail, c)
        /\ tail \in Seq(Record) /\ native \in State
    BY WorldTyped DEF Committed, World
  <1>3. tail' \in Seq(Record)
    BY <1>2, AppendMeans
  <1>4. /\ native' \in State
        /\ native.meta \subseteq native'.meta
        /\ \A k \in Keys : native'.sub[k].run =
             IF c.kind = "submit" /\ c.key = k THEN c.run ELSE native.sub[k].run
    BY <1>2, AppliedMeans
  <1>5. c.kind = "submit" => native.sub[c.key].run = 0 /\ c.run = RunAt(e) /\ c.key \in Keys
    BY RecordMeans DEF Content
  <1>6. c.kind \in {"edit", "withdraw", "consume"} => c.key \in Keys /\ native.sub[c.key].run = RunAt(e)
    <2> HAVE c.kind \in {"edit", "withdraw", "consume"}
    <2>1. c.key \in Queued(native) /\ exec[e].phase \in {"gated", "open", "ended"} /\ c.key \in Keys
      BY RecordMeans DEF Content
    <2> QED BY <2>1 DEF InputInv, JournalInv, NativeInv
  <1>7. \A k \in Keys : native.sub[k].run # 0 => native'.sub[k].run = native.sub[k].run
    BY <1>4, <1>5
  <1>8. c.kind \in {"submit", "edit", "withdraw", "consume"} =>
              c.key \in Keys /\ native'.sub[c.key].run = RunAt(e)
    BY <1>4, <1>5, <1>6
  <1> QED BY <1>1, <1>2, <1>3, <1>4, <1>7, <1>8

\* The ledger after a step of an execution.
LEMMA ActsLedger ==
  ASSUME InputInv, NEW e \in Leases, Acts(e)
  PROVE  World' /\ LedgerInv'
  <1>1. /\ \A d : RunAt(d)' = RunAt(d) /\ (Writes(d)' <=> Writes(d)) /\ (Issued(d)' <=> Issued(d))
        /\ UNCHANGED <<run, leases>> /\ exec' \in [Leases -> ExecRow] /\ Issued(e)
        /\ \A d \in Leases : d # e => exec'[d] = exec[d]
        /\ exec'[e].phase # "none" /\ (exec[e].phase = "gone" => exec'[e].phase = "gone")
        /\ exec'[e].line # None => exec'[e].phase \in {"open", "ended"}
    BY DEF Acts, rows, RunAt, Writes, Issued
  <1>2. World'
    <2>1. native \in State /\ view \in State /\ tail \in Seq(Record) /\ World
      BY WorldTyped DEF World
    <2>2. native' \in State /\ view' \in State /\ tail' \in Seq(Record)
      <3>1. CASE UNCHANGED journal
        BY <2>1, <3>1 DEF journal
      <3>2. CASE ~UNCHANGED journal
        <4>1. PICK c \in Record : Committed(c) /\ Content(e, c)
          BY <3>2 DEF Acts
        <4> QED BY <1>1, <2>1, <4>1, AppendGrows
      <3> QED BY <3>1, <3>2
    <2> QED BY <1>1, <2>1, <2>2 DEF World
  <1>3. \A d \in Leases : exec[d].phase = "gone" => exec'[d].phase = "gone"
    BY <1>1
  <1>4. RunInv'
    <2>1. ASSUME NEW s \in Runs PROVE RunRowInv(s)'
      <3>1. RunRowInv(s) /\ (run[s].lease # 0 => run[s].lease \in Leases)
        BY RowOf
      <3> QED BY <1>1, <1>3, <3>1 DEF RunRowInv, Settled
    <2> QED BY <1>1, <2>1 DEF InputInv, LedgerInv, RunInv
  <1>5. WriterInv'
    <2>1. \A d \in Leases : (exec'[d].phase = "none" <=> ~Issued(d))
      BY <1>1 DEF InputInv, LedgerInv, WriterInv
    <2>2. \A d \in Leases : leases[d].sealed => exec'[d].phase = "gone"
      BY <1>3 DEF InputInv, LedgerInv, WriterInv
    <2>3. \A d \in Leases : exec'[d].line # None => Serving(d)'
      BY <1>1 DEF InputInv, LedgerInv, WriterInv, Serving
    <2> QED BY <1>1, <2>1, <2>2, <2>3 DEF InputInv, LedgerInv, WriterInv
  <1>6. TailInv'
    <2>1. CASE UNCHANGED journal
      BY <1>1, <1>3, <2>1 DEF InputInv, LedgerInv, TailInv, Ends, journal
    <2>2. CASE ~UNCHANGED journal
      <3>1. PICK c \in Record : Committed(c) /\ Content(e, c)
        BY <2>2 DEF Acts
      <3>2. /\ Writes(e) /\ RunAt(e) \in Runs /\ run[RunAt(e)].lease = e
            /\ tail' = Append(tail, c) /\ tail \in Seq(Record) /\ tail' \in Seq(Record)
            /\ \A k \in Keys : native.sub[k].run # 0 => native'.sub[k].run = native.sub[k].run
            /\ c.kind \in {"submit", "edit", "withdraw", "consume"} =>
                 c.key \in Keys /\ native'.sub[c.key].run = RunAt(e)
        BY <1>1, <3>1, AppendGrows
      <3>3. /\ \A n \in DOMAIN tail : n \in DOMAIN tail' /\ tail'[n] = tail[n] /\ n < Len(tail) + 1
            /\ \A n \in DOMAIN tail' : n \in DOMAIN tail \/ n = Len(tail) + 1
            /\ tail'[Len(tail) + 1] = c /\ DOMAIN tail' \subseteq Nat
            /\ \A n \in DOMAIN tail : tail[n] \in Record
        BY <3>2, AppendMeans
      <3>4. \A d \in Leases : Writes(d) => d = e
        BY <3>2 DEF InputInv, LedgerInv, WriterInv
      <3>5. \A n \in DOMAIN tail :
              /\ tail[n].kind \in {"meta", "submit", "edit", "withdraw"} => tail[n].run = RunAt(e)
              /\ tail[n].kind \in {"submit", "edit", "withdraw", "consume"}
                   => tail[n].key \in Keys /\ native.sub[tail[n].key].run = RunAt(e)
              /\ Ends(tail[n]) => tail[n].lease = e /\ exec[e].phase = "gone"
              /\ tail[n].kind = "seal" => run[RunAt(e)].sealing
              /\ run[RunAt(e)].sealed => tail[n].kind = "seal"
        BY <3>2, <3>3, RecordMeans DEF InputInv, LedgerInv, TailInv
      <3>6. run[RunAt(e)].sealed => exec[e].phase = "gone"
        BY <3>2, RowOf DEF RunRowInv
      <3>7. exec[e].phase = "gone" => c.kind = "seal"
        BY <3>1, RecordMeans DEF Content, Alive
      <3>8. 0 \notin Runs
        BY Rows DEF InputInv
      <3>9. ASSUME NEW n \in DOMAIN tail'
            PROVE  /\ tail'[n].kind \in {"meta", "submit", "edit", "withdraw"} => tail'[n].run = RunAt(e)
                   /\ tail'[n].kind \in {"submit", "edit", "withdraw", "consume"}
                        => native'.sub[tail'[n].key].run = RunAt(e)
                   /\ Ends(tail'[n]) => tail'[n].lease = e /\ exec'[e].phase = "gone"
                   /\ tail'[n].kind = "seal" => run[RunAt(e)].sealing
                   /\ run[RunAt(e)].sealed => tail'[n].kind = "seal"
        <4>1. CASE n \in DOMAIN tail
          <5>1. tail'[n] = tail[n]
            BY <3>3, <4>1
          <5> QED BY <1>3, <3>2, <3>5, <3>8, <4>1, <5>1
        <4>2. CASE n = Len(tail) + 1
          <5>1. tail'[n] = c
            BY <3>3, <4>2
          <5> QED BY <3>1, <3>2, <3>6, <3>7, <5>1 DEF Content
        <4> QED BY <3>3, <4>1, <4>2
      <3>10. ASSUME NEW n \in DOMAIN tail', NEW m \in DOMAIN tail'
             PROVE  /\ n < m /\ Ends(tail'[n]) => tail'[m].kind = "seal"
                    /\ tail'[n].kind = "seal" => m <= n
        <4>1. Len(tail) \in Nat /\ n \in Nat /\ m \in Nat
          BY <3>2, <3>3
        <4>2. CASE n \in DOMAIN tail /\ m \in DOMAIN tail
          BY <3>3, <4>2 DEF InputInv, LedgerInv, TailInv
        <4>3. CASE n \in DOMAIN tail /\ m = Len(tail) + 1
          <5>1. tail'[n] = tail[n] /\ tail'[m] = c
            BY <3>3, <4>3
          <5>2. Ends(tail[n]) => c.kind = "seal"
            BY <3>5, <3>7, <4>3
          <5>3. tail[n].kind # "seal"
            <6> SUFFICES ASSUME tail[n].kind = "seal" PROVE FALSE
              OBVIOUS
            <6>1. c.kind = "seal"
              BY <5>2 DEF Ends
            <6> QED BY <3>1, <4>3, <6>1 DEF Content
          <5> QED BY <5>1, <5>2, <5>3
        <4>4. CASE n = Len(tail) + 1
          <5>1. m <= n
            BY <3>3, <4>1, <4>4
          <5> QED BY <4>1, <5>1
        <4> QED BY <3>3, <4>2, <4>3, <4>4
      <3> QED BY <1>1, <3>2, <3>4, <3>9, <3>10 DEF TailInv, Ends
    <2> QED BY <2>1, <2>2
  <1> QED BY <1>2, <1>4, <1>5, <1>6 DEF LedgerInv

\* Nothing is unprojected when an execution is claimed.
LEMMA ClaimFacts ==
  ASSUME InputInv, NEW r \in Runs, NEW e \in Leases, Claim(r, e)
  PROVE  /\ \A d \in Leases : ~Writes(d)
         /\ tail = <<>> /\ exec[e].phase = "none" /\ exec[e].line = None /\ ~Issued(e)
         /\ run[r].state = "queued" /\ run[r].lease = 0 /\ ~run[r].sealed /\ ~run[r].sealing
         /\ run' \in [Runs -> RunRow] /\ exec' \in [Leases -> ExecRow]
         /\ leases' \in [Leases -> [run : 0..NumRuns, sealed : BOOLEAN]]
         /\ run'[r].state = "running" /\ run'[r].lease = e /\ run'[r].key = run[r].key
         /\ run'[r].sealed = run[r].sealed /\ run'[r].sealing = run[r].sealing /\ ~run'[r].recovering
         /\ \A s \in Runs : s # r => run'[s] = run[s]
         /\ leases'[e].run = r /\ leases'[e].sealed = leases[e].sealed /\ ~leases[e].sealed
         /\ \A d \in Leases : d # e => leases'[d] = leases[d] /\ exec'[d] = exec[d]
         /\ exec'[e].phase = "opening" /\ exec'[e].line = None
         /\ UNCHANGED <<journal, lock, attempt, op, calls, upload, returned>> /\ lock = None
         /\ \A d \in Leases : d < e => Issued(d)
  <1>1. /\ run[r] \in RunRow /\ RunRowInv(r) /\ exec[e] \in ExecRow
        /\ leases[e] \in [run : 0..NumRuns, sealed : BOOLEAN] /\ World
        /\ run[r].state = "queued" /\ leases[e].run = 0 /\ ~Issued(e)
    BY RowOf, Rows, WorldTyped DEF InputInv, Claim, Issued
  <1>2. exec[e].phase = "none" /\ ~leases[e].sealed /\ exec[e].line = None
    BY <1>1 DEF InputInv, LedgerInv, WriterInv, Serving
  <1>3. run[r].lease = 0 /\ ~run[r].sealed /\ ~run[r].sealing
    BY <1>1 DEF RunRowInv, Settled, Terminal
  <1>4. \A d \in Leases : d < e => Issued(d) /\ leases[d].sealed
    <2>1. \A d \in Leases : d < e => d \in 1..(e - 1)
      BY InputsAssumption DEF Leases
    <2> QED BY <2>1 DEF Claim, Issued
  <1>5. ASSUME NEW d \in Leases, Writes(d) PROVE FALSE
    <2>1. Issued(d) /\ ~leases[d].sealed
      BY <1>5 DEF Writes
    <2>2. d = e \/ d < e \/ e < d
      BY DEF Leases
    <2> QED BY <1>1, <1>4, <2>1, <2>2 DEF InputInv, LedgerInv, WriterInv
  <1>6. tail = <<>>
    BY <1>5 DEF InputInv, LedgerInv, TailInv
  <1> DEFINE x == [run[r] EXCEPT !.state = "running", !.lease = e, !.released = FALSE, !.recovering = FALSE]
             y == [leases[e] EXCEPT !.run = r]
             z == [exec[e] EXCEPT !.phase = "opening"]
  <1>7. /\ run' = [run EXCEPT ![r] = x] /\ leases' = [leases EXCEPT ![e] = y]
        /\ exec' = [exec EXCEPT ![e] = z]
        /\ UNCHANGED <<journal, lock, attempt, op, calls, upload, returned>> /\ lock = None
    BY <1>1 DEF Claim, World
  <1>8. /\ x \in RunRow /\ x.state = "running" /\ x.lease = e /\ x.key = run[r].key
        /\ x.sealed = run[r].sealed /\ x.sealing = run[r].sealing /\ ~x.recovering
    <2>1. e \in 0..MaxLease
      BY InputsAssumption DEF Leases
    <2> QED BY <1>1, <2>1 DEF RunRow
  <1>9. y \in [run : 0..NumRuns, sealed : BOOLEAN] /\ y.run = r /\ y.sealed = leases[e].sealed
    <2>1. r \in 0..NumRuns
      BY InputsAssumption DEF Runs
    <2> QED BY <1>1, <2>1
  <1>10. z \in ExecRow /\ z.phase = "opening" /\ z.line = exec[e].line
    BY <1>1 DEF ExecRow, Phases
  <1> HIDE DEF x, y, z
  <1>11. run' \in [Runs -> RunRow] /\ run'[r] = x /\ \A s \in Runs : s # r => run'[s] = run[s]
    BY <1>7, <1>8, RunMeans
  <1>12. exec' \in [Leases -> ExecRow] /\ exec'[e] = z /\ \A d \in Leases : d # e => exec'[d] = exec[d]
    BY <1>7, <1>10, ExecMeans DEF InputInv
  <1>13. /\ leases' \in [Leases -> [run : 0..NumRuns, sealed : BOOLEAN]] /\ leases'[e] = y
         /\ \A d \in Leases : d # e => leases'[d] = leases[d]
    BY <1>1, <1>7, <1>9 DEF World
  <1> QED BY <1>1, <1>2, <1>3, <1>4, <1>5, <1>6, <1>7, <1>8, <1>9, <1>10, <1>11, <1>12, <1>13

\* The ledger after a claim.
LEMMA ClaimLedger ==
  ASSUME InputInv, NEW r \in Runs, NEW e \in Leases, Claim(r, e)
  PROVE  World' /\ LedgerInv'
  <1>1. /\ \A d \in Leases : ~Writes(d)
        /\ tail = <<>> /\ exec[e].phase = "none" /\ exec[e].line = None /\ ~Issued(e)
        /\ run[r].state = "queued" /\ run[r].lease = 0 /\ ~run[r].sealed /\ ~run[r].sealing
        /\ run' \in [Runs -> RunRow] /\ exec' \in [Leases -> ExecRow]
        /\ leases' \in [Leases -> [run : 0..NumRuns, sealed : BOOLEAN]]
        /\ run'[r].state = "running" /\ run'[r].lease = e /\ run'[r].key = run[r].key
        /\ run'[r].sealed = run[r].sealed /\ run'[r].sealing = run[r].sealing /\ ~run'[r].recovering
        /\ \A s \in Runs : s # r => run'[s] = run[s]
        /\ leases'[e].run = r /\ leases'[e].sealed = leases[e].sealed /\ ~leases[e].sealed
        /\ \A d \in Leases : d # e => leases'[d] = leases[d] /\ exec'[d] = exec[d]
        /\ exec'[e].phase = "opening" /\ exec'[e].line = None
        /\ UNCHANGED journal
        /\ \A d \in Leases : d < e => Issued(d)
    BY ClaimFacts
  <1>2. World'
    BY <1>1, WorldTyped DEF World, journal
  <1>3. 0 \notin Runs /\ 1 \in Runs /\ 0 \notin Leases
    BY Rows DEF InputInv
  <1>4. /\ \A d \in Leases : d # e => RunAt(d)' = RunAt(d) /\ (Issued(d)' <=> Issued(d)) /\ ~Writes(d)'
        /\ RunAt(e)' = r /\ Issued(e)' /\ Writes(e)'
    BY <1>1, <1>3 DEF RunAt, Issued, Writes
  <1>5. RunInv'
    <2>1. ASSUME NEW s \in Runs, s # r PROVE RunRowInv(s)'
      <3>1. run'[s] = run[s] /\ RunRowInv(s) /\ (run[s].lease # 0 => run[s].lease \in Leases)
        BY <1>1, <2>1, RowOf
      <3>2. run[s].lease # 0 => run[s].lease # e
        BY <1>1, <1>3, <3>1 DEF RunRowInv, Issued, RunAt
      <3>3. run[s].lease # 0 => RunAt(run[s].lease)' = RunAt(run[s].lease) /\ exec'[run[s].lease] = exec[run[s].lease]
        BY <1>1, <1>4, <3>1, <3>2
      <3>4. run[s].state # "running"
        BY <1>1, <3>1 DEF RunRowInv
      <3>5. run[s].recovering => \E d \in Leases : RunAt(d)' = s
        <4> HAVE run[s].recovering
        <4>1. PICK d \in Leases : RunAt(d) = s
          BY <3>1 DEF RunRowInv
        <4>2. d # e
          BY <1>1, <1>3, <4>1 DEF RunAt, Issued
        <4> QED BY <1>4, <4>1, <4>2
      <3> QED BY <3>1, <3>3, <3>4, <3>5 DEF RunRowInv, Settled
    <2>2. RunRowInv(r)'
      <3>1. ~run'[r].sealed /\ ~run'[r].recovering /\ ~Settled(r)'
        BY <1>1 DEF Settled, Terminal
      <3> QED BY <1>1, <1>3, <1>4, <3>1 DEF RunRowInv
    <2>3. run'[1].state # "absent"
      BY <1>1, <1>3 DEF InputInv, LedgerInv, RunInv
    <2> QED BY <2>1, <2>2, <2>3 DEF RunInv
  <1>6. WriterInv'
    <2>1. \A d \in Leases : (exec'[d].phase = "none" <=> ~Issued(d)')
      BY <1>1, <1>4 DEF InputInv, LedgerInv, WriterInv
    <2>2. \A d \in Leases : leases'[d].sealed => exec'[d].phase = "gone"
      BY <1>1 DEF InputInv, LedgerInv, WriterInv
    <2>3. \A d \in Leases : exec'[d].line # None => Serving(d)'
      BY <1>1 DEF InputInv, LedgerInv, WriterInv, Serving
    <2>4. \A d \in Leases : Writes(d)' => d = e /\ run'[RunAt(d)'].lease = d
      BY <1>1, <1>4
    <2>5. \A d, f \in Leases : d < f /\ Issued(f)' => Issued(d)'
      <3> SUFFICES ASSUME NEW d \in Leases, NEW f \in Leases, d < f, Issued(f)' PROVE Issued(d)'
        OBVIOUS
      <3>1. CASE f = e
        BY <1>1, <1>4, <3>1 DEF Leases
      <3>2. CASE f # e
        <4>1. Issued(d)
          BY <1>4, <3>2 DEF InputInv, LedgerInv, WriterInv
        <4> QED BY <1>4, <4>1
      <3> QED BY <3>1, <3>2
    <2> QED BY <2>1, <2>2, <2>3, <2>4, <2>5 DEF WriterInv
  <1>7. TailInv'
    <2>1. tail' = <<>>
      BY <1>1 DEF journal
    <2>2. DOMAIN tail' = {}
      BY <2>1
    <2> QED BY <2>1, <2>2 DEF TailInv
  <1> QED BY <1>2, <1>5, <1>6, <1>7 DEF LedgerInv

\* The writer whose records the Projector applies, and what the next one does to its rows.
Projects(e, r, c) ==
  /\ Writes(e) /\ r \in Runs /\ RunAt(e) = r /\ RunAt(e)' = r /\ run[r].lease = e
  /\ c \in Record /\ c = tail[1] /\ 1 \in DOMAIN tail /\ view' = Applied(view, c) /\ tail' = Tail(tail)
  /\ UNCHANGED <<exec, native, lock, attempt, op, calls, upload, returned>>
  /\ run' \in [Runs -> RunRow] /\ leases' \in [Leases -> [run : 0..NumRuns, sealed : BOOLEAN]]
  /\ \A s \in Runs : s # r => run'[s] = run[s]
  /\ \A d \in Leases : d # e => leases'[d] = leases[d]
  /\ leases'[e].run = leases[e].run /\ run'[r].key = run[r].key
  /\ UNCHANGED rows \/ (Ends(c) /\ exec[e].phase = "gone" /\ lock = None)
  /\ run'[r].state # "absent"
  /\ Settled(r) => run'[r].state = run[r].state /\ run'[r].lease = e
  /\ run[r].sealed => run'[r].sealed
  /\ run[r].recovering => Ends(c) \/ run'[r].recovering
  /\ leases'[e].sealed => Tail(tail) = <<>>
  /\ ~leases'[e].sealed =>
       /\ run'[r].lease = e /\ (run[r].sealing => run'[r].sealing)
       /\ run'[r].sealed => \A n \in DOMAIN tail : n > 1 => tail[n].kind = "seal"
  /\ RunRowInv(r)'

\* The Projector applies a record of the one writer.
LEMMA ProjectFacts ==
  ASSUME InputInv, Project
  PROVE  \E e \in Leases, r \in Runs, c \in Record : Projects(e, r, c)
  <1>1. PICK e \in Leases : Writes(e)
    BY DEF Project, InputInv, LedgerInv, TailInv
  <1>2. PICK r \in Runs : r = RunAt(e)
    BY <1>1, Rows DEF InputInv, Writes
  <1>3. World /\ tail # <<>> /\ tail \in Seq(Record)
    BY WorldTyped DEF Project, World
  <1>4. PICK c \in Record : c = Head(tail) /\ c = tail[1] /\ 1 \in DOMAIN tail
    BY <1>3, TailMeans
  <1>5. /\ run[r].lease = e /\ RunRowInv(r) /\ run[r] \in RunRow /\ ~leases[e].sealed /\ leases[e].run = r
        /\ leases[e] \in [run : 0..NumRuns, sealed : BOOLEAN]
        /\ run[r].state \in {"running"} \cup Terminal /\ e # 0 /\ RunAt(e) = r
    <2>1. run[r].lease = e /\ ~leases[e].sealed
      BY <1>1, <1>2 DEF InputInv, LedgerInv, WriterInv, Writes
    <2>2. RunRowInv(r) /\ run[r] \in RunRow /\ e # 0 /\ leases[e] \in [run : 0..NumRuns, sealed : BOOLEAN]
      BY RowOf, Rows DEF InputInv
    <2>3. run[r].state \in {"running"} \cup Terminal
      BY <2>1, <2>2 DEF RunRowInv, RunRow
    <2> QED BY <1>2, <2>1, <2>2, <2>3 DEF RunAt
  <1>6. /\ view' = Applied(view, c) /\ tail' = Tail(tail)
        /\ UNCHANGED <<exec, native, lock, attempt, op, calls, upload, returned>>
        /\ c.kind = "finish" => FinishProjected(c)
        /\ c.kind = "seal" => SealProjected(c)
        /\ ~Ends(c) => UNCHANGED rows
    BY <1>4 DEF Project, Ends
  <1>7. /\ Ends(c) => c.lease = e /\ exec[e].phase = "gone"
        /\ c.kind = "seal" => run[r].sealing
        /\ Ends(c) => \A n \in DOMAIN tail : n > 1 => tail[n].kind = "seal"
        /\ c.kind = "seal" => \A n \in DOMAIN tail : n <= 1
        /\ \A n \in DOMAIN tail : tail[n].kind = "seal" => run[r].sealing
        /\ run[r].sealed => c.kind = "seal"
    BY <1>1, <1>2, <1>4 DEF InputInv, LedgerInv, TailInv
  <1>8. c.kind = "seal" => Tail(tail) = <<>>
    BY <1>3, <1>7, TailMeans
  <1>9. c.kind = "finish" /\ ~run[r].sealing => Tail(tail) = <<>>
    <2> SUFFICES ASSUME c.kind = "finish", ~run[r].sealing PROVE Tail(tail) = <<>>
      OBVIOUS
    <2>1. \A n \in DOMAIN tail : ~(n > 1)
      BY <1>7 DEF Ends
    <2>2. \A n \in DOMAIN tail : n <= 1
      BY <1>3, <2>1, TailMeans
    <2> QED BY <1>3, <2>2, TailMeans
  <1>10. /\ \A x \in RunRow : run' = [run EXCEPT ![r] = x] =>
              /\ run' \in [Runs -> RunRow] /\ run'[r] = x
              /\ \A s \in Runs : s # r => run'[s] = run[s]
         /\ \A b \in BOOLEAN : leases' = [leases EXCEPT ![e].sealed = b] =>
              /\ leases' \in [Leases -> [run : 0..NumRuns, sealed : BOOLEAN]]
              /\ leases'[e].sealed = b /\ leases'[e].run = r
              /\ \A d \in Leases : d # e => leases'[d] = leases[d]
    <2>1. leases \in [Leases -> [run : 0..NumRuns, sealed : BOOLEAN]]
      BY <1>3 DEF World
    <2>2. \A b \in BOOLEAN : [leases[e] EXCEPT !.sealed = b] \in [run : 0..NumRuns, sealed : BOOLEAN]
            /\ [leases[e] EXCEPT !.sealed = b].sealed = b /\ [leases[e] EXCEPT !.sealed = b].run = r
      BY <1>5
    <2> QED BY <1>5, <2>1, <2>2, RunMeans
  <1>11. CASE ~Ends(c)
    <2>1. UNCHANGED <<run, leases>>
      BY <1>6, <1>11 DEF rows
    <2>2. RunRowInv(r)' /\ RunAt(e)' = r
      BY <1>5, <1>6, <2>1 DEF RunRowInv, Settled, Writes, Issued, RunAt
    <2>3. run' \in [Runs -> RunRow] /\ leases' \in [Leases -> [run : 0..NumRuns, sealed : BOOLEAN]]
      BY <1>3, <2>1 DEF World
    <2>4. run[r].sealed => \A n \in DOMAIN tail : n > 1 => tail[n].kind = "seal"
      BY <1>7, <1>11 DEF Ends
    <2> QED BY <1>1, <1>2, <1>4, <1>5, <1>6, <1>11, <2>1, <2>2, <2>3, <2>4 DEF Projects, Terminal
  <1>12. CASE c.kind = "finish" /\ Settled(r)
    <2> DEFINE x == [run[r] EXCEPT !.released = TRUE]
    <2>1. /\ x \in RunRow /\ x.state = run[r].state /\ x.lease = e /\ x.key = run[r].key
          /\ x.sealed = run[r].sealed /\ x.sealing = run[r].sealing /\ x.recovering = run[r].recovering
          /\ x.released
      BY <1>5 DEF RunRow
    <2>2. run' = [run EXCEPT ![r] = x] /\ UNCHANGED leases /\ lock = None /\ Ends(c)
      BY <1>3, <1>5, <1>6, <1>7, <1>12 DEF FinishProjected, Ends, World
    <2> HIDE DEF x
    <2>3. run' \in [Runs -> RunRow] /\ run'[r] = x /\ \A s \in Runs : s # r => run'[s] = run[s]
      BY <1>10, <2>1, <2>2
    <2>4. \A d : RunAt(d)' = RunAt(d) /\ Writes(d)' = Writes(d)
      BY <2>2 DEF RunAt, Writes, Issued
    <2>5. RunRowInv(r)'
      BY <1>5, <1>6, <2>1, <2>3, <2>4 DEF RunRowInv, Settled
    <2>6. run[r].state # "absent"
      BY <1>12 DEF Settled, Terminal
    <2>7. run[r].sealed => \A n \in DOMAIN tail : n > 1 => tail[n].kind = "seal"
      BY <1>7, <1>12
    <2>9. RunAt(e)' = r
      BY <1>5, <2>2 DEF RunAt
    <2>8. leases'[e] = leases[e] /\ leases' \in [Leases -> [run : 0..NumRuns, sealed : BOOLEAN]]
      BY <1>3, <2>2 DEF World
    <2> QED BY <1>1, <1>2, <1>4, <1>5, <1>6, <1>7, <2>1, <2>2, <2>3, <2>4, <2>5, <2>6, <2>7, <2>8, <2>9 DEF Projects
  <1>13. CASE c.kind = "finish" /\ ~Settled(r)
    <2> DEFINE stop == IF run[r].stop = "active" THEN "done" ELSE run[r].stop
               x == [run[r] EXCEPT !.state = c.outcome, !.sealed = TRUE, !.released = TRUE,
                                   !.recovering = FALSE, !.stop = stop]
    <2>1. /\ x \in RunRow /\ x.state \in Terminal /\ x.lease = e /\ x.key = run[r].key
          /\ x.sealed /\ x.sealing = run[r].sealing /\ ~x.recovering
      <3>1. c.outcome \in Terminal
        BY <1>13, RecordMeans DEF Terminal
      <3>2. stop \in {"none", "active", "refused", "done"}
        BY <1>5 DEF RunRow
      <3> HIDE DEF stop
      <3> QED BY <1>5, <3>1, <3>2 DEF RunRow
    <2>2. /\ run' = [run EXCEPT ![r] = x] /\ leases' = [leases EXCEPT ![e].sealed = ~run[r].sealing]
          /\ lock = None /\ Ends(c)
      BY <1>3, <1>5, <1>6, <1>7, <1>13 DEF FinishProjected, Ends, World
    <2> HIDE DEF x
    <2>3. run' \in [Runs -> RunRow] /\ run'[r] = x /\ \A s \in Runs : s # r => run'[s] = run[s]
      BY <1>10, <2>1, <2>2
    <2>4. (~run[r].sealing) \in BOOLEAN
      OBVIOUS
    <2>5. /\ leases' \in [Leases -> [run : 0..NumRuns, sealed : BOOLEAN]]
          /\ leases'[e].sealed = ~run[r].sealing /\ leases'[e].run = r
          /\ \A d \in Leases : d # e => leases'[d] = leases[d]
      BY <1>10, <2>2, <2>4
    <2>6. x.state \notin {"absent", "queued", "running"}
      BY <2>1 DEF Terminal
    <2>7. RunRowInv(r)'
      BY <1>5, <1>6, <1>7, <2>1, <2>2, <2>3, <2>5, <2>6 DEF RunRowInv, Settled, RunAt
    <2>8. RunAt(e)' = r
      BY <2>5 DEF RunAt
    <2>9. \A n \in DOMAIN tail : n > 1 => tail[n].kind = "seal"
      BY <1>7, <2>2
    <2>10. leases'[e].sealed => Tail(tail) = <<>>
      BY <1>9, <1>13, <2>5
    <2> QED BY <1>1, <1>2, <1>4, <1>5, <1>6, <1>7, <1>13, <2>1, <2>2, <2>3, <2>5, <2>6,
              <2>7, <2>8, <2>9, <2>10, SMTT(30) DEF Projects
  <1>14. CASE c.kind = "seal" /\ Settled(r)
    <2> DEFINE x == [run[r] EXCEPT !.sealed = TRUE]
    <2>1. /\ x \in RunRow /\ x.state = run[r].state /\ x.lease = e /\ x.key = run[r].key
          /\ x.sealed /\ x.sealing = run[r].sealing /\ x.recovering = run[r].recovering
      BY <1>5 DEF RunRow
    <2>2. /\ run' = [run EXCEPT ![r] = x] /\ leases' = [leases EXCEPT ![e].sealed = TRUE]
          /\ lock = None /\ Ends(c)
      BY <1>3, <1>5, <1>6, <1>7, <1>14 DEF SealProjected, Ends, World
    <2> HIDE DEF x
    <2>3. run' \in [Runs -> RunRow] /\ run'[r] = x /\ \A s \in Runs : s # r => run'[s] = run[s]
      BY <1>10, <2>1, <2>2
    <2>5. /\ leases' \in [Leases -> [run : 0..NumRuns, sealed : BOOLEAN]]
          /\ leases'[e].sealed = TRUE /\ leases'[e].run = r
          /\ \A d \in Leases : d # e => leases'[d] = leases[d]
      BY <1>10, <2>2
    <2>6. run[r].state \notin {"absent", "queued", "running"}
      BY <1>14 DEF Settled, Terminal
    <2>7. RunRowInv(r)'
      BY <1>5, <1>6, <1>7, <2>1, <2>2, <2>3, <2>5, <2>6, <1>14 DEF RunRowInv, Settled, RunAt
    <2>8. RunAt(e)' = r
      BY <2>5 DEF RunAt
    <2> QED BY <1>1, <1>2, <1>4, <1>5, <1>6, <1>7, <1>8, <1>14, <2>1, <2>2, <2>3, <2>5, <2>6, <2>7, <2>8 DEF Projects
  <1>15. CASE c.kind = "seal" /\ ~Settled(r)
    <2> DEFINE x == [run[r] EXCEPT !.state = "queued", !.lease = 0, !.released = FALSE, !.sealing = FALSE]
    <2>1. /\ x \in RunRow /\ x.state = "queued" /\ x.lease = 0 /\ x.key = run[r].key
          /\ x.sealed = run[r].sealed /\ ~x.sealing /\ x.recovering = run[r].recovering
      <3>1. 0 \in 0..MaxLease
        BY InputsAssumption
      <3> QED BY <1>5, <3>1 DEF RunRow
    <2>2. /\ run' = [run EXCEPT ![r] = x] /\ leases' = [leases EXCEPT ![e].sealed = TRUE]
          /\ lock = None /\ Ends(c)
      BY <1>3, <1>5, <1>6, <1>7, <1>15 DEF SealProjected, Ends, World
    <2> HIDE DEF x
    <2>3. run' \in [Runs -> RunRow] /\ run'[r] = x /\ \A s \in Runs : s # r => run'[s] = run[s]
      BY <1>10, <2>1, <2>2
    <2>4. ~run[r].sealed
      BY <1>5, <1>15 DEF RunRowInv
    <2>5. /\ leases' \in [Leases -> [run : 0..NumRuns, sealed : BOOLEAN]]
          /\ leases'[e].sealed = TRUE /\ leases'[e].run = r
          /\ \A d \in Leases : d # e => leases'[d] = leases[d]
      BY <1>10, <2>2
    <2>7. RunRowInv(r)'
      <3>1. \E d \in Leases : RunAt(d)' = r
        BY <2>5 DEF RunAt
      <3> QED BY <2>1, <2>3, <2>4, <3>1 DEF RunRowInv, Settled, Terminal
    <2>8. RunAt(e)' = r
      BY <2>5 DEF RunAt
    <2> QED BY <1>1, <1>2, <1>4, <1>5, <1>6, <1>7, <1>8, <1>15, <2>1, <2>2, <2>3, <2>4, <2>5, <2>7, <2>8 DEF Projects
  <1> QED BY <1>11, <1>12, <1>13, <1>14, <1>15 DEF Ends

\* The ledger after a projection.
LEMMA ProjectLedger ==
  ASSUME InputInv, NEW e \in Leases, NEW r \in Runs, NEW c \in Record, Projects(e, r, c)
  PROVE  World' /\ LedgerInv'
  <1>0. World /\ tail # <<>> /\ tail \in Seq(Record) /\ 0 \notin Runs
    <2>1. World /\ tail \in Seq(Record) /\ 1 \in DOMAIN tail /\ 0 \notin Runs
      BY WorldTyped, Rows DEF World, Projects, InputInv
    <2> QED BY <2>1
  <1>1. /\ Tail(tail) \in Seq(Record) /\ c = tail[1]
        /\ DOMAIN tail \subseteq Nat /\ DOMAIN Tail(tail) \subseteq Nat
        /\ \A n \in DOMAIN Tail(tail) : n + 1 \in DOMAIN tail /\ Tail(tail)[n] = tail[n + 1] /\ n + 1 > 1
    BY <1>0, TailMeans DEF Projects
  <1>2. World'
    <2>1. view' \in State
      BY <1>0, AppliedMeans DEF World, Projects
    <2> QED BY <1>0, <1>1, <2>1 DEF World, Projects
  <1>3. /\ \A d \in Leases : RunAt(d)' = RunAt(d) /\ (Issued(d)' <=> Issued(d))
        /\ \A d \in Leases : Writes(d)' => d = e /\ ~leases'[e].sealed
        /\ \A d \in Leases : leases'[d].sealed => leases[d].sealed \/ (d = e /\ Ends(c) /\ exec[e].phase = "gone")
        /\ \A d \in Leases : ~leases'[d].sealed => ~leases[d].sealed
        /\ UNCHANGED exec /\ UNCHANGED native
    <2>1. \A d \in Leases : leases'[d].run = leases[d].run
      BY DEF Projects
    <2>2. \A d \in Leases : RunAt(d)' = RunAt(d) /\ (Issued(d)' <=> Issued(d))
      BY <2>1 DEF RunAt, Issued
    <2>3. ~leases[e].sealed
      BY DEF Projects, Writes
    <2>4. \A d \in Leases : d # e => leases'[d] = leases[d] /\ ~Writes(d)
      BY DEF Projects, InputInv, LedgerInv, WriterInv
    <2>5. leases'[e].sealed => leases[e].sealed \/ (Ends(c) /\ exec[e].phase = "gone")
      BY DEF Projects, rows
    <2> QED BY <2>2, <2>3, <2>4, <2>5 DEF Projects, Writes
  <1>4. RunInv'
    <2>1. ASSUME NEW s \in Runs, s # r PROVE RunRowInv(s)'
      <3>1. run'[s] = run[s] /\ RunRowInv(s) /\ (run[s].lease # 0 => run[s].lease \in Leases)
        BY <2>1, RowOf DEF Projects
      <3>2. run[s].lease # 0 => run[s].lease # e
        BY <2>1, <3>1 DEF RunRowInv, Projects
      <3>3. run[s].lease # 0 =>
              RunAt(run[s].lease)' = RunAt(run[s].lease) /\ (Writes(run[s].lease)' <=> Writes(run[s].lease))
        BY <3>1, <3>2, <1>3 DEF Projects, Writes
      <3>4. run[s].recovering => \E d \in Leases : RunAt(d)' = s
        BY <1>3, <3>1 DEF RunRowInv
      <3> QED BY <1>3, <3>1, <3>3, <3>4 DEF RunRowInv, Settled
    <2>2. run'[1].state # "absent"
      BY Rows DEF InputInv, LedgerInv, RunInv, Projects
    <2> QED BY <2>1, <2>2 DEF RunInv, Projects
  <1>5. WriterInv'
    <2>1. \A d \in Leases : Writes(d)' => d = e /\ run'[RunAt(d)'].lease = d
      BY <1>3 DEF Projects
    <2>2. \A d \in Leases : leases'[d].sealed => exec'[d].phase = "gone"
      BY <1>3 DEF InputInv, LedgerInv, WriterInv
    <2>3. \A d, f \in Leases : d < f /\ Issued(f)' => Issued(d)'
      BY <1>3 DEF InputInv, LedgerInv, WriterInv
    <2>4. \A d \in Leases : (exec'[d].phase = "none" <=> ~Issued(d)') /\ (exec'[d].line # None => Serving(d)')
      BY <1>3 DEF InputInv, LedgerInv, WriterInv, Serving
    <2> QED BY <2>1, <2>2, <2>3, <2>4 DEF WriterInv
  <1>6. TailInv'
    <2>1. CASE leases'[e].sealed
      <3>1. tail' = <<>>
        BY <2>1 DEF Projects
      <3>2. DOMAIN tail' = {}
        BY <3>1
      <3> QED BY <3>1, <3>2 DEF TailInv
    <2>2. CASE ~leases'[e].sealed
      <3>1. tail' = Tail(tail) /\ Writes(e) /\ RunAt(e) = r /\ RunAt(e)' = r
        BY DEF Projects
      <3>2. \E d \in Leases : Writes(d)'
        BY <1>3, <2>2, <3>1 DEF Writes
      <3>3. \A d \in Leases : Writes(d)' => d = e
        BY <1>3
      <3>4. ASSUME NEW n \in DOMAIN tail'
            PROVE  /\ tail'[n].kind \in {"meta", "submit", "edit", "withdraw"} => tail'[n].run = RunAt(e)'
                   /\ tail'[n].kind \in {"submit", "edit", "withdraw", "consume"}
                        => native'.sub[tail'[n].key].run = RunAt(e)'
                   /\ Ends(tail'[n]) => tail'[n].lease = e /\ exec'[e].phase = "gone"
                   /\ tail'[n].kind = "seal" => run'[RunAt(e)'].sealing
                   /\ run'[RunAt(e)'].sealed => tail'[n].kind = "seal"
        <4>1. n + 1 \in DOMAIN tail /\ tail'[n] = tail[n + 1] /\ n + 1 > 1
          BY <1>1, <3>1
        <4>2. PICK m \in DOMAIN tail : tail'[n] = tail[m] /\ m > 1
          BY <4>1
        <4>3. run[r].sealing => run'[r].sealing
          BY <2>2 DEF Projects
        <4>4. run'[r].sealed => tail[m].kind = "seal"
          BY <2>2, <4>2 DEF Projects
        <4> QED BY <1>3, <3>1, <4>2, <4>3, <4>4 DEF InputInv, LedgerInv, TailInv
      <3>5. ASSUME NEW n \in DOMAIN tail', NEW m \in DOMAIN tail'
            PROVE  /\ n < m /\ Ends(tail'[n]) => tail'[m].kind = "seal"
                   /\ tail'[n].kind = "seal" => m <= n
        <4>1. /\ n + 1 \in DOMAIN tail /\ tail'[n] = tail[n + 1] /\ n \in Nat
              /\ m + 1 \in DOMAIN tail /\ tail'[m] = tail[m + 1] /\ m \in Nat
          BY <1>1, <3>1
        <4>2. PICK n1, m1 \in DOMAIN tail : n1 = n + 1 /\ m1 = m + 1
          BY <4>1
        <4>3. /\ n1 < m1 /\ Ends(tail[n1]) => tail[m1].kind = "seal"
              /\ tail[n1].kind = "seal" => m1 <= n1
          BY DEF InputInv, LedgerInv, TailInv
        <4> QED BY <4>1, <4>2, <4>3
      <3> QED BY <3>2, <3>3, <3>4, <3>5 DEF TailInv, Ends
    <2> QED BY <2>1, <2>2
  <1> QED BY <1>2, <1>4, <1>5, <1>6 DEF LedgerInv

\* Nothing of rows, executions and log changes.
Rests == UNCHANGED <<rows, exec, journal>>

\* The requests, and what they hold.
requests == <<lock, attempt, op, calls, upload, returned>>

\* What a step is.
Kinds ==
  \/ \E e \in Leases : Acts(e)
  \/ \E r \in Runs : RowMoves(r)
  \/ \E r \in Runs, e \in Leases : Claim(r, e)
  \/ \E e \in Leases, r \in Runs, c \in Record : Projects(e, r, c)
  \/ Rests

\* A step of the system that no request sees.
Background ==
  /\ UNCHANGED requests
  /\ \/ \E e \in Leases : Works(e)
     \/ \E r \in Runs : Rewrites(r)
     \/ \E r \in Runs, e \in Leases : Claim(r, e)
     \/ \E e \in Leases, r \in Runs, c \in Record : Projects(e, r, c)
     \/ Rests

\* The steps that requests see.
Foreground ==
  \/ \E i \in Attempts, k \in Keys : Begin(i, k)
  \/ \E i \in Attempts : AcceptInitial(i) \/ Admit(i) \/ Refuse(i) \/ Send(i) \/ Receive(i)
                         \/ Timeout(i) \/ ReconcilePin(i)
  \/ \E o \in Ops, k \in Keys, kind \in {"edit", "withdraw"} : Change(o, k, kind)
  \/ \E o \in Ops : SendChange(o)
  \/ \E e \in Leases, i \in Attempts : StartInput(e, i)
  \/ \E e \in Leases : Submit(e) \/ PrepareFails(e)
  \/ \E e \in Leases, o \in Ops : Mutate(e, o)
  \/ \E e \in Leases, c \in Attempts \cup Ops : NoTarget(c, e)
  \/ \E r \in Runs : ReadBatch(r)
  \/ \E k \in Uploads : Reap(k)

\* Every step is one or the other.
LEMMA StepSeen ==
  ASSUME InputInv, [Next]_vars
  PROVE  Background \/ Foreground
  <1>1. CASE UNCHANGED vars
    BY <1>1 DEF vars, Background, requests, Rests, rows, journal
  <1>2. CASE Next
    <2>1. ASSUME NEW e \in Leases, Open(e) \/ (\E k \in Keys : Consume(e, k)) \/ Abort(e) \/ Finish(e) \/ Seal(e)
          PROVE  Background
      <3>1. UNCHANGED requests
        BY <2>1 DEF requests, Open, Consume, Abort, Finish, Seal
      <3>2. Works(e)
        BY <2>1, OpenWorks, ConsumeWorks, AbortWorks, FinishWorks, SealWorks
      <3> QED BY <3>1, <3>2 DEF Background
    <2>2. ASSUME NEW e \in Leases, WorkDone(e) \/ SeeIdle(e) \/ End(e) \/ StopArrives(e) \/ Crash(e)
          PROVE  Background
      <3>1. UNCHANGED requests
        BY <2>2 DEF requests, WorkDone, SeeIdle, End, StopArrives, Crash
      <3>2. Works(e)
        BY <2>2, SilentWorks
      <3> QED BY <3>1, <3>2 DEF Background
    <2>3. ASSUME NEW r \in Runs, CancelInitial(r) \/ AcceptStop(r) \/ RefuseStop(r) \/ Acknowledge(r)
          PROVE  Background
      <3>1. UNCHANGED requests
        BY <2>3 DEF requests, CancelInitial, AcceptStop, RefuseStop, Acknowledge, RowsOnly
      <3>2. Rewrites(r)
        BY <2>3, CancelInitialMoves, StopMoves
      <3> QED BY <3>1, <3>2 DEF Background
    <2>4. ASSUME NEW e \in Leases, GiveUp(e) \/ Fail(e)
          PROVE  Background
      <3>1. UNCHANGED requests
        BY <2>4 DEF requests, GiveUp, Fail, RowsOnly
      <3>2. RunAt(e) \in Runs /\ Rewrites(RunAt(e))
        BY <2>4, ReleaseMoves
      <3> QED BY <3>1, <3>2 DEF Background
    <2>5. ASSUME NEW r \in Runs, NEW e \in Leases, Claim(r, e)
          PROVE  Background
      <3>1. UNCHANGED requests
        BY <2>5 DEF requests, Claim
      <3> QED BY <2>5, <3>1 DEF Background
    <2>6. ASSUME Project PROVE Background
      <3>1. UNCHANGED requests
        BY <2>6 DEF requests, Project
      <3>2. \E e \in Leases, r \in Runs, c \in Record : Projects(e, r, c)
        BY <2>6, ProjectFacts
      <3> QED BY <3>1, <3>2 DEF Background
    <2>7. ASSUME NEW i \in Attempts, Admission(i) PROVE Foreground
      BY <2>7 DEF Admission, Foreground
    <2>8. ASSUME NEW e \in Leases, Line(e) PROVE Foreground
      BY <2>8 DEF Line, Foreground
    <2>9. ASSUME Changes PROVE Background \/ Foreground
      <3>1. CASE \E r \in Runs : CancelInitial(r)
        BY <2>3, <3>1
      <3>2. CASE \E o \in Ops, k \in Keys : Change(o, k, "edit") \/ Change(o, k, "withdraw")
        BY <3>2 DEF Foreground
      <3>3. CASE \E o \in Ops : SendChange(o)
        BY <3>3 DEF Foreground
      <3> QED BY <2>9, <3>1, <3>2, <3>3 DEF Changes
    <2>10. ASSUME NEW e \in Leases, Runner(e) PROVE Background
      BY <2>1, <2>2, <2>10 DEF Runner
    <2>11. ASSUME Lifecycle PROVE Background
      BY <2>1, <2>2, <2>3, <2>4, <2>5, <2>6, <2>11 DEF Lifecycle
    <2>12. ASSUME Upkeep PROVE Background \/ Foreground
      <3>1. CASE \E r \in Runs : Acknowledge(r)
        BY <2>3, <3>1
      <3>2. CASE \E r \in Runs : ReadBatch(r)
        BY <3>2 DEF Foreground
      <3>3. CASE \E i \in Attempts : ReconcilePin(i)
        BY <3>3 DEF Foreground
      <3>4. CASE \E k \in Uploads : Reap(k)
        BY <3>4 DEF Foreground
      <3> QED BY <2>12, <3>1, <3>2, <3>3, <3>4 DEF Upkeep
    <2> QED BY <1>2, <2>7, <2>8, <2>9, <2>10, <2>11, <2>12 DEF Next
  <1> QED BY <1>1, <1>2

\* Every step is of one kind.
LEMMA StepKinds ==
  ASSUME InputInv, [Next]_vars
  PROVE  Kinds
  <1>1. CASE Background
    BY <1>1 DEF Background, Kinds, Works, Rewrites
  <1>2. CASE Foreground
    <2>1. ASSUME NEW i \in Attempts, NEW k \in Keys, Begin(i, k) PROVE Rests
      BY <2>1 DEF Begin, Rests
    <2>2. ASSUME NEW i \in Attempts, Admit(i) \/ Refuse(i) \/ Send(i) \/ Receive(i) \/ Timeout(i) \/ ReconcilePin(i)
          PROVE  Rests
      BY <2>2 DEF Admit, Refuse, Send, Receive, Timeout, ReconcilePin, Rests
    <2>3. ASSUME NEW i \in Attempts, AcceptInitial(i) PROVE Kinds
      BY <2>3, AcceptInitialMoves DEF Kinds
    <2>4. ASSUME NEW o \in Ops, NEW k \in Keys, NEW kind \in {"edit", "withdraw"}, Change(o, k, kind)
          PROVE  Rests
      BY <2>4 DEF Change, Rests
    <2>5. ASSUME NEW o \in Ops, SendChange(o) PROVE Rests
      BY <2>5 DEF SendChange, Rests
    <2>6. ASSUME NEW e \in Leases, NEW i \in Attempts, StartInput(e, i) PROVE Kinds
      BY <2>6, StartInputActs DEF Kinds
    <2>7. ASSUME NEW e \in Leases, Submit(e) \/ PrepareFails(e) PROVE Kinds
      BY <2>7, SubmitActs, PrepareFailsWorks DEF Kinds, Works
    <2>8. ASSUME NEW e \in Leases, NEW o \in Ops, Mutate(e, o) PROVE Kinds
      BY <2>8, MutateWorks DEF Kinds, Works
    <2>9. ASSUME NEW e \in Leases, NEW c \in Attempts \cup Ops, NoTarget(c, e) PROVE Rests
      BY <2>9 DEF NoTarget, RunnerUnchanged, Rests, journal
    <2>10. ASSUME NEW r \in Runs, ReadBatch(r) PROVE Rests
      BY <2>10 DEF ReadBatch, Rests
    <2>11. ASSUME NEW k \in Uploads, Reap(k) PROVE Rests
      BY <2>11 DEF Reap, Rests
    <2> QED BY <1>2, <2>1, <2>2, <2>3, <2>4, <2>5, <2>6, <2>7, <2>8, <2>9, <2>10, <2>11 DEF Foreground, Kinds
  <1> QED BY <1>1, <1>2, StepSeen

\* The ledger is kept.
LEMMA LedgerStep ==
  ASSUME InputInv, [Next]_vars
  PROVE  World' /\ LedgerInv'
  BY StepKinds, ActsLedger, RowMovesLedger, ClaimLedger, ProjectLedger, RestLedger DEF Kinds, Rests

-----------------------------------------------------------------------------
(* The log and its projection.                                               *)

\* A log is not the log with a record more, nor with another.
LEMMA AppendDiffers ==
  ASSUME NEW s \in Seq(Record), NEW b \in Record, NEW c \in Record
  PROVE  Append(s, c) # s /\ (Append(s, b) = Append(s, c) => b = c)
  <1>1. Len(s) \in Nat /\ Len(Append(s, c)) = Len(s) + 1
    OBVIOUS
  <1>2. Append(s, b)[Len(s) + 1] = b /\ Append(s, c)[Len(s) + 1] = c
    BY AppendMeans
  <1> QED BY <1>1, <1>2

\* What becomes of Pi's state when a record is appended.
LEMMA AppendMeansNative ==
  ASSUME InputInv, NEW e \in Leases, NEW c \in Record, Issued(e), Committed(c), Content(e, c)
  PROVE  /\ native'.meta = native.meta \cup (IF c.kind = "meta" THEN {<<c.run, c.key>>} ELSE {})
         /\ \A k \in Keys :
              /\ native'.sub[k].run = IF c.kind = "submit" /\ c.key = k THEN c.run ELSE native.sub[k].run
              /\ native'.sub[k].status =
                   IF About(c, k) THEN After(c)
                   ELSE IF c.kind = "abort" /\ native.sub[k].status = "queued" THEN "aborted"
                   ELSE native.sub[k].status
              /\ (c.kind = "edit" /\ c.key = k) \/ native'.edits[k] = native.edits[k]
         /\ native' \in State /\ native \in State
         /\ c.kind \in {"edit", "withdraw", "consume"} =>
              c.key \in Keys /\ native.sub[c.key].status = "queued" /\ native.sub[c.key].run # 0
         /\ c.kind = "submit" =>
              /\ c.key \in Keys /\ native.sub[c.key].run = 0 /\ <<c.run, c.key>> \in native.meta
              /\ c.run = RunAt(e) /\ c.run # 0
  <1>1. native' = Applied(native, c) /\ native \in State
    BY WorldTyped DEF Committed, World
  <1>2. c.kind \in {"edit", "withdraw", "consume"} =>
              c.key \in Keys /\ native.sub[c.key].status = "queued" /\ native.sub[c.key].run # 0
    <2> HAVE c.kind \in {"edit", "withdraw", "consume"}
    <2>1. c.key \in Queued(native) /\ c.key \in Keys
      BY RecordMeans DEF Content
    <2>2. native.sub[c.key].status = "queued"
      BY <2>1 DEF Queued
    <2> QED BY <2>1, <2>2 DEF InputInv, JournalInv, NativeInv
  <1>3. c.kind = "submit" =>
              /\ c.key \in Keys /\ native.sub[c.key].run = 0 /\ <<c.run, c.key>> \in native.meta
              /\ c.run = RunAt(e) /\ c.run # 0
    BY RecordMeans, Rows DEF Content, InputInv
  <1> QED BY <1>1, <1>2, <1>3, AppliedMeans

\* Pi's queue after a step of an execution.
LEMMA ActsNative ==
  ASSUME InputInv, NEW e \in Leases, Acts(e)
  PROVE  NativeInv'
  <1>1. /\ \A d : RunAt(d)' = RunAt(d)
        /\ Issued(e) /\ \A d \in Leases : d # e => exec'[d] = exec[d]
    BY DEF Acts, rows, RunAt
  <1>2. /\ exec'[e].phase \in {"gated", "open", "ended"} =>
             /\ exec[e].phase \in {"opening", "gated", "open", "ended"}
             /\ exec[e].phase = "opening" =>
                  (\E c \in Record : c.kind = "abort" /\ Committed(c))
                  \/ (UNCHANGED journal /\ \A k \in Queued(native) : native.sub[k].run = RunAt(e))
    <2>1. exec[e].phase # "none" /\ exec[e] \in ExecRow
      BY <1>1, Rows DEF InputInv, LedgerInv, WriterInv
    <2> QED BY <2>1 DEF Acts, ExecRow, Phases
  <1>3. CASE UNCHANGED journal
    <2>1. native' = native /\ Queued(native') = Queued(native)
      BY <1>3 DEF journal
    <2>2. ASSUME NEW d \in Leases, exec'[d].phase \in {"gated", "open", "ended"}, NEW k \in Queued(native)
          PROVE  native.sub[k].run = RunAt(d)
      <3>1. CASE exec[d].phase \in {"gated", "open", "ended"}
        BY <3>1 DEF InputInv, JournalInv, NativeInv
      <3>2. CASE d = e /\ exec[e].phase = "opening"
        <4>1. ~(\E c \in Record : c.kind = "abort" /\ Committed(c))
          <5>1. ASSUME NEW c \in Record, Committed(c) PROVE FALSE
            <6>1. tail' = Append(tail, c) /\ tail' = tail /\ tail \in Seq(Record)
              BY <1>3, <5>1, WorldTyped DEF Committed, journal, World
            <6> QED BY <6>1, AppendDiffers
          <5> QED BY <5>1
        <4> QED BY <1>2, <2>2, <3>2, <4>1
      <3> QED BY <1>1, <1>2, <2>2, <3>1, <3>2
    <2> QED BY <1>1, <2>1, <2>2 DEF InputInv, JournalInv, NativeInv
  <1>4. CASE ~UNCHANGED journal
    <2>1. PICK c \in Record : Committed(c) /\ Content(e, c)
      BY <1>4 DEF Acts
    <2>2. /\ native'.meta = native.meta \cup (IF c.kind = "meta" THEN {<<c.run, c.key>>} ELSE {})
          /\ \A k \in Keys :
              /\ native'.sub[k].run = IF c.kind = "submit" /\ c.key = k THEN c.run ELSE native.sub[k].run
              /\ native'.sub[k].status =
                   IF About(c, k) THEN After(c)
                   ELSE IF c.kind = "abort" /\ native.sub[k].status = "queued" THEN "aborted"
                   ELSE native.sub[k].status
          /\ c.kind \in {"edit", "withdraw", "consume"} =>
              c.key \in Keys /\ native.sub[c.key].status = "queued" /\ native.sub[c.key].run # 0
          /\ c.kind = "submit" =>
              /\ c.key \in Keys /\ native.sub[c.key].run = 0 /\ <<c.run, c.key>> \in native.meta
              /\ c.run = RunAt(e) /\ c.run # 0
      BY <1>1, <2>1, AppendMeansNative
    <2>3. Writes(e) /\ \A d \in Leases : Writes(d) => d = e
      <3>1. Writes(e)
        BY <1>1, <2>1, AppendGrows
      <3> QED BY <3>1 DEF InputInv, LedgerInv, WriterInv
    <2>4. ASSUME NEW k \in Keys
          PROVE  /\ native'.sub[k].status = "none" <=> native'.sub[k].run = 0
                 /\ native'.sub[k].run # 0 => <<native'.sub[k].run, k>> \in native'.meta
      <3>1. /\ native.sub[k].status = "none" <=> native.sub[k].run = 0
            /\ native.sub[k].run # 0 => <<native.sub[k].run, k>> \in native.meta
        BY DEF InputInv, JournalInv, NativeInv
      <3>2. CASE About(c, k)
        <4>1. native'.sub[k].status = After(c) /\ After(c) # "none"
          BY <2>2, <3>2 DEF After
        <4> QED BY <2>2, <3>1, <3>2, <4>1 DEF About
      <3>3. CASE ~About(c, k)
        BY <2>2, <3>1, <3>3 DEF About
      <3> QED BY <3>2, <3>3
    <2>5. ASSUME NEW d \in Leases, exec'[d].phase \in {"gated", "open", "ended"},
                 NEW k \in Queued(native')
          PROVE  native'.sub[k].run = RunAt(d)
      <3>1. d = e
        <4>1. CASE d # e
          <5>1. Alive(d)
            BY <1>1, <2>5, <4>1 DEF Alive
          <5>2. Writes(d)
            BY <5>1, ServingAlive
          <5> QED BY <2>3, <5>2
        <4> QED BY <4>1
      <3>2. k \in Keys /\ native'.sub[k].status = "queued"
        BY DEF Queued
      <3>3. CASE c.kind = "submit" /\ c.key = k
        BY <2>2, <3>1, <3>2, <3>3
      <3>4. CASE ~(c.kind = "submit" /\ c.key = k)
        <4>1. native.sub[k].status = "queued" /\ c.kind # "abort" /\ native'.sub[k].run = native.sub[k].run
          <5>1. ~About(c, k)
            BY <2>2, <3>2, <3>4 DEF About, After
          <5> QED BY <2>2, <3>2, <3>4, <5>1
        <4>2. k \in Queued(native)
          BY <3>2, <4>1 DEF Queued
        <4>3. CASE exec[e].phase = "opening"
          <5>1. \E b \in Record : b.kind = "abort" /\ Committed(b)
            BY <1>2, <1>4, <2>5, <3>1, <4>3
          <5>2. PICK b \in Record : b.kind = "abort" /\ Committed(b)
            BY <5>1
          <5>3. b = c
            <6>1. tail' = Append(tail, b) /\ tail' = Append(tail, c) /\ tail \in Seq(Record)
              BY <2>1, <5>2, WorldTyped DEF Committed, World
            <6> QED BY <6>1, AppendDiffers
          <5> QED BY <4>1, <5>2, <5>3
        <4>4. CASE exec[e].phase \in {"gated", "open", "ended"}
          BY <3>1, <4>1, <4>2, <4>4 DEF InputInv, JournalInv, NativeInv
        <4> QED BY <1>2, <2>5, <3>1, <4>3, <4>4
      <3> QED BY <3>3, <3>4
    <2> QED BY <1>1, <2>4, <2>5 DEF NativeInv
  <1> QED BY <1>3, <1>4

\* Pi's queue after the other steps.
LEMMA StillNative ==
  ASSUME InputInv, UNCHANGED native,
         \A e \in Leases : exec'[e].phase \in {"gated", "open", "ended"} =>
           exec'[e] = exec[e] /\ RunAt(e)' = RunAt(e)
  PROVE  NativeInv'
  BY DEF InputInv, JournalInv, NativeInv

\* The authoritative Session is what its open writers wrote, and every step keeps it so.
LEMMA NativeStep ==
  ASSUME InputInv, [Next]_vars
  PROVE  NativeInv'
  <1>1. CASE Rests
    BY <1>1, StillNative DEF Rests, journal, rows, RunAt
  <1>2. ASSUME NEW r \in Runs, RowMoves(r) PROVE NativeInv'
    BY <1>2, StillNative DEF RowMoves, journal, RunAt
  <1>3. ASSUME NEW r \in Runs, NEW e \in Leases, Claim(r, e) PROVE NativeInv'
    <2>1. /\ exec'[e].phase = "opening" /\ UNCHANGED journal
          /\ \A d \in Leases : d # e => leases'[d] = leases[d] /\ exec'[d] = exec[d]
      BY <1>3, ClaimFacts
    <2> QED BY <2>1, StillNative DEF journal, RunAt
  <1>4. ASSUME NEW e \in Leases, NEW r \in Runs, NEW c \in Record, Projects(e, r, c) PROVE NativeInv'
    <2>1. \A d \in Leases : leases'[d].run = leases[d].run
      BY <1>4 DEF Projects
    <2>2. UNCHANGED <<native, exec>>
      BY <1>4 DEF Projects
    <2> QED BY <2>1, <2>2, StillNative DEF RunAt
  <1> QED BY <1>1, <1>2, <1>3, <1>4, StepKinds, ActsNative DEF Kinds

\* What the projection lacks after a step of an execution.
LEMMA ActsView ==
  ASSUME InputInv, NEW e \in Leases, Acts(e)
  PROVE  ViewInv'
  <1>1. CASE UNCHANGED journal
    BY <1>1 DEF InputInv, JournalInv, ViewInv, journal
  <1>2. CASE ~UNCHANGED journal
    <2>0. Issued(e)
      BY DEF Acts
    <2>1. PICK c \in Record : Committed(c) /\ Content(e, c)
      BY <1>2 DEF Acts
    <2>2. /\ native'.meta = native.meta \cup (IF c.kind = "meta" THEN {<<c.run, c.key>>} ELSE {})
          /\ \A k \in Keys :
              /\ native'.sub[k].run = IF c.kind = "submit" /\ c.key = k THEN c.run ELSE native.sub[k].run
              /\ native'.sub[k].status =
                   IF About(c, k) THEN After(c)
                   ELSE IF c.kind = "abort" /\ native.sub[k].status = "queued" THEN "aborted"
                   ELSE native.sub[k].status
          /\ c.kind \in {"edit", "withdraw", "consume"} =>
              c.key \in Keys /\ native.sub[c.key].status = "queued" /\ native.sub[c.key].run # 0
          /\ c.kind = "submit" =>
              /\ c.key \in Keys /\ native.sub[c.key].run = 0 /\ <<c.run, c.key>> \in native.meta
              /\ c.run = RunAt(e) /\ c.run # 0
      BY <2>0, <2>1, AppendMeansNative
    <2>3. tail' = Append(tail, c) /\ tail \in Seq(Record) /\ UNCHANGED view /\ Len(tail) \in Nat
      BY <2>0, <2>1, AppendGrows
    <2> DEFINE z == Len(tail) + 1
    <2>4. /\ \A n \in DOMAIN tail : n \in DOMAIN tail' /\ tail'[n] = tail[n] /\ n < z
          /\ \A n \in DOMAIN tail' : n \in DOMAIN tail \/ n = z
          /\ tail'[z] = c /\ z \in DOMAIN tail' /\ z \in Nat /\ DOMAIN tail \subseteq Nat
      BY <2>3, AppendMeans
    <2> HIDE DEF z
    <2>5. ASSUME NEW p \in native'.meta
          PROVE  p \in view.meta \/ \E n \in DOMAIN tail' : tail'[n].kind = "meta" /\ p = <<tail'[n].run, tail'[n].key>>
      <3>1. CASE p \in native.meta
        BY <2>4, <3>1 DEF InputInv, JournalInv, ViewInv
      <3>2. CASE p \notin native.meta
        BY <2>2, <2>4, <3>2
      <3> QED BY <3>1, <3>2
    <2>6. ASSUME NEW k \in Keys
          PROVE  /\ view.sub[k].run \in {0, native'.sub[k].run}
                 /\ view.sub[k].run = 0 => view.sub[k].status = "none"
                 /\ view.sub[k].run # native'.sub[k].run =>
                      \E n \in DOMAIN tail' : tail'[n].kind = "submit" /\ tail'[n].key = k
                 /\ (\A n \in DOMAIN tail' : ~About(tail'[n], k))
                      => Kind(view.sub[k].status) = Kind(native'.sub[k].status)
                 /\ \A n \in DOMAIN tail' :
                      /\ About(tail'[n], k) /\ (\A m \in DOMAIN tail' : m > n => ~About(tail'[m], k))
                           => Kind(native'.sub[k].status) = After(tail'[n])
                      /\ tail'[n].kind \in {"consume", "withdraw"} /\ tail'[n].key = k /\ view.sub[k].run = 0
                           => \E m \in DOMAIN tail' : m < n /\ tail'[m].kind = "submit" /\ tail'[m].key = k
      <3>1. /\ view.sub[k].run \in {0, native.sub[k].run}
            /\ view.sub[k].run = 0 => view.sub[k].status = "none"
            /\ view.sub[k].run # native.sub[k].run =>
                 \E n \in DOMAIN tail : tail[n].kind = "submit" /\ tail[n].key = k
            /\ (\A n \in DOMAIN tail : ~About(tail[n], k))
                 => Kind(view.sub[k].status) = Kind(native.sub[k].status)
            /\ \A n \in DOMAIN tail :
                 /\ About(tail[n], k) /\ (\A m \in DOMAIN tail : m > n => ~About(tail[m], k))
                      => Kind(native.sub[k].status) = After(tail[n])
                 /\ tail[n].kind \in {"consume", "withdraw"} /\ tail[n].key = k /\ view.sub[k].run = 0
                      => \E m \in DOMAIN tail : m < n /\ tail[m].kind = "submit" /\ tail[m].key = k
        BY DEF InputInv, JournalInv, ViewInv
      <3>2. view.sub[k].run \in {0, native'.sub[k].run}
        BY <2>2, <3>1
      <3>3. view.sub[k].run # native'.sub[k].run =>
              \E n \in DOMAIN tail' : tail'[n].kind = "submit" /\ tail'[n].key = k
        <4>1. CASE c.kind = "submit" /\ c.key = k
          BY <2>4, <4>1
        <4>2. CASE ~(c.kind = "submit" /\ c.key = k)
          BY <2>2, <2>4, <3>1, <4>2
        <4> QED BY <4>1, <4>2
      <3>4. ~About(c, k) => Kind(native'.sub[k].status) = Kind(native.sub[k].status)
        BY <2>2 DEF Kind
      <3>5. About(c, k) => Kind(native'.sub[k].status) = After(c)
        <4> HAVE About(c, k)
        <4>1. native'.sub[k].status = After(c) /\ After(c) # "aborted"
          BY <2>2 DEF After
        <4> QED BY <4>1 DEF Kind
      <3>6. (\A n \in DOMAIN tail' : ~About(tail'[n], k))
              => Kind(view.sub[k].status) = Kind(native'.sub[k].status)
        <4> HAVE \A n \in DOMAIN tail' : ~About(tail'[n], k)
        <4>1. ~About(c, k)
          BY <2>4
        <4>2. \A n \in DOMAIN tail : ~About(tail[n], k)
          BY <2>4
        <4> QED BY <3>1, <3>4, <4>1, <4>2
      <3>7. ASSUME NEW n \in DOMAIN tail', About(tail'[n], k), \A m \in DOMAIN tail' : m > n => ~About(tail'[m], k)
            PROVE  Kind(native'.sub[k].status) = After(tail'[n])
        <4>1. CASE n = z
          BY <2>4, <3>5, <3>7, <4>1
        <4>2. CASE n \in DOMAIN tail
          <5>1. ~About(c, k)
            <6>1. z > n
              BY <2>4, <4>2
            <6> QED BY <2>4, <3>7, <6>1
          <5>2. About(tail[n], k) /\ \A m \in DOMAIN tail : m > n => ~About(tail[m], k)
            BY <2>4, <3>7, <4>2
          <5> QED BY <2>4, <3>1, <3>4, <4>2, <5>1, <5>2
        <4> QED BY <2>4, <4>1, <4>2
      <3>8. ASSUME NEW n \in DOMAIN tail', tail'[n].kind \in {"consume", "withdraw"}, tail'[n].key = k,
                   view.sub[k].run = 0
            PROVE  \E m \in DOMAIN tail' : m < n /\ tail'[m].kind = "submit" /\ tail'[m].key = k
        <4>1. CASE n = z
          <5>1. native.sub[k].run # 0
            BY <2>2, <2>4, <3>8, <4>1
          <5>2. PICK m \in DOMAIN tail : tail[m].kind = "submit" /\ tail[m].key = k
            BY <3>1, <3>8, <5>1
          <5> QED BY <2>4, <4>1, <5>2
        <4>2. CASE n \in DOMAIN tail
          <5>1. PICK m \in DOMAIN tail : m < n /\ tail[m].kind = "submit" /\ tail[m].key = k
            BY <2>4, <3>1, <3>8, <4>2
          <5> QED BY <2>4, <5>1
        <4> QED BY <2>4, <4>1, <4>2
      <3> QED BY <3>1, <3>2, <3>3, <3>6, <3>7, <3>8
    <2> QED BY <2>3, <2>5, <2>6 DEF ViewInv
  <1> QED BY <1>1, <1>2

\* What the projection lacks after a projection.
LEMMA ProjectView ==
  ASSUME InputInv, NEW e \in Leases, NEW r \in Runs, NEW c \in Record, Projects(e, r, c)
  PROVE  ViewInv'
  <1>0. tail # <<>> /\ tail \in Seq(Record) /\ 0 \notin Runs /\ view \in State
    <2>1. World /\ tail \in Seq(Record) /\ 1 \in DOMAIN tail /\ 0 \notin Runs
      BY WorldTyped, Rows DEF World, Projects, InputInv
    <2> QED BY <2>1 DEF World
  <1>1. /\ c = tail[1] /\ 1 \in DOMAIN tail /\ tail' = Tail(tail) /\ native' = native
        /\ view' = Applied(view, c)
    BY DEF Projects
  <1>2. /\ DOMAIN tail \subseteq Nat /\ DOMAIN tail' \subseteq Nat
        /\ \A n \in DOMAIN tail' : n + 1 \in DOMAIN tail /\ tail'[n] = tail[n + 1] /\ n + 1 > 1
        /\ \A n \in DOMAIN tail : n = 1 \/ n > 1
        /\ \A n \in DOMAIN tail : n = 1 \/ (n - 1 \in DOMAIN tail' /\ tail'[n - 1] = tail[n])
    BY <1>0, <1>1, TailMeans
  <1>3. /\ view'.meta = view.meta \cup (IF c.kind = "meta" THEN {<<c.run, c.key>>} ELSE {})
        /\ \A k \in Keys :
              /\ view'.sub[k].run = IF c.kind = "submit" /\ c.key = k THEN c.run ELSE view.sub[k].run
              /\ view'.sub[k].status =
                   IF About(c, k) THEN After(c)
                   ELSE IF c.kind = "abort" /\ view.sub[k].status = "queued" THEN "aborted"
                   ELSE view.sub[k].status
    BY <1>0, <1>1, AppliedMeans
  <1>4. c.kind = "submit" => c.run \in Runs /\ c.run # 0 /\ native.sub[c.key].run = c.run
    <2> HAVE c.kind = "submit"
    <2>1. Writes(e)
      BY DEF Projects
    <2>2. tail[1].run = RunAt(e) /\ native.sub[tail[1].key].run = RunAt(e)
      BY <1>1, <2>1 DEF InputInv, LedgerInv, TailInv
    <2> QED BY <1>0, <1>1, <2>2, RecordMeans
  <1>5. ASSUME NEW p \in native.meta
        PROVE  p \in view'.meta \/ \E n \in DOMAIN tail' : tail'[n].kind = "meta" /\ p = <<tail'[n].run, tail'[n].key>>
    <2>1. CASE p \in view.meta
      BY <1>3, <2>1
    <2>2. CASE \E n \in DOMAIN tail : tail[n].kind = "meta" /\ p = <<tail[n].run, tail[n].key>>
      <3>1. PICK n \in DOMAIN tail : tail[n].kind = "meta" /\ p = <<tail[n].run, tail[n].key>>
        BY <2>2
      <3>2. CASE n = 1
        BY <1>1, <1>3, <3>1, <3>2
      <3>3. CASE n # 1
        BY <1>2, <3>1, <3>3
      <3> QED BY <3>2, <3>3
    <2> QED BY <2>1, <2>2 DEF InputInv, JournalInv, ViewInv
  <1>6. ASSUME NEW k \in Keys
        PROVE  /\ view'.sub[k].run \in {0, native.sub[k].run}
               /\ view'.sub[k].run = 0 => view'.sub[k].status = "none"
               /\ view'.sub[k].run # native.sub[k].run =>
                    \E n \in DOMAIN tail' : tail'[n].kind = "submit" /\ tail'[n].key = k
               /\ (\A n \in DOMAIN tail' : ~About(tail'[n], k))
                    => Kind(view'.sub[k].status) = Kind(native.sub[k].status)
               /\ \A n \in DOMAIN tail' :
                    /\ About(tail'[n], k) /\ (\A m \in DOMAIN tail' : m > n => ~About(tail'[m], k))
                         => Kind(native.sub[k].status) = After(tail'[n])
                    /\ tail'[n].kind \in {"consume", "withdraw"} /\ tail'[n].key = k /\ view'.sub[k].run = 0
                         => \E m \in DOMAIN tail' : m < n /\ tail'[m].kind = "submit" /\ tail'[m].key = k
    <2>1. /\ view.sub[k].run \in {0, native.sub[k].run}
          /\ view.sub[k].run = 0 => view.sub[k].status = "none"
          /\ view.sub[k].run # native.sub[k].run =>
               \E n \in DOMAIN tail : tail[n].kind = "submit" /\ tail[n].key = k
          /\ (\A n \in DOMAIN tail : ~About(tail[n], k))
               => Kind(view.sub[k].status) = Kind(native.sub[k].status)
          /\ \A n \in DOMAIN tail :
               /\ About(tail[n], k) /\ (\A m \in DOMAIN tail : m > n => ~About(tail[m], k))
                    => Kind(native.sub[k].status) = After(tail[n])
               /\ tail[n].kind \in {"consume", "withdraw"} /\ tail[n].key = k /\ view.sub[k].run = 0
                    => \E m \in DOMAIN tail : m < n /\ tail[m].kind = "submit" /\ tail[m].key = k
      BY DEF InputInv, JournalInv, ViewInv
    <2>2. view'.sub[k].run \in {0, native.sub[k].run}
      BY <1>3, <1>4, <2>1
    <2>3. view'.sub[k].run = 0 => view.sub[k].run = 0 /\ ~About(c, k)
      <3> HAVE view'.sub[k].run = 0
      <3>1. view.sub[k].run = 0 /\ ~(c.kind = "submit" /\ c.key = k)
        BY <1>3, <1>4
      <3>2. ~(c.kind \in {"consume", "withdraw"} /\ c.key = k)
        <4> SUFFICES ASSUME c.kind \in {"consume", "withdraw"}, c.key = k PROVE FALSE
          OBVIOUS
        <4>1. PICK m \in DOMAIN tail : m < 1
          BY <1>1, <2>1, <3>1
        <4> QED BY <1>2, <4>1
      <3> QED BY <3>1, <3>2 DEF About
    <2>4. view'.sub[k].run = 0 => view'.sub[k].status = "none"
      BY <1>3, <2>1, <2>3
    <2>5. view'.sub[k].run # native.sub[k].run =>
            \E n \in DOMAIN tail' : tail'[n].kind = "submit" /\ tail'[n].key = k
      <3> HAVE view'.sub[k].run # native.sub[k].run
      <3>1. view.sub[k].run # native.sub[k].run /\ ~(c.kind = "submit" /\ c.key = k)
        BY <1>3, <1>4
      <3>2. PICK n \in DOMAIN tail : tail[n].kind = "submit" /\ tail[n].key = k
        BY <2>1, <3>1
      <3>3. n # 1
        BY <1>1, <3>1, <3>2
      <3> QED BY <1>2, <3>2, <3>3
    <2>6. (\A n \in DOMAIN tail' : ~About(tail'[n], k))
            => Kind(view'.sub[k].status) = Kind(native.sub[k].status)
      <3> HAVE \A n \in DOMAIN tail' : ~About(tail'[n], k)
      <3>1. \A n \in DOMAIN tail : n # 1 => ~About(tail[n], k)
        BY <1>2
      <3>2. CASE About(c, k)
        <4>1. \A m \in DOMAIN tail : m > 1 => ~About(tail[m], k)
          BY <1>2, <3>1
        <4>2. Kind(native.sub[k].status) = After(c)
          BY <1>1, <2>1, <3>2, <4>1
        <4>3. view'.sub[k].status = After(c) /\ After(c) # "aborted"
          BY <1>3, <3>2 DEF After
        <4> QED BY <4>2, <4>3 DEF Kind
      <3>3. CASE ~About(c, k)
        <4>1. \A n \in DOMAIN tail : ~About(tail[n], k)
          BY <1>1, <3>1, <3>3
        <4>2. Kind(view'.sub[k].status) = Kind(view.sub[k].status)
          BY <1>3, <3>3 DEF Kind
        <4> QED BY <2>1, <4>1, <4>2
      <3> QED BY <3>2, <3>3
    <2>7. ASSUME NEW n \in DOMAIN tail', About(tail'[n], k), \A m \in DOMAIN tail' : m > n => ~About(tail'[m], k)
          PROVE  Kind(native.sub[k].status) = After(tail'[n])
      <3>1. PICK a \in DOMAIN tail : a = n + 1 /\ tail'[n] = tail[a]
        BY <1>2
      <3>2. ASSUME NEW m \in DOMAIN tail, m > a PROVE ~About(tail[m], k)
        <4>1. m # 1 /\ m - 1 > n
          BY <1>2, <3>1, <3>2
        <4> QED BY <1>2, <2>7, <4>1
      <3> QED BY <2>1, <2>7, <3>1, <3>2
    <2>8. ASSUME NEW n \in DOMAIN tail', tail'[n].kind \in {"consume", "withdraw"}, tail'[n].key = k,
                 view'.sub[k].run = 0
          PROVE  \E m \in DOMAIN tail' : m < n /\ tail'[m].kind = "submit" /\ tail'[m].key = k
      <3>1. PICK a \in DOMAIN tail : a = n + 1 /\ tail'[n] = tail[a]
        BY <1>2
      <3>2. PICK m \in DOMAIN tail : m < a /\ tail[m].kind = "submit" /\ tail[m].key = k
        BY <2>1, <2>3, <2>8, <3>1
      <3>3. m # 1
        BY <1>1, <2>3, <2>8, <3>2 DEF About
      <3>4. m - 1 \in DOMAIN tail' /\ tail'[m - 1] = tail[m] /\ m - 1 < n
        BY <1>2, <3>1, <3>2, <3>3
      <3> QED BY <3>2, <3>4
    <2> QED BY <2>2, <2>4, <2>5, <2>6, <2>7, <2>8
  <1> QED BY <1>1, <1>5, <1>6 DEF ViewInv

\* The projected Session stays the native one without the records still in the tail.
LEMMA ViewStep ==
  ASSUME InputInv, [Next]_vars
  PROVE  ViewInv'
  <1>1. CASE UNCHANGED journal
    BY <1>1 DEF InputInv, JournalInv, ViewInv, journal
  <1>2. ASSUME NEW r \in Runs, NEW e \in Leases, Claim(r, e) PROVE UNCHANGED journal
    BY <1>2 DEF Claim
  <1> QED BY <1>1, <1>2, StepKinds, ActsView, ProjectView DEF Kinds, Rests, RowMoves

-----------------------------------------------------------------------------
(* What stays as it is, whatever happens.                                    *)

\* A closed Run has no execution and nothing but a seal in front of the Projector.
LEMMA ClosedMeans ==
  ASSUME InputInv, NEW r \in Runs, Closed(r), NEW e \in Leases, Writes(e), RunAt(e) = r
  PROVE  /\ exec[e].phase = "gone" /\ ~Alive(e)
         /\ \A n \in DOMAIN tail : tail[n].kind = "seal"
  <1>1. run[r].lease = e /\ e # 0 /\ RunRowInv(r)
    BY RowOf, Rows DEF InputInv, LedgerInv, WriterInv
  <1>2. run[r].sealed
    BY <1>1 DEF Closed
  <1>3. exec[e].phase = "gone"
    BY <1>1, <1>2 DEF RunRowInv
  <1>4. \A n \in DOMAIN tail : tail[n].kind = "seal"
    BY <1>2 DEF InputInv, LedgerInv, TailInv
  <1> QED BY <1>3, <1>4 DEF Alive

\* With every Run closed no execution is alive and nothing but a seal unprojected.
LEMMA AllClosedMeans ==
  ASSUME InputInv, AllClosed
  PROVE  /\ \A e \in Leases : ~Alive(e)
         /\ \A n \in DOMAIN tail : tail[n].kind = "seal"
  <1>1. ASSUME NEW e \in Leases, Writes(e)
        PROVE  ~Alive(e) /\ \A n \in DOMAIN tail : tail[n].kind = "seal"
    <2>1. PICK r \in Runs : r = RunAt(e)
      BY <1>1, Rows DEF InputInv, Writes
    <2>2. run[r].lease = e /\ e # 0 /\ RunRowInv(r)
      BY <1>1, <2>1, RowOf, Rows DEF InputInv, LedgerInv, WriterInv
    <2>3. Closed(r)
      BY <2>2 DEF AllClosed, RunRowInv
    <2> QED BY <1>1, <2>1, <2>3, ClosedMeans
  <1>2. ASSUME NEW e \in Leases, Alive(e) PROVE FALSE
    BY <1>1, <1>2, ServingAlive
  <1>3. \A n \in DOMAIN tail : tail[n].kind = "seal"
    <2>1. CASE tail = <<>>
      <3>1. DOMAIN tail = {}
        BY <2>1
      <3> QED BY <3>1
    <2>2. CASE tail # <<>>
      BY <1>1, <2>2 DEF InputInv, LedgerInv, TailInv
    <2> QED BY <2>1, <2>2
  <1> QED BY <1>2, <1>3

\* The Run the API asks for takes input, or none is left that does.
LEMMA ReceivingMeans ==
  ASSUME InputInv
  PROVE  Receiving \in Runs /\ run[Receiving].state # "absent" /\ (Closed(Receiving) => AllClosed)
  <1> DEFINE atWork == {r \in Runs : run[r].state = "running" \/ run[r].recovering \/ Sealing(r)}
             waiting == {r \in Runs : run[r].state = "queued"}
             present == {r \in Runs : run[r].state # "absent"}
  <1>1. present # {} /\ present \subseteq Runs
    <2>1. 1 \in present
      BY Rows DEF InputInv, LedgerInv, RunInv
    <2> QED BY <2>1
  <1>2. atWork \subseteq Runs /\ waiting \subseteq Runs
    OBVIOUS
  <1>3. \A r \in Runs : RunRowInv(r) /\ run[r] \in RunRow /\ 0 \notin Leases
    BY RowOf, Rows DEF InputInv
  <1>4. \A r \in atWork : run[r].state # "absent" /\ ~Closed(r)
    <2> SUFFICES ASSUME NEW r \in atWork PROVE run[r].state # "absent" /\ ~Closed(r)
      OBVIOUS
    <2>1. RunRowInv(r) /\ r \in Runs
      BY <1>3
    <2>2. CASE run[r].state = "running"
      BY <2>2 DEF Closed, Settled, Terminal
    <2>3. CASE run[r].recovering
      <3>1. run[r].state \in {"queued", "running"}
        BY <2>1, <2>3 DEF RunRowInv
      <3> QED BY <3>1 DEF Closed, Settled, Terminal
    <2>4. CASE Sealing(r)
      <3>1. run[r].lease # 0 /\ ~run[r].sealed
        BY <2>1, <2>4 DEF RunRowInv, Sealing
      <3> QED BY <2>1, <3>1 DEF RunRowInv, Closed
    <2> QED BY <2>2, <2>3, <2>4
  <1>5. \A r \in waiting : run[r].state # "absent" /\ ~Closed(r)
    BY DEF Closed, Settled, Terminal
  <1>6. CASE atWork # {}
    <2>1. Receiving = Min(atWork)
      BY <1>6 DEF Receiving
    <2>2. Min(atWork) \in atWork
      <3> HIDE DEF atWork
      <3> QED BY <1>2, <1>6, MinMember
    <2> QED BY <1>2, <1>4, <2>1, <2>2
  <1>7. CASE atWork = {} /\ waiting # {}
    <2>1. Receiving = Min(waiting)
      BY <1>7 DEF Receiving
    <2>2. Min(waiting) \in waiting
      <3> HIDE DEF waiting
      <3> QED BY <1>2, <1>7, MinMember
    <2> QED BY <1>2, <1>5, <2>1, <2>2
  <1>8. CASE atWork = {} /\ waiting = {}
    <2>1. Receiving = Max(present)
      BY <1>8 DEF Receiving
    <2>2. Max(present) \in present
      <3> HIDE DEF present
      <3> QED BY <1>1, MaxMember
    <2>3. ASSUME NEW r \in Runs PROVE run[r].state = "absent" \/ Closed(r)
      <3>1. r \notin atWork /\ r \notin waiting
        BY <1>8
      <3>2. run[r].state \notin {"running", "queued"} /\ ~Sealing(r)
        BY <3>1
      <3>3. run[r].state = "absent" \/ Settled(r)
        BY <1>3, <3>2 DEF RunRow, Settled
      <3> QED BY <1>3, <3>2, <3>3 DEF RunRowInv, Sealing, Closed
    <2> QED BY <2>1, <2>2, <2>3 DEF AllClosed
  <1> QED BY <1>6, <1>7, <1>8

\* Leases, records and identities are not taken back, and a closed Run stays closed.
Grows ==
  /\ \A e \in Leases : Issued(e) => Issued(e)' /\ RunAt(e)' = RunAt(e)
  /\ \A e \in Leases : exec[e].phase = "gone" => exec'[e].phase = "gone"
  /\ \A e \in Leases : Issued(e) /\ exec'[e].phase \in {"opening", "gated", "open"} =>
       exec[e].phase \in {"opening", "gated", "open"}
  /\ \A e \in Leases : leases[e].sealed => leases'[e].sealed
  /\ native.meta \subseteq native'.meta /\ view.meta \subseteq view'.meta
  /\ \A k \in Keys : native.sub[k].run # 0 => native'.sub[k].run = native.sub[k].run
  /\ \A k \in Keys : view.sub[k].run # 0 => view'.sub[k].run = view.sub[k].run
  /\ \A r \in Runs : Closed(r) => Closed(r)'
  /\ lock' # None /\ AllClosed' => AllClosed
  /\ AllClosed => \A k \in Keys : native'.sub[k].run = native.sub[k].run

\* Of the executions: what each step does to their phases.
LEMMA GrowsFrom ==
  ASSUME InputInv, UNCHANGED <<run, leases, native, view>>,
         \A e \in Leases : exec[e].phase = "gone" => exec'[e].phase = "gone",
         \A e \in Leases : exec'[e].phase \in {"opening", "gated", "open"} =>
           exec[e].phase \in {"opening", "gated", "open"}
  PROVE  Grows
  BY DEF Grows, Issued, RunAt, Closed, Settled, AllClosed

\* What a writer does only adds to the Session.
LEMMA ActsGrows ==
  ASSUME InputInv, NEW e \in Leases, Acts(e)
  PROVE  Grows
  <1>1. /\ UNCHANGED <<run, leases>> /\ exec[e] \in ExecRow /\ exec'[e] \in ExecRow
        /\ Issued(e) /\ exec[e].phase # "none"
        /\ \A d \in Leases : d # e => exec'[d] = exec[d]
    <2>1. exec' \in [Leases -> ExecRow]
      BY DEF Acts
    <2> QED BY <2>1, Rows DEF Acts, rows, InputInv, LedgerInv, WriterInv
  <1>2. \A d \in Leases : exec[d].phase = "gone" => exec'[d].phase = "gone"
    BY <1>1 DEF Acts
  <1>3. \A d \in Leases : exec'[d].phase \in {"opening", "gated", "open"} =>
          exec[d].phase \in {"opening", "gated", "open"}
    <2>1. exec'[e].phase \in {"opening", "gated", "open"} => Alive(e)'
      BY DEF Alive
    <2>2. exec'[e].phase \in {"opening", "gated", "open"} => exec[e].phase \in {"opening", "gated", "open"}
      BY <1>1, <2>1 DEF Acts, ExecRow, Phases
    <2> QED BY <1>1, <2>2
  <1>4. CASE UNCHANGED journal
    BY <1>1, <1>2, <1>3, <1>4, GrowsFrom DEF journal
  <1>5. CASE ~UNCHANGED journal
    <2>1. PICK c \in Record : Committed(c) /\ Content(e, c)
      BY <1>5 DEF Acts
    <2>2. /\ UNCHANGED view /\ native.meta \subseteq native'.meta
          /\ \A k \in Keys : native.sub[k].run # 0 => native'.sub[k].run = native.sub[k].run
      BY <1>1, <2>1, AppendGrows
    <2>3. /\ \A k \in Keys : native'.sub[k].run = IF c.kind = "submit" /\ c.key = k THEN c.run ELSE native.sub[k].run
          /\ c.kind = "submit" => Alive(e)
      BY <1>1, <2>1, AppendMeansNative DEF Content
    <2>4. AllClosed => \A k \in Keys : native'.sub[k].run = native.sub[k].run
      BY <2>3, AllClosedMeans
    <2> QED BY <1>1, <1>2, <1>3, <2>2, <2>4 DEF Grows, Issued, RunAt, Closed, Settled, AllClosed
  <1> QED BY <1>4, <1>5

\* A step that rewrites rows only takes nothing back.
LEMMA RowMovesGrows ==
  ASSUME InputInv, NEW r \in Runs, RowMoves(r)
  PROVE  Grows
  <1>1. UNCHANGED <<leases, exec, native, view>>
    BY DEF RowMoves, journal
  <1>2. \A s \in Runs : Closed(s) => Closed(s)'
    BY DEF RowMoves, Closed, Settled
  <1>3. lock' # None => \A s \in Runs : (Closed(s)' => Closed(s)) /\ (run'[s].state = "absent" => run[s].state = "absent")
    BY DEF RowMoves, Closed, Settled
  <1>4. lock' # None /\ AllClosed' => AllClosed
    BY <1>3 DEF AllClosed
  <1> QED BY <1>1, <1>2, <1>4 DEF Grows, Issued, RunAt

\* Claiming a queued Run takes nothing back.
LEMMA ClaimGrows ==
  ASSUME InputInv, NEW r \in Runs, NEW e \in Leases, Claim(r, e)
  PROVE  Grows
  <1>1. /\ ~Issued(e) /\ exec[e].phase = "none"
        /\ run[r].state = "queued"
        /\ \A s \in Runs : s # r => run'[s] = run[s]
        /\ leases'[e].sealed = leases[e].sealed
        /\ \A d \in Leases : d # e => leases'[d] = leases[d] /\ exec'[d] = exec[d]
        /\ UNCHANGED <<native, view>> /\ lock' = None
    BY ClaimFacts DEF journal
  <1>2. \A s \in Runs : Closed(s) => Closed(s)'
    <2>1. ~Closed(r)
      BY <1>1 DEF Closed, Settled, Terminal
    <2> QED BY <1>1, <2>1 DEF Closed, Settled
  <1> QED BY <1>1, <1>2 DEF Grows, Issued, RunAt

\* Projecting a record only adds to the view.
LEMMA ProjectGrows ==
  ASSUME InputInv, NEW e \in Leases, NEW r \in Runs, NEW c \in Record, Projects(e, r, c)
  PROVE  Grows
  <1>1. /\ UNCHANGED <<exec, native, lock>>
        /\ \A d \in Leases : leases'[d].run = leases[d].run
        /\ \A d \in Leases : leases[d].sealed => leases'[d].sealed
    BY DEF Projects, Writes
  <1>2. view.meta \subseteq view'.meta /\ \A k \in Keys : view.sub[k].run # 0 => view'.sub[k].run = view.sub[k].run
    <2>1. view' = Applied(view, c) /\ view \in State /\ c = tail[1] /\ 1 \in DOMAIN tail /\ Writes(e)
      BY WorldTyped DEF World, Projects
    <2>2. /\ view'.meta = view.meta \cup (IF c.kind = "meta" THEN {<<c.run, c.key>>} ELSE {})
          /\ \A k \in Keys : view'.sub[k].run = IF c.kind = "submit" /\ c.key = k THEN c.run ELSE view.sub[k].run
      BY <2>1, AppliedMeans
    <2>3. c.kind = "submit" => c.run = RunAt(e) /\ native.sub[c.key].run = RunAt(e)
      BY <2>1 DEF InputInv, LedgerInv, TailInv
    <2>4. \A k \in Keys : view.sub[k].run \in {0, native.sub[k].run}
      BY DEF InputInv, JournalInv, ViewInv
    <2> QED BY <2>2, <2>3, <2>4
  <1>3. \A s \in Runs : Closed(s) => Closed(s)'
    BY DEF Projects, Closed, Settled
  <1>4. lock' # None /\ AllClosed' => AllClosed
    <2>1. lock' # None => UNCHANGED run
      BY DEF Projects, rows
    <2> QED BY <2>1 DEF AllClosed, Closed, Settled
  <1> QED BY <1>1, <1>2, <1>3, <1>4 DEF Grows, Issued, RunAt

\* Every step only grows: no placement, closure or end of a writer is taken back.
LEMMA GrowsStep ==
  ASSUME InputInv, [Next]_vars
  PROVE  Grows
  <1>1. CASE Rests
    BY <1>1, GrowsFrom DEF Rests, rows, journal
  <1> QED BY <1>1, StepKinds, ActsGrows, RowMovesGrows, ClaimGrows, ProjectGrows DEF Kinds

-----------------------------------------------------------------------------
(* What every step leaves of messages and of the requests for them.          *)

\* The key of a Run changes only where a message becomes its initial input.
LEMMA KeysStay ==
  ASSUME InputInv, [Next]_vars
  PROVE  (\E i \in Attempts : AcceptInitial(i)) \/ \A r \in Runs : run'[r].key = run[r].key
  <1>1. CASE Background
    <2>1. ASSUME NEW e \in Leases, Works(e) PROVE UNCHANGED run
      BY <2>1 DEF Works, Acts, rows
    <2>2. ASSUME NEW r \in Runs, Rewrites(r) PROVE \A s \in Runs : run'[s].key = run[s].key
      BY <2>2 DEF Rewrites, RowMoves
    <2>3. ASSUME NEW r \in Runs, NEW e \in Leases, Claim(r, e) PROVE \A s \in Runs : run'[s].key = run[s].key
      <3>1. run'[r].key = run[r].key /\ \A s \in Runs : s # r => run'[s] = run[s]
        BY <2>3, ClaimFacts
      <3> QED BY <3>1
    <2>4. ASSUME NEW e \in Leases, NEW r \in Runs, NEW c \in Record, Projects(e, r, c)
          PROVE  \A s \in Runs : run'[s].key = run[s].key
      BY <2>4 DEF Projects
    <2>5. Rests => UNCHANGED run
      BY DEF Rests, rows
    <2> QED BY <1>1, <2>1, <2>2, <2>3, <2>4, <2>5 DEF Background
  <1>2. CASE Foreground
    <2>1. ASSUME NEW i \in Attempts, NEW k \in Keys, Begin(i, k) PROVE UNCHANGED run
      BY <2>1 DEF Begin, rows
    <2>2. ASSUME NEW i \in Attempts, Admit(i) \/ Refuse(i) \/ Send(i) \/ Receive(i) \/ Timeout(i) \/ ReconcilePin(i)
          PROVE  UNCHANGED run
      BY <2>2 DEF Admit, Refuse, Send, Receive, Timeout, ReconcilePin, rows
    <2>3. ASSUME NEW o \in Ops, NEW k \in Keys, NEW kind \in {"edit", "withdraw"}, Change(o, k, kind)
          PROVE  UNCHANGED run
      BY <2>3 DEF Change, rows
    <2>4. ASSUME NEW o \in Ops, SendChange(o) PROVE UNCHANGED run
      BY <2>4 DEF SendChange, rows
    <2>5. ASSUME NEW e \in Leases, NEW i \in Attempts, StartInput(e, i) PROVE UNCHANGED run
      BY <2>5 DEF StartInput, RunnerUnchanged, rows
    <2>6. ASSUME NEW e \in Leases, Submit(e) \/ PrepareFails(e) PROVE UNCHANGED run
      BY <2>6 DEF Submit, PrepareFails, RunnerUnchanged, rows
    <2>7. ASSUME NEW e \in Leases, NEW o \in Ops, Mutate(e, o) PROVE UNCHANGED run
      BY <2>7 DEF Mutate, rows
    <2>8. ASSUME NEW e \in Leases, NEW c \in Attempts \cup Ops, NoTarget(c, e) PROVE UNCHANGED run
      BY <2>8 DEF NoTarget, RunnerUnchanged, rows
    <2>9. ASSUME NEW r \in Runs, ReadBatch(r) PROVE UNCHANGED run
      BY <2>9 DEF ReadBatch, rows
    <2>10. ASSUME NEW k \in Uploads, Reap(k) PROVE UNCHANGED run
      BY <2>10 DEF Reap, rows
    <2> QED BY <1>2, <2>1, <2>2, <2>3, <2>4, <2>5, <2>6, <2>7, <2>8, <2>9, <2>10 DEF Foreground
  <1> QED BY <1>1, <1>2, StepSeen

\* A message gets a Run only while it has none, every Run is closed and Pi never saw it.
LEMMA InitialPlaced ==
  ASSUME InputInv, NEW i \in Attempts, AcceptInitial(i)
  PROVE  /\ AllClosed /\ lock' = None /\ attempt[i].key \in Keys /\ attempt[i].step = "reading"
         /\ RunOf(attempt[i].key) = {} /\ native.sub[attempt[i].key].run = 0
         /\ \E r \in Runs : RunOf(attempt[i].key)' = {r}
         /\ \A k \in Keys : k # attempt[i].key => RunOf(k)' = RunOf(k)
         /\ UNCHANGED <<exec, leases, native>>
  <1>1. PICK r \in Runs : /\ RowMoves(r) /\ run[r].state = "absent" /\ run[r].key = NoKey
                          /\ run'[r].key = attempt[i].key /\ attempt[i].key \in Keys
    BY AcceptInitialMoves
  <1>2. AllClosed
    BY ReceivingMeans DEF AcceptInitial
  <1>3. attempt[i].step = "reading" /\ lock' = None /\ UNCHANGED <<exec, leases, native>>
    BY DEF AcceptInitial, journal
  <1>4. RunOf(attempt[i].key) = {} /\ native.sub[attempt[i].key].run = 0
    BY <1>2, <1>3 DEF InputInv, AttemptInv, AttemptRowInv
  <1>5. \A s \in Runs : s # r => run'[s] = run[s]
    BY <1>1 DEF RowMoves
  <1>6. RunOf(attempt[i].key)' = {r}
    <2>1. RunOf(attempt[i].key) = {s \in Runs : run[s].key = attempt[i].key}
      BY DEF RunOf
    <2>2. {s \in Runs : run'[s].key = attempt[i].key} = {r}
      BY <1>1, <1>4, <1>5, <2>1
    <2>3. attempt'[i].key = attempt[i].key
      BY Rows DEF AcceptInitial, InputInv, AttemptRow
    <2> QED BY <2>2, <2>3 DEF RunOf
  <1>7. \A k \in Keys : k # attempt[i].key => RunOf(k)' = RunOf(k)
    <2> SUFFICES ASSUME NEW k \in Keys, k # attempt[i].key
                 PROVE  {s \in Runs : run'[s].key = k} = {s \in Runs : run[s].key = k}
      BY DEF RunOf
    <2>1. k # NoKey
      BY InputsAssumption
    <2> QED BY <1>1, <1>5, <2>1
  <1> QED BY <1>1, <1>2, <1>3, <1>4, <1>6, <1>7

\* A message that has a Run keeps it; one gets a Run only as above.
LEMMA RunOfStep ==
  ASSUME InputInv, [Next]_vars
  PROVE  /\ \A k \in Keys : RunOf(k) # {} => RunOf(k)' # {}
         /\ (\A k \in Keys : RunOf(k)' = RunOf(k)) \/ (AllClosed /\ lock' = None)
  <1>1. CASE \E i \in Attempts : AcceptInitial(i)
    <2>1. PICK i \in Attempts : AcceptInitial(i)
      BY <1>1
    <2> QED BY <2>1, InitialPlaced
  <1>2. CASE \A r \in Runs : run'[r].key = run[r].key
    <2>1. \A k \in Keys : {r \in Runs : run'[r].key = k} = {r \in Runs : run[r].key = k}
      BY <1>2
    <2> QED BY <2>1 DEF RunOf
  <1> QED BY <1>1, <1>2, KeysStay

\* Pi gets a message only from Submit.
LEMMA SubStays ==
  ASSUME InputInv, [Next]_vars
  PROVE  (\E e \in Leases : Submit(e)) \/ \A k \in Keys : native'.sub[k].run = native.sub[k].run
  <1>1. CASE Background
    <2>1. ASSUME NEW e \in Leases, Works(e) PROVE \A k \in Keys : native'.sub[k].run = native.sub[k].run
      BY <2>1 DEF Works
    <2>2. ASSUME NEW r \in Runs, Rewrites(r) PROVE UNCHANGED native
      BY <2>2 DEF Rewrites, RowMoves, journal
    <2>3. ASSUME NEW r \in Runs, NEW e \in Leases, Claim(r, e) PROVE UNCHANGED native
      BY <2>3 DEF Claim, journal
    <2>4. ASSUME NEW e \in Leases, NEW r \in Runs, NEW c \in Record, Projects(e, r, c)
          PROVE  UNCHANGED native
      BY <2>4 DEF Projects
    <2>5. Rests => UNCHANGED native
      BY DEF Rests, journal
    <2> QED BY <1>1, <2>1, <2>2, <2>3, <2>4, <2>5 DEF Background
  <1>2. CASE Foreground
    <2>1. ASSUME NEW i \in Attempts, NEW k \in Keys, Begin(i, k) PROVE UNCHANGED native
      BY <2>1 DEF Begin, journal
    <2>2. ASSUME NEW i \in Attempts, AcceptInitial(i) \/ Admit(i) \/ Refuse(i) \/ Send(i) \/ Receive(i)
                                     \/ Timeout(i) \/ ReconcilePin(i)
          PROVE  UNCHANGED native
      BY <2>2 DEF AcceptInitial, Admit, Refuse, Send, Receive, Timeout, ReconcilePin, journal
    <2>3. ASSUME NEW o \in Ops, NEW k \in Keys, NEW kind \in {"edit", "withdraw"}, Change(o, k, kind)
          PROVE  UNCHANGED native
      BY <2>3 DEF Change, journal
    <2>4. ASSUME NEW o \in Ops, SendChange(o) PROVE UNCHANGED native
      BY <2>4 DEF SendChange, journal
    <2>5. ASSUME NEW e \in Leases, NEW i \in Attempts, StartInput(e, i)
          PROVE  \A k \in Keys : native'.sub[k].run = native.sub[k].run
      BY <2>5, StartInputActs
    <2>6. ASSUME NEW e \in Leases, PrepareFails(e) PROVE UNCHANGED native
      BY <2>6 DEF PrepareFails
    <2>7. ASSUME NEW e \in Leases, NEW o \in Ops, Mutate(e, o)
          PROVE  \A k \in Keys : native'.sub[k].run = native.sub[k].run
      BY <2>7, MutateWorks DEF Works
    <2>8. ASSUME NEW e \in Leases, NEW c \in Attempts \cup Ops, NoTarget(c, e) PROVE UNCHANGED native
      BY <2>8 DEF NoTarget
    <2>9. ASSUME NEW r \in Runs, ReadBatch(r) PROVE UNCHANGED native
      BY <2>9 DEF ReadBatch, journal
    <2>10. ASSUME NEW k \in Uploads, Reap(k) PROVE UNCHANGED native
      BY <2>10 DEF Reap, journal
    <2> QED BY <1>2, <2>1, <2>2, <2>3, <2>4, <2>5, <2>6, <2>7, <2>8, <2>9, <2>10 DEF Foreground
  <1> QED BY <1>1, <1>2, StepSeen

\* A step that appends, or one that leaves Pi's state alone.
LEMMA NativeMoves ==
  ASSUME InputInv, [Next]_vars
  PROVE  \/ UNCHANGED native
         \/ \E e \in Leases, c \in Record : Issued(e) /\ Committed(c) /\ Content(e, c)
  <1>1. ASSUME NEW e \in Leases, Acts(e)
        PROVE  \/ UNCHANGED native
               \/ \E c \in Record : Issued(e) /\ Committed(c) /\ Content(e, c)
    <2>1. Issued(e) /\ (UNCHANGED journal \/ \E c \in Record : Committed(c) /\ Content(e, c))
      BY <1>1 DEF Acts
    <2> QED BY <2>1 DEF journal
  <1>2. ASSUME NEW r \in Runs, RowMoves(r) PROVE UNCHANGED native
    BY <1>2 DEF RowMoves, journal
  <1>3. ASSUME NEW r \in Runs, NEW e \in Leases, Claim(r, e) PROVE UNCHANGED native
    BY <1>3 DEF Claim, journal
  <1>4. ASSUME NEW e \in Leases, NEW r \in Runs, NEW c \in Record, Projects(e, r, c)
        PROVE  UNCHANGED native
    BY <1>4 DEF Projects
  <1>5. Rests => UNCHANGED native
    BY DEF Rests, journal
  <1> QED BY <1>1, <1>2, <1>3, <1>4, <1>5, StepKinds DEF Kinds

\* What Pi took, and what was withdrawn or aborted, stays as it is.
LEMMA DoneStays ==
  ASSUME InputInv, [Next]_vars, NEW k \in Keys,
         native.sub[k].status \in {"consumed", "withdrawn", "aborted"}
  PROVE  native'.sub[k] = native.sub[k] /\ native'.edits[k] = native.edits[k]
  <1>1. CASE UNCHANGED native
    BY <1>1
  <1>2. CASE ~UNCHANGED native
    <2>1. PICK e \in Leases, c \in Record : Issued(e) /\ Committed(c) /\ Content(e, c)
      BY <1>2, NativeMoves
    <2>2. native.sub[k].run # 0
      BY DEF InputInv, JournalInv, NativeInv
    <2>3. /\ native'.sub[k].run = IF c.kind = "submit" /\ c.key = k THEN c.run ELSE native.sub[k].run
          /\ native'.sub[k].status =
               IF About(c, k) THEN After(c)
               ELSE IF c.kind = "abort" /\ native.sub[k].status = "queued" THEN "aborted"
               ELSE native.sub[k].status
          /\ (c.kind = "edit" /\ c.key = k) \/ native'.edits[k] = native.edits[k]
          /\ native' \in State /\ native \in State
          /\ c.kind \in {"edit", "withdraw", "consume"} => native.sub[c.key].status = "queued"
          /\ c.kind = "submit" => native.sub[c.key].run = 0
      BY <2>1, AppendMeansNative
    <2>4. ~About(c, k) /\ ~(c.kind = "edit" /\ c.key = k)
      BY <2>2, <2>3 DEF About
    <2>5. native'.sub[k].run = native.sub[k].run /\ native'.sub[k].status = native.sub[k].status
      BY <2>3, <2>4 DEF About
    <2>6. native'.sub[k] \in [run : 0..NumRuns, status : Statuses] /\ native.sub[k] \in [run : 0..NumRuns, status : Statuses]
      BY <2>3 DEF State
    <2> QED BY <2>3, <2>4, <2>5, <2>6
  <1> QED BY <1>1, <1>2

\* A message becomes one thing.
LEMMA PlaceStep ==
  ASSUME InputInv, [Next]_vars
  PROVE  PlaceInv'
  <1>1. PlaceInv
    BY DEF InputInv
  <1>2. CASE \E i \in Attempts : AcceptInitial(i)
    <2>1. PICK i \in Attempts : AcceptInitial(i)
      BY <1>2
    <2>2. /\ native.sub[attempt[i].key].run = 0 /\ UNCHANGED native
          /\ \E r \in Runs : RunOf(attempt[i].key)' = {r}
          /\ \A k \in Keys : k # attempt[i].key => RunOf(k)' = RunOf(k)
      BY <2>1, InitialPlaced
    <2>3. attempt'[i].key = attempt[i].key
      BY <2>1, Rows DEF AcceptInitial, InputInv, AttemptRow
    <2>4. ASSUME NEW k \in Keys
          PROVE  /\ native'.sub[k].run # 0 => RunOf(k)' = {}
                 /\ \A r, s \in RunOf(k)' : r = s
      <3>1. CASE k = attempt[i].key
        <4>1. \E r \in Runs : RunOf(k)' = {r}
          BY <2>2, <2>3, <3>1 DEF RunOf
        <4> QED BY <2>2, <3>1, <4>1
      <3>2. CASE k # attempt[i].key
        BY <1>1, <2>2, <3>2 DEF PlaceInv
      <3> QED BY <3>1, <3>2
    <2> QED BY <2>4 DEF PlaceInv
  <1>3. CASE \A r \in Runs : run'[r].key = run[r].key
    <2>1. \A k \in Keys : RunOf(k)' = RunOf(k)
      <3>1. \A k \in Keys : {r \in Runs : run'[r].key = k} = {r \in Runs : run[r].key = k}
        BY <1>3
      <3> QED BY <3>1 DEF RunOf
    <2>2. CASE \E e \in Leases : Submit(e)
      <3>1. PICK e \in Leases : Submit(e)
        BY <2>2
      <3>2. exec[e].line # None
        BY <3>1 DEF Submit, LineFree
      <3>3. \A k \in Keys : native'.sub[k].run # native.sub[k].run => RunOf(k) = {}
        BY <3>1, <3>2, SubmitActs, LineKnown
      <3> QED BY <1>1, <2>1, <3>3 DEF PlaceInv
    <2>3. CASE \A k \in Keys : native'.sub[k].run = native.sub[k].run
      BY <1>1, <2>1, <2>3 DEF PlaceInv
    <2> QED BY <2>2, <2>3, SubStays
  <1> QED BY <1>2, <1>3, KeysStay

\* A closed Run is still there, and Pi takes nothing that it recorded.
LEMMA ClosedStays ==
  ASSUME InputInv, [Next]_vars, NEW r \in Runs, Closed(r), run[r].state # "absent"
  PROVE  /\ Closed(r)' /\ run'[r].state # "absent"
         /\ \A k \in Keys : native'.sub[k].run = r =>
              /\ native.sub[k].run = r
              /\ native.sub[k].status \in {"queued", "aborted"} => native'.sub[k].status \in {"queued", "aborted"}
  <1>1. Closed(r)'
    BY GrowsStep DEF Grows
  <1>2. run'[r].state # "absent"
    BY <1>1 DEF Closed, Settled, Terminal
  <1>3. ASSUME NEW k \in Keys, native'.sub[k].run = r
        PROVE  /\ native.sub[k].run = r
               /\ native.sub[k].status \in {"queued", "aborted"} => native'.sub[k].status \in {"queued", "aborted"}
    <2>1. CASE UNCHANGED native
      BY <1>3, <2>1
    <2>2. CASE ~UNCHANGED native
      <3>1. PICK e \in Leases, c \in Record : Issued(e) /\ Committed(c) /\ Content(e, c)
        BY <2>2, NativeMoves
      <3>2. /\ native'.sub[k].run = IF c.kind = "submit" /\ c.key = k THEN c.run ELSE native.sub[k].run
            /\ native'.sub[k].status =
                 IF About(c, k) THEN After(c)
                 ELSE IF c.kind = "abort" /\ native.sub[k].status = "queued" THEN "aborted"
                 ELSE native.sub[k].status
        BY <3>1, AppendMeansNative
      <3>3. ~About(c, k)
        <4> SUFFICES ASSUME About(c, k) PROVE FALSE
          OBVIOUS
        <4>1. Alive(e)
          BY <3>1 DEF About, Content
        <4>2. Writes(e)
          BY <4>1, ServingAlive
        <4>3. RunAt(e) = r
          <5>1. CASE c.kind = "submit"
            BY <1>3, <3>1, <3>2, <5>1 DEF About, Content
          <5>2. CASE c.kind \in {"consume", "withdraw"}
            <6>1. k \in Queued(native) /\ exec[e].phase \in {"open", "ended"}
              BY <3>1, <5>2 DEF About, Content
            <6> QED BY <1>3, <3>2, <5>2, <6>1 DEF InputInv, JournalInv, NativeInv
          <5> QED BY <5>1, <5>2 DEF About
        <4> QED BY <4>1, <4>2, <4>3, ClosedMeans
      <3> QED BY <1>3, <3>2, <3>3 DEF About
    <2> QED BY <2>1, <2>2
  <1> QED BY <1>1, <1>2, <1>3

\* A page of a batch shows what Pi never took.
LEMMA BatchMeans ==
  ASSUME InputInv, NEW r \in Runs, Closed(r), NEW k \in Keys, native.sub[k].run = r
  PROVE  k \in Batch(r) <=> native.sub[k].status \in {"queued", "aborted"}
  <1>1. \A n \in DOMAIN tail : ~About(tail[n], k) /\ ~(tail[n].kind = "meta" /\ tail[n].run = r)
    <2> SUFFICES ASSUME NEW n \in DOMAIN tail, About(tail[n], k) \/ (tail[n].kind = "meta" /\ tail[n].run = r)
                 PROVE  FALSE
      OBVIOUS
    <2>1. tail # <<>>
      OBVIOUS
    <2>2. PICK e \in Leases : Writes(e)
      BY <2>1 DEF InputInv, LedgerInv, TailInv
    <2>3. RunAt(e) = r
      BY <2>2 DEF InputInv, LedgerInv, TailInv, About
    <2>4. tail[n].kind = "seal"
      BY <2>2, <2>3, ClosedMeans
    <2> QED BY <2>4 DEF About
  <1>2. r # 0
    BY Rows DEF InputInv
  <1>3. view.sub[k].run = r
    <2>1. view.sub[k].run # native.sub[k].run => \E n \in DOMAIN tail : tail[n].kind = "submit" /\ tail[n].key = k
      BY DEF InputInv, JournalInv, ViewInv
    <2> QED BY <1>1, <2>1 DEF About
  <1>4. Kind(view.sub[k].status) = Kind(native.sub[k].status)
    BY <1>1 DEF InputInv, JournalInv, ViewInv
  <1>5. <<r, k>> \in view.meta
    <2>1. <<r, k>> \in native.meta
      BY <1>2 DEF InputInv, JournalInv, NativeInv
    <2>2. <<r, k>> \in view.meta \/ \E n \in DOMAIN tail : tail[n].kind = "meta" /\ <<r, k>> = <<tail[n].run, tail[n].key>>
      BY <2>1 DEF InputInv, JournalInv, ViewInv
    <2> QED BY <1>1, <2>2
  <1>6. view.sub[k].status \in {"queued", "aborted"} <=> native.sub[k].status \in {"queued", "aborted"}
    BY <1>4 DEF Kind
  <1> QED BY <1>5, <1>6 DEF Batch

\* Messages are given back by the page of a batch only.
LEMMA ReturnedFrom ==
  ASSUME InputInv, [Next]_vars
  PROVE  UNCHANGED returned \/ \E r \in Runs : ReadBatch(r)
  <1>1. CASE Background
    BY <1>1 DEF Background, requests
  <1>2. CASE Foreground
    <2>1. ASSUME NEW i \in Attempts, NEW q \in Keys, Begin(i, q) PROVE UNCHANGED returned
      BY <2>1 DEF Begin
    <2>2. ASSUME NEW i \in Attempts, AcceptInitial(i) \/ Admit(i) \/ Refuse(i) \/ Send(i) \/ Receive(i)
                                     \/ Timeout(i) \/ ReconcilePin(i)
          PROVE  UNCHANGED returned
      BY <2>2 DEF AcceptInitial, Admit, Refuse, Send, Receive, Timeout, ReconcilePin
    <2>3. ASSUME NEW o \in Ops, NEW q \in Keys, NEW kind \in {"edit", "withdraw"}, Change(o, q, kind)
          PROVE  UNCHANGED returned
      BY <2>3 DEF Change
    <2>4. ASSUME NEW o \in Ops, SendChange(o) PROVE UNCHANGED returned
      BY <2>4 DEF SendChange
    <2>5. ASSUME NEW e \in Leases, NEW i \in Attempts, StartInput(e, i) PROVE UNCHANGED returned
      BY <2>5 DEF StartInput, RunnerUnchanged
    <2>6. ASSUME NEW e \in Leases, Submit(e) \/ PrepareFails(e) PROVE UNCHANGED returned
      BY <2>6 DEF Submit, PrepareFails, RunnerUnchanged
    <2>7. ASSUME NEW e \in Leases, NEW o \in Ops, Mutate(e, o) PROVE UNCHANGED returned
      BY <2>7 DEF Mutate
    <2>8. ASSUME NEW e \in Leases, NEW c \in Attempts \cup Ops, NoTarget(c, e) PROVE UNCHANGED returned
      BY <2>8 DEF NoTarget, RunnerUnchanged
    <2>9. ASSUME NEW q \in Uploads, Reap(q) PROVE UNCHANGED returned
      BY <2>9 DEF Reap
    <2> QED BY <1>2, <2>1, <2>2, <2>3, <2>4, <2>5, <2>6, <2>7, <2>8, <2>9 DEF Foreground
  <1> QED BY <1>1, <1>2, StepSeen

\* What was given back stays what Pi never took.
LEMMA ReturnStep ==
  ASSUME InputInv, [Next]_vars
  PROVE  ReturnInv'
  <1>2. ASSUME NEW r \in Runs, NEW k \in Keys, <<r, k>> \in returned'
        PROVE  /\ Closed(r) /\ run[r].state # "absent"
               /\ native.sub[k].run = r => native.sub[k].status \in {"queued", "aborted"}
    <2>1. CASE <<r, k>> \in returned
      BY <2>1 DEF InputInv, ReturnInv
    <2>2. CASE <<r, k>> \notin returned
      <3>1. PICK s \in Runs : ReadBatch(s)
        BY <1>2, <2>2, ReturnedFrom
      <3>2. r = s /\ k \in Batch(r)
        BY <1>2, <2>2, <3>1 DEF ReadBatch
      <3>3. Closed(r)
        BY <3>1, <3>2 DEF ReadBatch, Readable
      <3>4. run[r].state # "absent"
        BY <3>3 DEF Closed, Settled, Terminal
      <3> QED BY <3>2, <3>3, <3>4, BatchMeans
    <2> QED BY <2>1, <2>2
  <1>3. ASSUME NEW r \in Runs, NEW k \in Keys, <<r, k>> \in returned'
        PROVE  /\ Closed(r)' /\ run'[r].state # "absent"
               /\ native'.sub[k].run = r => native'.sub[k].status \in {"queued", "aborted"}
    BY <1>2, <1>3, ClosedStays
  <1> QED BY <1>3 DEF ReturnInv

-----------------------------------------------------------------------------
(* Requests: what holds of one that a step leaves alone.                     *)

\* A writer is sealed where the last of its records is projected.
LEMMA SealedEmpties ==
  ASSUME InputInv, [Next]_vars, NEW e \in Leases, ~leases[e].sealed, leases'[e].sealed
  PROVE  tail' = <<>>
  <1>1. ASSUME NEW d \in Leases, NEW r \in Runs, NEW c \in Record, Projects(d, r, c)
        PROVE  tail' = <<>>
    BY <1>1 DEF Projects
  <1>2. ASSUME NEW d \in Leases, Acts(d) PROVE FALSE
    BY <1>2 DEF Acts, rows
  <1>3. ASSUME NEW r \in Runs, RowMoves(r) PROVE FALSE
    BY <1>3 DEF RowMoves
  <1>4. ASSUME NEW r \in Runs, NEW d \in Leases, Claim(r, d) PROVE FALSE
    <2>1. leases'[d].sealed = leases[d].sealed /\ \A a \in Leases : a # d => leases'[a] = leases[a]
      BY <1>4, ClaimFacts
    <2> QED BY <2>1
  <1>5. ~Rests
    BY DEF Rests, rows
  <1> QED BY <1>1, <1>2, <1>3, <1>4, <1>5, StepKinds DEF Kinds

\* The pin of the request that placed a message holds until it is settled.
LEMMA HoldsKept ==
  ASSUME InputInv, [Next]_vars, NEW i \in Attempts, NEW k \in Keys, Holds(i, k),
         attempt'[i].key = attempt[i].key, attempt'[i].pin = attempt[i].pin,
         attempt'[i].run = attempt[i].run, attempt'[i].lease = attempt[i].lease,
         attempt'[i].step = "done" \/ (attempt'[i].step = attempt[i].step /\ attempt'[i].answer = attempt[i].answer)
  PROVE  Holds(i, k)'
  <1> DEFINE r == attempt[i].run
             e == attempt[i].lease
  <1>1. /\ r # 0 /\ r = RunAt(e) /\ e \in Leases /\ Issued(e) /\ r = native.sub[k].run
        /\ <<r, k>> \in native.meta
    <2>1. r = RunAt(e) /\ e \in Leases /\ Issued(e)
      BY Rows DEF InputInv, AttemptInv, AttemptRowInv, Holds
    <2>2. r # 0 /\ r = native.sub[k].run
      BY <2>1 DEF Holds, Issued, RunAt
    <2> QED BY <2>1, <2>2 DEF InputInv, JournalInv, NativeInv
  <1>2. native'.sub[k].run = r /\ <<r, k>> \in native'.meta
    BY <1>1, GrowsStep DEF Grows
  <1>3. (view'.sub[k].run = r /\ <<r, k>> \in view'.meta) \/ ~leases'[e].sealed
    <2>1. CASE view.sub[k].run = r /\ <<r, k>> \in view.meta
      BY <1>1, <2>1, GrowsStep DEF Grows
    <2>2. CASE ~leases[e].sealed /\ leases'[e].sealed
      <3>1. tail' = <<>>
        BY <1>1, <2>2, SealedEmpties
      <3>2. DOMAIN tail' = {}
        BY <3>1
      <3>3. ViewInv'
        BY ViewStep
      <3>4. \A p \in native'.meta : p \in view'.meta
        BY <3>2, <3>3 DEF ViewInv
      <3>5. view'.sub[k].run = native'.sub[k].run
        BY <3>2, <3>3 DEF ViewInv
      <3> QED BY <1>2, <3>4, <3>5
    <2> QED BY <2>1, <2>2 DEF Holds
  <1> QED BY <1>2, <1>3 DEF Holds

\* The files of one message, where the step does not place it.
LEMMA FilesKept ==
  ASSUME InputInv, [Next]_vars, NEW k \in Uploads, native'.sub[k].run = native.sub[k].run,
         upload[k] = "accepted" => upload'[k] = "accepted",
         \A i \in Attempts : Holds(i, k) => Holds(i, k)' \/ upload'[k] = "accepted"
  PROVE  native'.sub[k].run # 0 /\ native'.sub[k].status # "withdrawn" =>
           upload'[k] = "accepted" \/ \E i \in Attempts : Holds(i, k)'
  <1>1. k \in Keys
    BY InputsAssumption
  <1>2. native'.sub[k].status # "withdrawn" => native.sub[k].status # "withdrawn"
    BY <1>1, DoneStays
  <1> QED BY <1>2 DEF InputInv, FileInv

\* What a request knows stays true.
LEMMA AttemptKept ==
  ASSUME InputInv, [Next]_vars, NEW i \in Attempts, attempt'[i] = attempt[i], lock' = i <=> lock = i
  PROVE  AttemptRowInv(i)'
  <1>1. AttemptRowInv(i) /\ i # None
    BY InputsAssumption DEF InputInv, AttemptInv
  <1>2. attempt'[i].step \in {"admitted", "sent"} \/ attempt'[i].pin = "held" =>
          /\ attempt'[i].lease # 0 /\ Issued(attempt[i].lease)'
          /\ attempt'[i].run = RunAt(attempt[i].lease)'
    <2> HAVE attempt'[i].step \in {"admitted", "sent"} \/ attempt'[i].pin = "held"
    <2>1. attempt[i].lease # 0 /\ Issued(attempt[i].lease) /\ attempt[i].run = RunAt(attempt[i].lease)
      BY <1>1 DEF AttemptRowInv
    <2>2. PICK e \in Leases : e = attempt[i].lease
      BY <2>1, Rows DEF InputInv
    <2>3. Issued(e)' /\ attempt'[i].run = RunAt(e)' /\ e = attempt'[i].lease
      BY <2>1, <2>2, GrowsStep DEF Grows
    <2> QED BY <2>1, <2>2, <2>3 DEF Issued, RunAt
  <1>3. attempt'[i].step = "reading" =>
         /\ RunOf(attempt[i].key)' = {}
         /\ AllClosed' => native'.sub[attempt'[i].key].run = 0
    <2> HAVE attempt'[i].step = "reading"
    <2>1. PICK k \in Keys : k = attempt[i].key
      BY <1>1 DEF AttemptRowInv
    <2>2. RunOf(k) = {} /\ (AllClosed => native.sub[k].run = 0) /\ lock' # None
      BY <1>1, <2>1 DEF AttemptRowInv
    <2>3. RunOf(k)' = {}
      BY <2>2, RunOfStep
    <2>4. AllClosed' => native'.sub[k].run = 0
      BY <2>2, GrowsStep DEF Grows
    <2>5. attempt'[i].key = k
      BY <2>1
    <2> QED BY <2>3, <2>4, <2>5 DEF RunOf
  <1>4. attempt'[i].answer = "accepted" => RunOf(attempt[i].key)' # {} \/ native'.sub[attempt'[i].key].run # 0
    <2> HAVE attempt'[i].answer = "accepted"
    <2>1. attempt[i].key \in Keys
      BY <1>1 DEF AttemptRowInv
    <2>2. PICK k \in Keys : k = attempt[i].key
      BY <2>1
    <2>3. RunOf(k) # {} \/ native.sub[k].run # 0
      BY <1>1, <2>2 DEF AttemptRowInv
    <2>4. RunOf(k)' # {} \/ native'.sub[k].run # 0
      BY <2>3, RunOfStep, GrowsStep DEF Grows
    <2>5. attempt'[i].key = k
      BY <2>2
    <2> QED BY <2>4, <2>5 DEF RunOf
  <1>5. /\ attempt'[i].step = "reading" <=> lock' = i
        /\ attempt'[i].step # "new" \/ attempt'[i].again => attempt'[i].key \in Keys
        /\ attempt'[i].pin = "held" => attempt'[i].step \in {"admitted", "sent", "done"}
        /\ attempt'[i].step \in {"new", "reading", "admitted"} => attempt'[i].answer = "none"
    BY <1>1 DEF AttemptRowInv
  <1> QED BY <1>2, <1>3, <1>4, <1>5 DEF AttemptRowInv

\* A command and the execution it reaches.
LEMMA CommandKept ==
  ASSUME InputInv, [Next]_vars, NEW i \in Attempts, NEW e \in Leases,
         Refers(i, e)' =>
           /\ Refers(i, e) /\ attempt'[i].key = attempt[i].key
           /\ attempt'[i].step # "new" \/ attempt'[i].again,
         exec'[e].line = i =>
           exec[e].line = i \/ (<<RunAt(e), attempt'[i].key>> \in native'.meta /\ Issued(e)),
         Reaches(i, e)' /\ Working(e)' => attempt'[i].lease = e /\ attempt'[i].run = RunAt(e)' /\ Waits(i)',
         Refers(i, e)' /\ Working(e) /\ attempt[i].key \in Uploads
             /\ (attempt[i].pin = "held" \/ upload[attempt[i].key] = "accepted") =>
           attempt'[i].pin = "held" \/ upload'[attempt[i].key] = "accepted"
  PROVE  CommandRowInv(i, e)'
  <1>1. CommandRowInv(i, e)
    BY DEF InputInv, CommandInv
  <1>2. ASSUME Refers(i, e)'
        PROVE  /\ Issued(e)' /\ Issued(e) /\ (RunOf(attempt[i].key)' # {} => exec'[e].phase = "gone")
               /\ Working(e)' => Working(e)
    <2>1. Refers(i, e) /\ Issued(e) /\ attempt'[i].key = attempt[i].key
      BY <1>1, <1>2 DEF CommandRowInv
    <2>2. Issued(e)' /\ (exec[e].phase = "gone" => exec'[e].phase = "gone") /\ (Working(e)' => Working(e))
      BY <2>1, GrowsStep DEF Grows, Working
    <2>3. attempt[i].key \in Keys
      BY <1>1, <2>1 DEF InputInv, AttemptInv, AttemptRowInv, CommandRowInv
    <2>4. PICK k \in Keys : k = attempt[i].key
      BY <2>3
    <2>5. RunOf(k)' # {} => exec'[e].phase = "gone"
      <3>1. CASE RunOf(k)' = RunOf(k)
        BY <1>1, <2>1, <2>2, <2>4, <3>1 DEF CommandRowInv
      <3>2. CASE AllClosed
        <4>1. ~Alive(e)
          BY <3>2, AllClosedMeans
        <4>2. exec[e].phase # "none"
          BY <2>1 DEF InputInv, LedgerInv, WriterInv
        <4> QED BY <2>2, <4>1, <4>2 DEF Alive
      <3> QED BY <3>1, <3>2, RunOfStep
    <2>6. attempt'[i].key = k
      BY <2>1, <2>4
    <2> QED BY <2>1, <2>2, <2>5, <2>6 DEF RunOf
  <1>3. exec'[e].line = i => <<RunAt(e)', attempt'[i].key>> \in native'.meta
    <2> HAVE exec'[e].line = i
    <2>1. Refers(i, e)'
      BY DEF Refers, Reaches
    <2>2. Issued(e) /\ attempt'[i].key = attempt[i].key
      BY <1>2, <2>1
    <2>3. RunAt(e)' = RunAt(e) /\ native.meta \subseteq native'.meta
      BY <2>2, GrowsStep DEF Grows
    <2> QED BY <1>1, <2>2, <2>3 DEF CommandRowInv
  <1>4. ASSUME Refers(i, e)', Working(e)', attempt'[i].key \in Uploads
        PROVE  attempt'[i].pin = "held" \/ upload'[attempt'[i].key] = "accepted"
    <2>1. Refers(i, e) /\ attempt'[i].key = attempt[i].key /\ Working(e)
      BY <1>2, <1>4
    <2> QED BY <1>1, <1>4, <2>1 DEF CommandRowInv
  <1> QED BY <1>2, <1>3, <1>4 DEF CommandRowInv

\* A request that has been answered so that it may look again, or was not sent, reaches none.
LEMMA ReachesWaits ==
  ASSUME InputInv, NEW i \in Attempts, NEW e \in Leases, Reaches(i, e), Working(e)
  PROVE  Waits(i) /\ attempt[i].lease = e /\ attempt[i].run = RunAt(e) /\ Issued(e)
  BY DEF InputInv, CommandInv, CommandRowInv, Refers

\* What a command knows stays true where its request is left alone.
LEMMA CommandStays ==
  ASSUME InputInv, [Next]_vars, NEW i \in Attempts, NEW e \in Leases, attempt'[i] = attempt[i],
         calls'[i][e] > 0 => calls[i][e] > 0, exec'[e].line = i => exec[e].line = i,
         attempt[i].key \in Uploads /\ upload[attempt[i].key] = "accepted" =>
           upload'[attempt[i].key] = "accepted"
  PROVE  CommandRowInv(i, e)'
  <1>1. Refers(i, e)' => Refers(i, e)
    BY DEF Refers, Reaches
  <1>2. Refers(i, e)' => attempt'[i].step # "new" \/ attempt'[i].again
    BY <1>1 DEF InputInv, CommandInv, CommandRowInv
  <1>3. Reaches(i, e)' /\ Working(e)' => attempt'[i].lease = e /\ attempt'[i].run = RunAt(e)' /\ Waits(i)'
    <2> HAVE Reaches(i, e)' /\ Working(e)'
    <2>1. Reaches(i, e) /\ Refers(i, e)
      BY DEF Reaches, Refers
    <2>2. Issued(e)
      BY <2>1 DEF InputInv, CommandInv, CommandRowInv
    <2>3. Working(e) /\ RunAt(e)' = RunAt(e)
      BY <2>2, GrowsStep DEF Grows, Working
    <2>4. Waits(i) /\ attempt[i].lease = e /\ attempt[i].run = RunAt(e)
      BY <2>1, <2>3, ReachesWaits
    <2> QED BY <2>3, <2>4 DEF Waits
  <1> QED BY <1>1, <1>2, <1>3, CommandKept

-----------------------------------------------------------------------------
(* The types of the requests.                                                *)

OpRow == [key : Keys \cup {NoKey}, kind : {"none", "edit", "withdraw"},
          seen : SUBSET (Keys \X SUBSET Ops), run : 0..NumRuns,
          answer : {"none", "applied", "refused"}]

RequestsTyped ==
  /\ lock \in Attempts \cup {None} /\ attempt \in [Attempts -> AttemptRow]
  /\ op \in [Ops -> OpRow] /\ calls \in [Attempts \cup Ops -> [Leases -> 0..2]]
  /\ upload \in [Uploads -> {"draft", "accepted", "deleted"}] /\ returned \subseteq Runs \X Keys

\* The types are those of the world and of the requests.
LEMMA TypesMeet ==
  Typed <=> World /\ RequestsTyped
  BY DEF Typed, TypeOK, World, RequestsTyped, State, RunRow, ExecRow, AttemptRow, OpRow

\* An answer, or none, in the row of one request.
LEMMA AttemptMeans ==
  ASSUME InputInv, NEW i \in Attempts, NEW x \in AttemptRow, attempt' = [attempt EXCEPT ![i] = x]
  PROVE  /\ attempt' \in [Attempts -> AttemptRow] /\ attempt'[i] = x
         /\ \A j \in Attempts : j # i => attempt'[j] = attempt[j]
  BY Rows DEF InputInv

\* What requests may rely on.
RequestsInv == RequestsTyped /\ AttemptInv /\ CommandInv /\ OpInv /\ FileInv

\* A step nobody asked for leaves the requests as they are.
LEMMA BackgroundStep ==
  ASSUME InputInv, [Next]_vars, Background
  PROVE  RequestsInv'
  <1>1. UNCHANGED <<lock, attempt, op, calls, upload, returned>>
    BY DEF Background, requests
  <1>2. RequestsTyped'
    <2>1. RequestsTyped
      BY TypesMeet DEF InputInv
    <2> QED BY <1>1, <2>1 DEF RequestsTyped
  <1>3. AttemptInv'
    BY <1>1, AttemptKept DEF AttemptInv
  <1>4. \A e \in Leases, i \in Attempts : exec'[e].line = i => exec[e].line = i
    <2> SUFFICES ASSUME NEW e \in Leases, NEW i \in Attempts, exec'[e].line = i PROVE exec[e].line = i
      OBVIOUS
    <2>1. i # None
      BY InputsAssumption
    <2>2. ASSUME NEW d \in Leases, Works(d) PROVE exec[e].line = i
      BY <2>1, <2>2 DEF Works, Acts
    <2>3. ASSUME NEW r \in Runs, Rewrites(r) PROVE exec[e].line = i
      BY <2>3 DEF Rewrites, RowMoves
    <2>4. ASSUME NEW r \in Runs, NEW d \in Leases, Claim(r, d) PROVE exec[e].line = i
      <3>1. exec'[d].line = None /\ \A a \in Leases : a # d => exec'[a] = exec[a]
        BY <2>4, ClaimFacts
      <3> QED BY <2>1, <3>1
    <2>5. ASSUME NEW d \in Leases, NEW r \in Runs, NEW c \in Record, Projects(d, r, c)
          PROVE  exec[e].line = i
      BY <2>5 DEF Projects
    <2>6. Rests => UNCHANGED exec
      BY DEF Rests
    <2> QED BY <2>2, <2>3, <2>4, <2>5, <2>6 DEF Background
  <1>5. \A e \in Leases, i \in Attempts : CommandRowInv(i, e)'
    BY <1>1, <1>4, CommandStays
  <1>6. CommandInv'
    BY <1>1, <1>5 DEF CommandInv, InputInv
  <1>7. OpInv'
    BY <1>1 DEF OpInv, InputInv
  <1>8. FileInv'
    <2>1. \A i \in Attempts : attempt'[i].pin = "held" =>
            attempt'[i].key \in Uploads /\ upload'[attempt'[i].key] # "deleted"
      <3>1. \A i \in Attempts : attempt[i].pin = "held" =>
              attempt[i].key \in Uploads /\ upload[attempt[i].key] # "deleted"
        BY DEF InputInv, FileInv
      <3> QED BY <1>1, <3>1
    <2>2. ASSUME NEW k \in Uploads
          PROVE  /\ RunOf(k)' # {} => upload'[k] = "accepted"
                 /\ native'.sub[k].run # 0 /\ native'.sub[k].status # "withdrawn" =>
                      upload'[k] = "accepted" \/ \E i \in Attempts : Holds(i, k)'
      <3>1. k \in Keys
        BY InputsAssumption
      <3>2. \A i \in Attempts : Holds(i, k) => Holds(i, k)'
        BY <1>1, <3>1, HoldsKept
      <3>3. native'.sub[k].run = native.sub[k].run
        <4>1. ASSUME NEW e \in Leases, Works(e) PROVE native'.sub[k].run = native.sub[k].run
          BY <3>1, <4>1 DEF Works
        <4>2. ASSUME NEW r \in Runs, Rewrites(r) PROVE UNCHANGED native
          BY <4>2 DEF Rewrites, RowMoves, journal
        <4>3. ASSUME NEW r \in Runs, NEW e \in Leases, Claim(r, e) PROVE UNCHANGED native
          BY <4>3 DEF Claim, journal
        <4>4. ASSUME NEW e \in Leases, NEW r \in Runs, NEW c \in Record, Projects(e, r, c)
              PROVE  UNCHANGED native
          BY <4>4 DEF Projects
        <4>5. Rests => UNCHANGED native
          BY DEF Rests, journal
        <4> QED BY <4>1, <4>2, <4>3, <4>4, <4>5 DEF Background
      <3>4. RunOf(k)' = RunOf(k)
        <4>1. \A r \in Runs : run'[r].key = run[r].key
          <5>1. ASSUME NEW i \in Attempts, AcceptInitial(i) PROVE FALSE
            <6>1. attempt[i].step = "reading" /\ attempt'[i].step = "done"
              BY <5>1, Rows DEF AcceptInitial, InputInv, AttemptRow
            <6> QED BY <1>1, <6>1
          <5> QED BY <5>1, KeysStay
        <4>2. {r \in Runs : run'[r].key = k} = {r \in Runs : run[r].key = k}
          BY <4>1
        <4> QED BY <4>2 DEF RunOf
      <3>5. RunOf(k)' # {} => upload'[k] = "accepted"
        BY <1>1, <3>4 DEF InputInv, FileInv
      <3> QED BY <1>1, <3>2, <3>3, <3>5, FilesKept
    <2> QED BY <2>1, <2>2 DEF FileInv
  <1> QED BY <1>2, <1>3, <1>6, <1>7, <1>8 DEF RequestsInv

\* A step of one request, the others left alone.
LEMMA OneRequest ==
  ASSUME InputInv, [Next]_vars, NEW i \in Attempts, NEW x \in AttemptRow,
         attempt' = [attempt EXCEPT ![i] = x], UNCHANGED <<op, returned>>,
         lock' \in Attempts \cup {None}, \A j \in Attempts : j # i => (lock' = j <=> lock = j),
         calls' \in [Attempts \cup Ops -> [Leases -> 0..2]],
         \A c \in Attempts \cup Ops, e \in Leases : c # i /\ calls'[c][e] > 0 => calls[c][e] > 0,
         \A j \in Attempts, e \in Leases : j # i /\ exec'[e].line = j => exec[e].line = j,
         upload' \in [Uploads -> {"draft", "accepted", "deleted"}],
         \A k \in Uploads : /\ upload[k] = "accepted" => upload'[k] = "accepted"
                            /\ upload'[k] = "deleted" => upload[k] = "deleted",
         AttemptRowInv(i)', \A e \in Leases : CommandRowInv(i, e)',
         x.pin = "held" => x.key \in Uploads /\ upload'[x.key] # "deleted",
         \A k \in Uploads :
           /\ Holds(i, k) => Holds(i, k)' \/ upload'[k] = "accepted"
           /\ RunOf(k)' # {} => RunOf(k) # {} \/ upload'[k] = "accepted"
           /\ native'.sub[k].run = native.sub[k].run \/ Holds(i, k)' \/ upload'[k] = "accepted"
  PROVE  RequestsInv'
  <1>1. attempt' \in [Attempts -> AttemptRow] /\ attempt'[i] = x
        /\ \A j \in Attempts : j # i => attempt'[j] = attempt[j]
    BY AttemptMeans
  <1>2. RequestsTyped'
    <2>1. RequestsTyped
      BY TypesMeet DEF InputInv
    <2> QED BY <1>1, <2>1 DEF RequestsTyped
  <1>3. ASSUME NEW j \in Attempts PROVE AttemptRowInv(j)'
    <2>1. CASE j = i
      BY <2>1
    <2>2. CASE j # i
      BY <1>1, <2>2, AttemptKept
    <2> QED BY <2>1, <2>2
  <1>4. ASSUME NEW j \in Attempts, NEW e \in Leases PROVE CommandRowInv(j, e)'
    <2>1. CASE j = i
      BY <2>1
    <2>2. CASE j # i
      BY <1>1, <2>2, CommandStays
    <2> QED BY <2>1, <2>2
  <1>5. CommandInv'
    <2>1. \A o \in Ops : o # i
      BY InputsAssumption
    <2>2. ASSUME NEW o \in Ops, NEW e \in Leases, calls'[o][e] > 0 PROVE op'[o].kind # "none"
      BY <2>1, <2>2 DEF InputInv, CommandInv
    <2> QED BY <1>4, <2>2 DEF CommandInv
  <1>6. OpInv'
    BY DEF OpInv, InputInv
  <1>7. FileInv'
    <2>1. ASSUME NEW j \in Attempts, attempt'[j].pin = "held"
          PROVE  attempt'[j].key \in Uploads /\ upload'[attempt'[j].key] # "deleted"
      <3>1. CASE j = i
        BY <1>1, <2>1, <3>1
      <3>2. CASE j # i
        BY <1>1, <2>1, <3>2 DEF InputInv, FileInv
      <3> QED BY <3>1, <3>2
    <2>2. ASSUME NEW k \in Uploads
          PROVE  /\ RunOf(k)' # {} => upload'[k] = "accepted"
                 /\ native'.sub[k].run # 0 /\ native'.sub[k].status # "withdrawn" =>
                      upload'[k] = "accepted" \/ \E j \in Attempts : Holds(j, k)'
      <3>1. k \in Keys
        BY InputsAssumption
      <3>2. ASSUME NEW j \in Attempts, Holds(j, k) PROVE Holds(j, k)' \/ upload'[k] = "accepted"
        <4>1. CASE j = i
          BY <3>2, <4>1
        <4>2. CASE j # i
          BY <1>1, <3>1, <3>2, <4>2, HoldsKept
        <4> QED BY <4>1, <4>2
      <3>3. RunOf(k)' # {} => upload'[k] = "accepted"
        BY DEF InputInv, FileInv
      <3>4. CASE native'.sub[k].run = native.sub[k].run
        BY <3>2, <3>3, <3>4, FilesKept
      <3> QED BY <3>3, <3>4
    <2> QED BY <2>1, <2>2 DEF FileInv
  <1> QED BY <1>2, <1>3, <1>5, <1>6, <1>7 DEF RequestsInv, AttemptInv

\* What is known of a request and of what it was sent to.
LEMMA RequestOf ==
  ASSUME InputInv, NEW i \in Attempts
  PROVE  /\ AttemptRowInv(i) /\ attempt[i] \in AttemptRow /\ attempt \in [Attempts -> AttemptRow]
         /\ i # None /\ lock \in Attempts \cup {None}
         /\ \A e \in Leases : CommandRowInv(i, e)
         /\ calls \in [Attempts \cup Ops -> [Leases -> 0..2]]
         /\ upload \in [Uploads -> {"draft", "accepted", "deleted"}]
         /\ attempt[i].pin = "held" => attempt[i].key \in Uploads /\ upload[attempt[i].key] # "deleted"
  <1>1. RequestsTyped
    BY TypesMeet DEF InputInv
  <1> QED BY <1>1, InputsAssumption DEF InputInv, RequestsTyped, AttemptInv, CommandInv, FileInv

\* An attempt whose step is none in which its pin counts.
LEMMA HoldsNot ==
  ASSUME NEW i \in Attempts, NEW k,
         attempt[i].step \notin {"sent", "done"} \/ attempt[i].pin # "held"
           \/ (attempt[i].step = "sent" /\ attempt[i].answer \in {"none", "closed"})
  PROVE  ~Holds(i, k)
  BY DEF Holds

\* With the rows as they are, so are the Runs of messages.
LEMMA RunOfSame ==
  ASSUME UNCHANGED run
  PROVE  \A k \in Keys : RunOf(k)' = RunOf(k)
  BY DEF RunOf

\* A step of one request that reaches no execution.
LEMMA QuietRequest ==
  ASSUME InputInv, [Next]_vars, NEW i \in Attempts, NEW x \in AttemptRow,
         attempt' = [attempt EXCEPT ![i] = x], UNCHANGED <<exec, native, op, returned>>,
         lock' = lock \/ (lock \in {i, None} /\ lock' \in {i, None}),
         calls' = calls \/ \E e \in Leases, n \in 0..2 : calls' = [calls EXCEPT ![i][e] = n],
         upload' = upload \/ \E k : upload' = [u \in Uploads |-> IF u = k THEN "accepted" ELSE upload[u]],
         AttemptRowInv(i)', \A e \in Leases : CommandRowInv(i, e)',
         x.pin = "held" => x.key \in Uploads /\ upload'[x.key] # "deleted",
         \A k \in Uploads : Holds(i, k) => Holds(i, k)' \/ upload'[k] = "accepted",
         \A k \in Uploads : RunOf(k)' # {} => RunOf(k) # {} \/ upload'[k] = "accepted"
  PROVE  RequestsInv'
  <1>1. /\ i # None /\ lock \in Attempts \cup {None}
        /\ calls \in [Attempts \cup Ops -> [Leases -> 0..2]]
        /\ upload \in [Uploads -> {"draft", "accepted", "deleted"}]
    BY RequestOf
  <1>2. lock' \in Attempts \cup {None} /\ \A j \in Attempts : j # i => (lock' = j <=> lock = j)
    BY <1>1, InputsAssumption
  <1>3. /\ calls' \in [Attempts \cup Ops -> [Leases -> 0..2]]
        /\ \A c \in Attempts \cup Ops, e \in Leases : c # i /\ calls'[c][e] > 0 => calls[c][e] > 0
    <2>1. CASE calls' = calls
      BY <1>1, <2>1
    <2>2. CASE \E e \in Leases, n \in 0..2 : calls' = [calls EXCEPT ![i][e] = n]
      <3>1. PICK e \in Leases, n \in 0..2 : calls' = [calls EXCEPT ![i][e] = n]
        BY <2>2
      <3> QED BY <1>1, <3>1
    <2> QED BY <2>1, <2>2
  <1>4. /\ upload' \in [Uploads -> {"draft", "accepted", "deleted"}]
        /\ \A k \in Uploads : /\ upload[k] = "accepted" => upload'[k] = "accepted"
                              /\ upload'[k] = "deleted" => upload[k] = "deleted"
    BY <1>1
  <1>5. \A j \in Attempts, e \in Leases : j # i /\ exec'[e].line = j => exec[e].line = j
    OBVIOUS
  <1>6. \A k \in Uploads :
          /\ Holds(i, k) => Holds(i, k)' \/ upload'[k] = "accepted"
          /\ RunOf(k)' # {} => RunOf(k) # {} \/ upload'[k] = "accepted"
          /\ native'.sub[k].run = native.sub[k].run \/ Holds(i, k)' \/ upload'[k] = "accepted"
    OBVIOUS
  <1>7. UNCHANGED <<op, returned>>
    OBVIOUS
  <1> QED BY <1>2, <1>3, <1>4, <1>5, <1>6, <1>7, OneRequest

-----------------------------------------------------------------------------
(* The steps of a request.                                                   *)

\* The transaction of a request finds its message placed, or reads on with the row.
LEMMA BeginStep ==
  ASSUME InputInv, [Next]_vars, NEW i \in Attempts, NEW k \in Keys, Begin(i, k)
  PROVE  RequestsInv'
  <1> DEFINE found == RunOf(k) # {} \/ view.sub[k].run # 0
             a == [attempt[i] EXCEPT !.key = k, !.step = "done", !.answer = "accepted"]
             b == [attempt[i] EXCEPT !.key = k, !.step = "reading"]
  <1>1. /\ AttemptRowInv(i) /\ attempt[i] \in AttemptRow /\ i # None
        /\ \A e \in Leases : CommandRowInv(i, e)
    BY RequestOf
  <1>2. /\ lock = None /\ attempt[i].step = "new" /\ (attempt[i].again => attempt[i].key = k)
        /\ UNCHANGED <<run, leases, exec, native, view, tail, op, calls, upload, returned>>
    BY DEF Begin, rows, journal
  <1>3. attempt[i].pin # "held" /\ attempt[i].answer = "none"
    BY <1>1, <1>2 DEF AttemptRowInv
  <1>4. /\ a \in AttemptRow /\ a.key = k /\ a.step = "done" /\ a.answer = "accepted" /\ a.pin = attempt[i].pin
        /\ a.run = attempt[i].run /\ a.lease = attempt[i].lease
        /\ b \in AttemptRow /\ b.key = k /\ b.step = "reading" /\ b.answer = "none" /\ b.pin = attempt[i].pin
        /\ b.run = attempt[i].run /\ b.lease = attempt[i].lease
    BY <1>1, <1>3 DEF AttemptRow, Steps, Answers
  <1>5. \/ found /\ attempt' = [attempt EXCEPT ![i] = a] /\ lock' = lock
        \/ ~found /\ attempt' = [attempt EXCEPT ![i] = b] /\ lock' = i
    <2>1. attempt \in [Attempts -> AttemptRow]
      BY RequestOf
    <2> QED BY <2>1 DEF Begin
  <1> HIDE DEF a, b
  <1>6. PICK x \in AttemptRow :
          /\ attempt' = [attempt EXCEPT ![i] = x] /\ x.key = k /\ x.pin # "held"
          /\ \/ found /\ x.step = "done" /\ x.answer = "accepted" /\ lock' = None
             \/ ~found /\ x.step = "reading" /\ x.answer = "none" /\ lock' = i
    BY <1>2, <1>3, <1>4, <1>5
  <1>7. attempt'[i] = x
    BY <1>6, AttemptMeans
  <1>8. RunOf(k)' = RunOf(k)
    BY <1>2, RunOfSame
  <1>9. found => RunOf(k) # {} \/ native.sub[k].run # 0
    BY DEF InputInv, JournalInv, ViewInv
  <1>10. AllClosed /\ view.sub[k].run = 0 => native.sub[k].run = 0
    <2> HAVE AllClosed /\ view.sub[k].run = 0
    <2>1. \A n \in DOMAIN tail : tail[n].kind = "seal"
      BY AllClosedMeans
    <2>2. view.sub[k].run # native.sub[k].run => \E n \in DOMAIN tail : tail[n].kind = "submit" /\ tail[n].key = k
      BY DEF InputInv, JournalInv, ViewInv
    <2> QED BY <2>1, <2>2
  <1>11. AllClosed' <=> AllClosed
    BY <1>2 DEF AllClosed, Closed, Settled
  <1>12. AttemptRowInv(i)'
    <2>1. RunOf(attempt[i].key)' = RunOf(k)
      BY <1>6, <1>7, <1>8 DEF RunOf
    <2> QED BY <1>1, <1>2, <1>6, <1>7, <1>9, <1>10, <1>11, <2>1 DEF AttemptRowInv
  <1>13. ASSUME NEW e \in Leases PROVE CommandRowInv(i, e)'
    <2>1. Refers(i, e)' => Reaches(i, e)
      BY <1>2, <1>6, <1>7 DEF Refers, Reaches
    <2>2. Refers(i, e)' => Refers(i, e) /\ attempt[i].again
      BY <1>1, <1>2, <2>1 DEF Refers, CommandRowInv
    <2>3. ~(Reaches(i, e) /\ Working(e))
      BY <1>2, ReachesWaits DEF Waits
    <2>4. Reaches(i, e)' => Refers(i, e)'
      BY DEF Refers
    <2>5. Working(e)' <=> Working(e)
      BY <1>2 DEF Working
    <2>6. Refers(i, e)' => attempt'[i].key = attempt[i].key /\ (attempt'[i].step # "new" \/ attempt'[i].again)
      BY <1>2, <1>6, <1>7, <2>2
    <2> QED BY <1>2, <2>1, <2>2, <2>3, <2>4, <2>5, <2>6, CommandKept
  <1>14. \A q \in Uploads : ~Holds(i, q) /\ RunOf(q)' = RunOf(q)
    BY <1>2, <1>3, HoldsNot, RunOfSame, InputsAssumption
  <1>15. /\ lock \in {i, None} /\ lock' \in {i, None} /\ UNCHANGED <<exec, native, op, returned>>
         /\ calls' = calls /\ upload' = upload
    BY <1>2, <1>6
  <1>16. x.pin = "held" => x.key \in Uploads /\ upload'[x.key] # "deleted"
    BY <1>6
  <1>17. attempt' = [attempt EXCEPT ![i] = x]
    BY <1>6
  <1> QED BY <1>12, <1>13, <1>14, <1>15, <1>16, <1>17, QuietRequest

\* The message becomes the initial input of a Run.
LEMMA AcceptInitialStep ==
  ASSUME InputInv, [Next]_vars, NEW i \in Attempts, AcceptInitial(i)
  PROVE  RequestsInv'
  <1> DEFINE x == [attempt[i] EXCEPT !.step = "done", !.answer = "accepted"]
  <1>1. /\ AttemptRowInv(i) /\ attempt[i] \in AttemptRow /\ attempt \in [Attempts -> AttemptRow] /\ i # None
        /\ \A e \in Leases : CommandRowInv(i, e)
        /\ upload \in [Uploads -> {"draft", "accepted", "deleted"}]
    BY RequestOf
  <1>2. /\ attempt[i].step = "reading" /\ lock' = None
        /\ UNCHANGED <<leases, exec, native, view, tail, op, calls, returned>>
        /\ upload' = [u \in Uploads |-> IF u = attempt[i].key THEN "accepted" ELSE upload[u]]
    BY DEF AcceptInitial, journal
  <1>3. attempt[i].pin # "held" /\ lock = i
    BY <1>1, <1>2 DEF AttemptRowInv
  <1>4. x \in AttemptRow /\ x.key = attempt[i].key /\ x.step = "done" /\ x.answer = "accepted" /\ x.pin = attempt[i].pin
    BY <1>1 DEF AttemptRow, Steps, Answers
  <1>5. attempt' = [attempt EXCEPT ![i] = x]
    BY <1>1 DEF AcceptInitial
  <1> HIDE DEF x
  <1>6. attempt'[i] = x
    BY <1>4, <1>5, AttemptMeans
  <1>7. /\ attempt[i].key \in Keys /\ RunOf(attempt[i].key)' # {}
        /\ \A k \in Keys : k # attempt[i].key => RunOf(k)' = RunOf(k)
    <2>1. \E r \in Runs : RunOf(attempt[i].key)' = {r}
      BY InitialPlaced
    <2> QED BY <2>1, InitialPlaced
  <1>8. AttemptRowInv(i)'
    BY <1>1, <1>2, <1>3, <1>4, <1>6, <1>7 DEF AttemptRowInv
  <1>9. ASSUME NEW e \in Leases PROVE CommandRowInv(i, e)'
    <2>1. Refers(i, e)' => Reaches(i, e) /\ Refers(i, e)
      BY <1>2, <1>4, <1>6 DEF Refers, Reaches
    <2>2. ~(Reaches(i, e) /\ Working(e))
      BY <1>2, ReachesWaits DEF Waits
    <2>3. Reaches(i, e)' => Refers(i, e)'
      BY DEF Refers
    <2>4. Working(e)' <=> Working(e)
      BY <1>2 DEF Working
    <2> QED BY <1>2, <1>4, <1>6, <2>1, <2>2, <2>3, <2>4, CommandKept
  <1>10. \A k \in Uploads :
           /\ ~Holds(i, k)
           /\ RunOf(k)' # {} => RunOf(k) # {} \/ upload'[k] = "accepted"
           /\ upload[k] = "accepted" => upload'[k] = "accepted"
           /\ upload'[k] = "deleted" => upload[k] = "deleted"
    BY <1>2, <1>3, <1>7, HoldsNot, InputsAssumption
  <1>11. /\ lock \in {i, None} /\ lock' \in {i, None} /\ UNCHANGED <<exec, native, op, returned>>
         /\ calls' = calls
         /\ \E k : upload' = [u \in Uploads |-> IF u = k THEN "accepted" ELSE upload[u]]
    <2>1. upload' = [u \in Uploads |-> IF u = attempt[i].key THEN "accepted" ELSE upload[u]]
      BY <1>2
    <2>2. \E k : upload' = [u \in Uploads |-> IF u = k THEN "accepted" ELSE upload[u]]
      <3> WITNESS attempt[i].key
      <3> QED BY <2>1, Zenon
    <2> QED BY <1>2, <1>3, <2>2
  <1>12. x \in AttemptRow /\ (x.pin = "held" => x.key \in Uploads /\ upload'[x.key] # "deleted")
    BY <1>3, <1>4
  <1> QED BY <1>5, <1>8, <1>9, <1>10, <1>11, <1>12, QuietRequest

\* The Run at work takes the message.
LEMMA AdmitStep ==
  ASSUME InputInv, [Next]_vars, NEW i \in Attempts, Admit(i)
  PROVE  RequestsInv'
  <1>1. /\ AttemptRowInv(i) /\ attempt[i] \in AttemptRow /\ attempt \in [Attempts -> AttemptRow] /\ i # None
        /\ \A e \in Leases : CommandRowInv(i, e)
        /\ upload \in [Uploads -> {"draft", "accepted", "deleted"}]
    BY RequestOf
  <1>2. /\ attempt[i].step = "reading" /\ lock' = None /\ Accepts(Receiving) /\ Bindable(attempt[i].key)
        /\ UNCHANGED <<run, leases, exec, native, view, tail, op, calls, upload, returned>>
    BY DEF Admit, rows, journal
  <1>3. attempt[i].pin # "held" /\ lock = i /\ attempt[i].key \in Keys /\ RunOf(attempt[i].key) = {}
        /\ attempt[i].answer = "none"
    BY <1>1, <1>2 DEF AttemptRowInv
  <1>4. PICK r \in Runs : r = Receiving /\ Accepts(r)
    BY <1>2, ReceivingMeans
  <1>5. PICK e \in Leases : e = run[r].lease
    BY <1>4, RowOf DEF Accepts
  <1>6. Issued(e) /\ RunAt(e) = r
    BY <1>4, <1>5, RowOf DEF RunRowInv, Accepts, Writes
  <1> DEFINE x == [attempt[i] EXCEPT !.step = "admitted", !.run = r, !.lease = e,
                                     !.pin = IF attempt[i].key \in Uploads THEN "held" ELSE "none"]
  <1>7. /\ x \in AttemptRow /\ x.key = attempt[i].key /\ x.step = "admitted" /\ x.answer = "none"
        /\ x.run = r /\ x.lease = e /\ x.again = attempt[i].again
        /\ x.pin = IF attempt[i].key \in Uploads THEN "held" ELSE "none"
    <2>1. r \in 0..NumRuns /\ e \in 0..MaxLease
      BY InputsAssumption DEF Runs, Leases
    <2> QED BY <1>1, <1>3, <2>1 DEF AttemptRow, Steps, Answers
  <1>8. attempt' = [attempt EXCEPT ![i] = x]
    BY <1>1, <1>4, <1>5 DEF Admit
  <1> HIDE DEF x
  <1>9. attempt'[i] = x
    BY <1>7, <1>8, AttemptMeans
  <1>10. \A k \in Keys : RunOf(k)' = RunOf(k)
    BY <1>2, RunOfSame
  <1>11. RunOf(attempt[i].key)' = {}
    <2>1. PICK k \in Keys : k = attempt[i].key
      BY <1>3
    <2>2. attempt'[i].key = k
      BY <1>7, <1>9, <2>1
    <2> QED BY <1>3, <1>10, <2>1, <2>2 DEF RunOf
  <1>12. AttemptRowInv(i)'
    <2>1. e # 0
      BY Rows DEF InputInv
    <2>2. Issued(attempt[i].lease)' /\ attempt'[i].run = RunAt(attempt[i].lease)'
      BY <1>2, <1>6, <1>7, <1>9 DEF Issued, RunAt
    <2> QED BY <1>2, <1>3, <1>1, <1>7, <1>9, <2>1, <2>2 DEF AttemptRowInv
  <1>13. ASSUME NEW d \in Leases PROVE CommandRowInv(i, d)'
    <2>1. ~(Reaches(i, d) /\ Working(d))
      BY <1>2, ReachesWaits DEF Waits
    <2>2. Reaches(i, d)' <=> Reaches(i, d)
      BY <1>2 DEF Reaches
    <2>3. Refers(i, d)' => Refers(i, d) \/ d = e
      BY <1>2, <1>7, <1>9, <2>2 DEF Refers
    <2>4. Refers(i, d)' => Issued(d)'
      BY <1>1, <1>2, <1>6, <2>3 DEF CommandRowInv, Issued
    <2>5. exec'[d].line = i => <<RunAt(d)', attempt'[i].key>> \in native'.meta
      BY <1>1, <1>2, <1>7, <1>9 DEF CommandRowInv, RunAt
    <2>6. Working(d)' <=> Working(d)
      BY <1>2 DEF Working
    <2> QED BY <1>7, <1>9, <1>11, <2>1, <2>2, <2>4, <2>5, <2>6 DEF CommandRowInv
  <1>14. x.pin = "held" => x.key \in Uploads /\ upload'[x.key] # "deleted"
    BY <1>2, <1>7 DEF Bindable
  <1>15. \A q \in Uploads : ~Holds(i, q) /\ RunOf(q)' = RunOf(q)
    BY <1>3, <1>10, HoldsNot, InputsAssumption
  <1>16. /\ lock \in {i, None} /\ lock' \in {i, None} /\ UNCHANGED <<exec, native, op, returned>>
         /\ calls' = calls /\ upload' = upload
    BY <1>2, <1>3
  <1>17. x \in AttemptRow
    BY <1>7
  <1> QED BY <1>8, <1>12, <1>13, <1>14, <1>15, <1>16, <1>17, QuietRequest

\* A request that goes on with the message, Run and lease it had.
LEMMA GoesOn ==
  ASSUME InputInv, [Next]_vars, NEW i \in Attempts, attempt[i].key \in Keys,
         attempt'[i].key = attempt[i].key, attempt'[i].run = attempt[i].run,
         attempt'[i].lease = attempt[i].lease, attempt'[i].step # "reading", lock' # i,
         attempt'[i].step \in {"admitted", "sent"} \/ attempt'[i].pin = "held" =>
           attempt[i].step \in {"admitted", "sent"} \/ attempt[i].pin = "held",
         attempt'[i].pin = "held" => attempt'[i].step \in {"admitted", "sent", "done"},
         attempt'[i].step \in {"new", "admitted"} => attempt'[i].answer = "none",
         attempt'[i].answer = "accepted" =>
           attempt[i].answer = "accepted" \/ native'.sub[attempt[i].key].run # 0
  PROVE  AttemptRowInv(i)'
  <1>1. AttemptRowInv(i)
    BY RequestOf
  <1>2. attempt'[i].step \in {"admitted", "sent"} \/ attempt'[i].pin = "held" =>
          /\ attempt'[i].lease # 0 /\ Issued(attempt[i].lease)'
          /\ attempt'[i].run = RunAt(attempt[i].lease)'
    <2> HAVE attempt'[i].step \in {"admitted", "sent"} \/ attempt'[i].pin = "held"
    <2>1. attempt[i].lease # 0 /\ Issued(attempt[i].lease) /\ attempt[i].run = RunAt(attempt[i].lease)
      BY <1>1 DEF AttemptRowInv
    <2>2. PICK e \in Leases : e = attempt[i].lease
      BY <2>1, Rows DEF InputInv
    <2>3. Issued(e)' /\ attempt'[i].run = RunAt(e)' /\ e = attempt'[i].lease
      BY <2>1, <2>2, GrowsStep DEF Grows
    <2> QED BY <2>1, <2>2, <2>3 DEF Issued, RunAt
  <1>3. attempt'[i].answer = "accepted" => RunOf(attempt[i].key)' # {} \/ native'.sub[attempt'[i].key].run # 0
    <2> HAVE attempt'[i].answer = "accepted"
    <2>1. PICK k \in Keys : k = attempt[i].key
      OBVIOUS
    <2>2. RunOf(k) # {} \/ native.sub[k].run # 0 \/ native'.sub[k].run # 0
      BY <1>1, <2>1 DEF AttemptRowInv
    <2>3. RunOf(k)' # {} \/ native'.sub[k].run # 0
      BY <2>2, RunOfStep, GrowsStep DEF Grows
    <2> QED BY <2>1, <2>3 DEF RunOf
  <1> QED BY <1>2, <1>3 DEF AttemptRowInv

\* The command of a request that goes on, where no execution sees the step.
LEMMA CommandGoesOn ==
  ASSUME InputInv, [Next]_vars, NEW i \in Attempts, UNCHANGED <<exec, leases>>,
         attempt'[i].key = attempt[i].key, attempt'[i].run = attempt[i].run,
         attempt'[i].lease = attempt[i].lease,
         attempt'[i].step = "new" => attempt'[i].again,
         \A e \in Leases :
           /\ calls'[i][e] > 0 => calls[i][e] > 0 \/ (attempt[i].step = "admitted" /\ e = attempt[i].lease)
           /\ calls'[i][e] > 0 /\ calls[i][e] = 0 => attempt'[i].step = "sent" /\ attempt'[i].answer = "none",
         attempt'[i].step \in {"admitted", "sent"} => attempt[i].step \in {"admitted", "sent"},
         Waits(i) => Waits(i)',
         attempt[i].pin = "held" =>
           attempt'[i].pin = "held" \/ (~Waits(i) /\ attempt'[i].step \notin {"admitted", "sent"})
             \/ upload'[attempt[i].key] = "accepted" \/ leases[attempt[i].lease].sealed,
         attempt[i].key \in Uploads /\ upload[attempt[i].key] = "accepted" =>
           upload'[attempt[i].key] = "accepted"
  PROVE  \A e \in Leases : CommandRowInv(i, e)'
  <1> SUFFICES ASSUME NEW e \in Leases PROVE CommandRowInv(i, e)'
    OBVIOUS
  <1>1. /\ AttemptRowInv(i) /\ CommandRowInv(i, e)
        /\ calls[i][e] \in Nat
    <2>1. calls[i][e] \in 0..2
      BY RequestOf
    <2> QED BY <2>1, RequestOf
  <1>2. Refers(i, e)' => Refers(i, e)
    BY DEF Refers, Reaches
  <1>3. Refers(i, e)' => attempt'[i].step # "new" \/ attempt'[i].again
    OBVIOUS
  <1>4. Working(e)' <=> Working(e)
    BY DEF Working
  <1>5. Reaches(i, e)' /\ Working(e)' => attempt'[i].lease = e /\ attempt'[i].run = RunAt(e)' /\ Waits(i)'
    <2> HAVE Reaches(i, e)' /\ Working(e)'
    <2>1. CASE Reaches(i, e)
      BY <1>4, <2>1, ReachesWaits DEF RunAt
    <2>2. CASE ~Reaches(i, e)
      <3>1. calls'[i][e] > 0 /\ calls[i][e] = 0
        BY <1>1, <2>2 DEF Reaches
      <3>2. attempt[i].step = "admitted" /\ e = attempt[i].lease /\ attempt'[i].step = "sent" /\ attempt'[i].answer = "none"
        BY <3>1
      <3>3. attempt[i].run = RunAt(e)
        BY <1>1, <3>2 DEF AttemptRowInv
      <3> QED BY <3>2, <3>3 DEF Waits, RunAt
    <2> QED BY <2>1, <2>2
  <1>6. Refers(i, e)' /\ Working(e) /\ attempt[i].key \in Uploads
             /\ (attempt[i].pin = "held" \/ upload[attempt[i].key] = "accepted") =>
           attempt'[i].pin = "held" \/ upload'[attempt[i].key] = "accepted"
    <2>0. CASE leases[attempt[i].lease].sealed
      <3>1. Refers(i, e) /\ Working(e) => attempt[i].lease = e
        BY ReachesWaits DEF Refers
      <3>2. ~(Refers(i, e) /\ Working(e))
        BY <2>0, <3>1 DEF InputInv, LedgerInv, WriterInv, Working
      <3> QED BY <1>2, <3>2
    <2> SUFFICES ASSUME Refers(i, e)', Working(e), attempt[i].pin = "held",
                        ~Waits(i), attempt'[i].step \notin {"admitted", "sent"}
                 PROVE  FALSE
      BY <2>0
    <2>1. Reaches(i, e)'
      BY DEF Refers
    <2>2. Reaches(i, e)
      BY <1>1, <2>1 DEF Reaches
    <2> QED BY <2>2, ReachesWaits
  <1>7. exec'[e].line = i => exec[e].line = i
    OBVIOUS
  <1> QED BY <1>2, <1>3, <1>5, <1>6, <1>7, CommandKept

\* The pins of an accepted message are settled in favour of its files.
LEMMA PinsMean ==
  ASSUME InputInv, NEW i \in Attempts, NEW accepted \in BOOLEAN, PinsSettled(i, accepted)
  PROVE  /\ upload' = upload \/ \E k : upload' = [u \in Uploads |-> IF u = k THEN "accepted" ELSE upload[u]]
         /\ accepted /\ attempt[i].pin = "held" => upload'[attempt[i].key] = "accepted"
         /\ \A k \in Uploads : upload[k] = "accepted" => upload'[k] = "accepted"
         /\ \A k \in Uploads : upload'[k] = "deleted" => upload[k] = "deleted"
  <1>1. /\ upload \in [Uploads -> {"draft", "accepted", "deleted"}]
        /\ attempt[i].pin = "held" => attempt[i].key \in Uploads /\ upload[attempt[i].key] # "deleted"
    BY RequestOf
  <1>2. upload' = [k \in Uploads |->
               IF accepted /\ attempt[i].pin = "held" /\ attempt[i].key = k /\ upload[k] = "draft"
               THEN "accepted" ELSE upload[k]]
    BY DEF PinsSettled
  <1>3. upload' = upload \/ \E k : upload' = [u \in Uploads |-> IF u = k THEN "accepted" ELSE upload[u]]
    <2>1. CASE accepted /\ attempt[i].pin = "held" /\ upload[attempt[i].key] = "draft"
      <3>1. upload' = [u \in Uploads |-> IF u = attempt[i].key THEN "accepted" ELSE upload[u]]
        BY <1>1, <1>2, <2>1
      <3>2. \E k : upload' = [u \in Uploads |-> IF u = k THEN "accepted" ELSE upload[u]]
        <4> WITNESS attempt[i].key
        <4> QED BY <3>1, Zenon
      <3> QED BY <3>2
    <2>2. CASE ~(accepted /\ attempt[i].pin = "held" /\ upload[attempt[i].key] = "draft")
      <3>1. upload' = [u \in Uploads |-> upload[u]]
        BY <1>1, <1>2, <2>2
      <3> QED BY <1>1, <3>1
    <2> QED BY <2>1, <2>2
  <1> QED BY <1>1, <1>2, <1>3

\* A request is refused from the rows.
LEMMA RefuseStep ==
  ASSUME InputInv, [Next]_vars, NEW i \in Attempts, Refuse(i)
  PROVE  RequestsInv'
  <1> DEFINE x == [attempt[i] EXCEPT !.step = "done", !.answer = "unavailable"]
  <1>1. /\ AttemptRowInv(i) /\ attempt[i] \in AttemptRow /\ attempt \in [Attempts -> AttemptRow] /\ i # None
    BY RequestOf
  <1>2. /\ attempt[i].step = "reading" /\ lock' = None
        /\ UNCHANGED <<run, leases, exec, native, view, tail, op, calls, upload, returned>>
    BY DEF Refuse, rows, journal
  <1>3. attempt[i].pin # "held" /\ lock = i /\ attempt[i].key \in Keys
    BY <1>1, <1>2 DEF AttemptRowInv
  <1>4. /\ x \in AttemptRow /\ x.key = attempt[i].key /\ x.step = "done" /\ x.answer = "unavailable"
        /\ x.pin = attempt[i].pin /\ x.run = attempt[i].run /\ x.lease = attempt[i].lease
    BY <1>1 DEF AttemptRow, Steps, Answers
  <1>5. attempt' = [attempt EXCEPT ![i] = x]
    BY <1>1 DEF Refuse
  <1> HIDE DEF x
  <1>6. attempt'[i] = x
    BY <1>4, <1>5, AttemptMeans
  <1>7. AttemptRowInv(i)'
    BY <1>1, <1>2, <1>3, <1>4, <1>6, GoesOn
  <1>8. \A e \in Leases : CommandRowInv(i, e)'
    BY <1>2, <1>3, <1>4, <1>6, CommandGoesOn DEF Waits
  <1>9. \A q \in Uploads : ~Holds(i, q) /\ RunOf(q)' = RunOf(q)
    BY <1>2, <1>3, HoldsNot, RunOfSame, InputsAssumption
  <1>10. /\ lock \in {i, None} /\ lock' \in {i, None} /\ UNCHANGED <<exec, native, op, returned>>
         /\ calls' = calls /\ upload' = upload /\ x.pin # "held"
    BY <1>2, <1>3, <1>4
  <1> QED BY <1>4, <1>5, <1>7, <1>8, <1>9, <1>10, QuietRequest

\* The command leaves for the Worker, or the Run has another execution.
LEMMA SendStep ==
  ASSUME InputInv, [Next]_vars, NEW i \in Attempts, Send(i)
  PROVE  RequestsInv'
  <1> DEFINE a == [attempt[i] EXCEPT !.step = "sent"]
             p == SettledPin(attempt[i].pin)
             b == [attempt[i] EXCEPT !.step = "done", !.answer = "unavailable", !.pin = p]
             q == attempt[i].lease
  <1>1. /\ AttemptRowInv(i) /\ attempt[i] \in AttemptRow /\ attempt \in [Attempts -> AttemptRow] /\ i # None
        /\ calls \in [Attempts \cup Ops -> [Leases -> 0..2]]
        /\ (attempt[i].pin = "held" => attempt[i].key \in Uploads /\ upload[attempt[i].key] # "deleted")
    BY RequestOf
  <1>2. /\ attempt[i].step = "admitted"
        /\ UNCHANGED <<run, leases, exec, native, view, tail, lock, op, upload, returned>>
    BY DEF Send, rows, journal
  <1>3. /\ lock # i /\ attempt[i].key \in Keys /\ attempt[i].answer = "none" /\ q \in Leases
    BY <1>1, <1>2, Rows DEF AttemptRowInv, InputInv
  <1>4. /\ a \in AttemptRow /\ a.key = attempt[i].key /\ a.step = "sent" /\ a.answer = "none"
        /\ a.pin = attempt[i].pin /\ a.run = attempt[i].run /\ a.lease = attempt[i].lease
        /\ b \in AttemptRow /\ b.key = attempt[i].key /\ b.step = "done" /\ b.answer = "unavailable"
        /\ b.pin # "held" /\ b.run = attempt[i].run /\ b.lease = attempt[i].lease
    <2>1. p \in {"none", "settled"}
      BY <1>1 DEF SettledPin, AttemptRow
    <2> HIDE DEF p
    <2> QED BY <1>1, <1>3, <2>1 DEF AttemptRow, Steps, Answers
  <1>5. \/ attempt' = [attempt EXCEPT ![i] = a] /\ \E n \in 1..2 : calls' = [calls EXCEPT ![i][q] = n]
        \/ attempt' = [attempt EXCEPT ![i] = b] /\ calls' = calls
    <2>1. CASE Assigned(attempt[i].run, attempt[i].lease)
      <3>1. /\ attempt' = [attempt EXCEPT ![i].step = "sent"]
            /\ \E n \in 1..(IF "repeat" \in Faults THEN 2 ELSE 1) : calls' = [calls EXCEPT ![i][q] = n]
        BY <2>1 DEF Send
      <3>2. \A n \in 1..(IF "repeat" \in Faults THEN 2 ELSE 1) : n \in 1..2
        OBVIOUS
      <3>3. attempt' = [attempt EXCEPT ![i] = a]
        BY <1>1, <3>1
      <3> QED BY <3>1, <3>2, <3>3
    <2>2. CASE ~Assigned(attempt[i].run, attempt[i].lease)
      BY <1>1, <2>2 DEF Send
    <2> QED BY <2>1, <2>2
  <1> HIDE DEF a, b
  <1>6. PICK x \in AttemptRow :
          /\ attempt' = [attempt EXCEPT ![i] = x] /\ x.key = attempt[i].key
          /\ x.run = attempt[i].run /\ x.lease = attempt[i].lease
          /\ \/ /\ x.step = "sent" /\ x.answer = "none" /\ x.pin = attempt[i].pin
                /\ \E n \in 1..2 : calls' = [calls EXCEPT ![i][q] = n]
             \/ x.step = "done" /\ x.answer = "unavailable" /\ x.pin # "held" /\ calls' = calls
    BY <1>4, <1>5
  <1>7. attempt'[i] = x
    BY <1>6, AttemptMeans
  <1>8. AttemptRowInv(i)'
    BY <1>2, <1>3, <1>6, <1>7, GoesOn
  <1>9. \A e \in Leases :
          /\ calls'[i][e] > 0 => calls[i][e] > 0 \/ (attempt[i].step = "admitted" /\ e = attempt[i].lease)
          /\ calls'[i][e] > 0 /\ calls[i][e] = 0 => attempt'[i].step = "sent" /\ attempt'[i].answer = "none"
    <2>1. CASE calls' = calls
      BY <1>1, <2>1
    <2>2. CASE \E n \in 1..2 : calls' = [calls EXCEPT ![i][q] = n] /\ x.step = "sent" /\ x.answer = "none"
      <3>1. PICK n \in 1..2 : calls' = [calls EXCEPT ![i][q] = n]
        BY <2>2
      <3>2. \A e \in Leases : e # q => calls'[i][e] = calls[i][e]
        BY <1>1, <3>1
      <3> QED BY <1>2, <1>7, <2>2, <3>2
    <2> QED BY <1>6, <2>1, <2>2
  <1>10. ~Waits(i)
    BY <1>2 DEF Waits
  <1>11. \A e \in Leases : CommandRowInv(i, e)'
    BY <1>2, <1>6, <1>7, <1>9, <1>10, CommandGoesOn
  <1>12. \A u \in Uploads : ~Holds(i, u) /\ RunOf(u)' = RunOf(u)
    BY <1>2, HoldsNot, RunOfSame, InputsAssumption
  <1>13. calls' = calls \/ \E e \in Leases, n \in 0..2 : calls' = [calls EXCEPT ![i][e] = n]
    <2>1. \A n \in 1..2 : n \in 0..2
      OBVIOUS
    <2> QED BY <1>3, <1>6, <2>1
  <1>14. /\ lock' = lock /\ UNCHANGED <<exec, native, op, returned>> /\ upload' = upload
         /\ (x.pin = "held" => x.key \in Uploads /\ upload'[x.key] # "deleted")
    BY <1>1, <1>2, <1>6
  <1>15. attempt' = [attempt EXCEPT ![i] = x]
    BY <1>6
  <1> QED BY <1>8, <1>11, <1>12, <1>13, <1>14, <1>15, QuietRequest

\* Nothing is known of the answer.
LEMMA TimeoutStep ==
  ASSUME InputInv, [Next]_vars, NEW i \in Attempts, Timeout(i)
  PROVE  RequestsInv'
  <1> DEFINE x == [attempt[i] EXCEPT !.step = "done", !.answer = "unavailable"]
  <1>1. /\ AttemptRowInv(i) /\ attempt[i] \in AttemptRow /\ attempt \in [Attempts -> AttemptRow] /\ i # None
        /\ (attempt[i].pin = "held" => attempt[i].key \in Uploads /\ upload[attempt[i].key] # "deleted")
    BY RequestOf
  <1>2. /\ attempt[i].step \in {"admitted", "sent"} /\ attempt[i].answer = "none"
        /\ UNCHANGED <<run, leases, exec, native, view, tail, lock, op, calls, upload, returned>>
    BY DEF Timeout, rows, journal
  <1>3. lock # i /\ attempt[i].key \in Keys
    BY <1>1, <1>2 DEF AttemptRowInv
  <1>4. /\ x \in AttemptRow /\ x.key = attempt[i].key /\ x.step = "done" /\ x.answer = "unavailable"
        /\ x.pin = attempt[i].pin /\ x.run = attempt[i].run /\ x.lease = attempt[i].lease
    BY <1>1 DEF AttemptRow, Steps, Answers
  <1>5. attempt' = [attempt EXCEPT ![i] = x]
    BY <1>1 DEF Timeout
  <1> HIDE DEF x
  <1>6. attempt'[i] = x
    BY <1>4, <1>5, AttemptMeans
  <1>7. AttemptRowInv(i)'
    BY <1>2, <1>3, <1>4, <1>6, GoesOn
  <1>8. \A e \in Leases : CommandRowInv(i, e)'
    BY <1>2, <1>4, <1>6, CommandGoesOn DEF Waits
  <1>9. \A q \in Uploads : ~Holds(i, q) /\ RunOf(q)' = RunOf(q)
    BY <1>2, HoldsNot, RunOfSame, InputsAssumption
  <1>10. /\ lock' = lock /\ UNCHANGED <<exec, native, op, returned>>
         /\ calls' = calls /\ upload' = upload
         /\ (x.pin = "held" => x.key \in Uploads /\ upload'[x.key] # "deleted")
    BY <1>1, <1>2, <1>4
  <1> QED BY <1>4, <1>5, <1>7, <1>8, <1>9, <1>10, QuietRequest

\* The answer of the Worker arrives.
LEMMA ReceiveStep ==
  ASSUME InputInv, [Next]_vars, NEW i \in Attempts, Receive(i)
  PROVE  RequestsInv'
  <1> DEFINE p == SettledPin(attempt[i].pin)
             s == IF attempt[i].answer \in {"accepted", "closed"} THEN p ELSE attempt[i].pin
             a == [attempt[i] EXCEPT !.step = "new", !.again = TRUE, !.answer = "none", !.pin = p]
             b == [attempt[i] EXCEPT !.step = "done", !.pin = s]
  <1>1. /\ AttemptRowInv(i) /\ attempt[i] \in AttemptRow /\ attempt \in [Attempts -> AttemptRow] /\ i # None
        /\ (attempt[i].pin = "held" => attempt[i].key \in Uploads /\ upload[attempt[i].key] # "deleted")
    BY RequestOf
  <1>2. /\ attempt[i].step = "sent" /\ attempt[i].answer # "none"
        /\ UNCHANGED <<run, leases, exec, native, view, tail, lock, op, calls, returned>>
        /\ PinsSettled(i, attempt[i].answer = "accepted")
    BY DEF Receive, rows, journal
  <1>3. lock # i /\ attempt[i].key \in Keys
    BY <1>1, <1>2 DEF AttemptRowInv
  <1>4. p \in {"none", "settled"} /\ s \in {"none", "held", "settled"}
        /\ (attempt[i].answer \in {"accepted", "closed"} => s # "held")
        /\ (attempt[i].answer = "unavailable" => s = attempt[i].pin)
        /\ (s = "held" => attempt[i].pin = "held")
    BY <1>1 DEF SettledPin, AttemptRow
  <1>5. (attempt[i].answer = "closed" /\ attempt' = [attempt EXCEPT ![i] = a]) \/ attempt' = [attempt EXCEPT ![i] = b]
    <2>1. CASE attempt[i].answer = "closed" /\ ~attempt[i].again
      BY <1>1, <2>1 DEF Receive
    <2>2. CASE ~(attempt[i].answer = "closed" /\ ~attempt[i].again)
      BY <1>1, <2>2 DEF Receive
    <2> QED BY <2>1, <2>2
  <1> HIDE DEF p, s
  <1>6. /\ a \in AttemptRow /\ a.key = attempt[i].key /\ a.step = "new" /\ a.again /\ a.answer = "none"
        /\ a.pin = p /\ a.run = attempt[i].run /\ a.lease = attempt[i].lease
        /\ b \in AttemptRow /\ b.key = attempt[i].key /\ b.step = "done" /\ b.answer = attempt[i].answer
        /\ b.pin = s /\ b.run = attempt[i].run /\ b.lease = attempt[i].lease
    BY <1>1, <1>4 DEF AttemptRow, Steps, Answers
  <1> HIDE DEF a, b
  <1>7. PICK x \in AttemptRow :
          /\ attempt' = [attempt EXCEPT ![i] = x] /\ x.key = attempt[i].key
          /\ x.run = attempt[i].run /\ x.lease = attempt[i].lease
          /\ \/ attempt[i].answer = "closed" /\ x.step = "new" /\ x.again /\ x.answer = "none" /\ x.pin # "held"
             \/ /\ x.step = "done" /\ x.answer = attempt[i].answer
                /\ attempt[i].answer \in {"accepted", "closed"} => x.pin # "held"
                /\ attempt[i].answer = "unavailable" => x.pin = attempt[i].pin
          /\ x.pin = "held" => attempt[i].pin = "held"
    BY <1>4, <1>5, <1>6
  <1>8. attempt'[i] = x /\ x.step \in {"new", "done"} /\ (x.step = "new" => x.pin # "held")
    BY <1>7, AttemptMeans
  <1>9. attempt[i].answer \in {"accepted", "closed", "unavailable"}
    BY <1>1, <1>2 DEF AttemptRow, Answers
  <1>10. AttemptRowInv(i)'
    BY <1>2, <1>3, <1>7, <1>8, GoesOn
  <1>11. /\ upload' = upload \/ \E k : upload' = [u \in Uploads |-> IF u = k THEN "accepted" ELSE upload[u]]
         /\ attempt[i].answer = "accepted" /\ attempt[i].pin = "held" => upload'[attempt[i].key] = "accepted"
         /\ \A k \in Uploads : upload[k] = "accepted" => upload'[k] = "accepted"
         /\ \A k \in Uploads : upload'[k] = "deleted" => upload[k] = "deleted"
    BY <1>2, PinsMean
  <1>12. attempt[i].key \in Uploads /\ upload[attempt[i].key] = "accepted" =>
           upload'[attempt[i].key] = "accepted"
    BY <1>11
  <1>13. \A e \in Leases : CommandRowInv(i, e)'
    <2>1. attempt[i].pin = "held" =>
           attempt'[i].pin = "held" \/ (~Waits(i) /\ attempt'[i].step \notin {"admitted", "sent"})
             \/ upload'[attempt[i].key] = "accepted"
      BY <1>2, <1>7, <1>8, <1>9, <1>11 DEF Waits
    <2>2. Waits(i) => Waits(i)'
      BY <1>2, <1>7, <1>8 DEF Waits
    <2> QED BY <1>2, <1>7, <1>8, <1>12, <2>1, <2>2, CommandGoesOn
  <1>14. ASSUME NEW k \in Uploads, Holds(i, k) PROVE Holds(i, k)' \/ upload'[k] = "accepted"
    <2>1. k \in Keys
      BY InputsAssumption
    <2>2. CASE attempt[i].answer = "accepted"
      BY <1>11, <1>14, <2>2 DEF Holds
    <2>3. CASE attempt[i].answer = "closed"
      BY <1>2, <1>14, <2>3 DEF Holds
    <2>4. CASE attempt[i].answer = "unavailable"
      <3>1. x.step = "done" /\ x.pin = attempt[i].pin
        BY <1>7, <2>4
      <3> QED BY <1>7, <1>8, <1>14, <2>1, <3>1, HoldsKept
    <2> QED BY <1>9, <2>2, <2>3, <2>4
  <1>15. \A q \in Uploads : RunOf(q)' = RunOf(q)
    BY <1>2, RunOfSame, InputsAssumption
  <1>16. /\ lock' = lock /\ UNCHANGED <<exec, native, op, returned>> /\ calls' = calls
         /\ attempt' = [attempt EXCEPT ![i] = x]
    BY <1>2, <1>7
  <1>17. x.pin = "held" => x.key \in Uploads /\ upload'[x.key] # "deleted"
    BY <1>1, <1>7, <1>11
  <1> QED BY <1>10, <1>11, <1>13, <1>14, <1>15, <1>16, <1>17, QuietRequest

\* A pin is settled from what the Projector knows.
LEMMA ReconcilePinStep ==
  ASSUME InputInv, [Next]_vars, NEW i \in Attempts, ReconcilePin(i)
  PROVE  RequestsInv'
  <1> DEFINE x == [attempt[i] EXCEPT !.pin = "settled"]
             placed == <<attempt[i].run, attempt[i].key>> \in view.meta
                         /\ view.sub[attempt[i].key].run = attempt[i].run
  <1>1. /\ AttemptRowInv(i) /\ attempt[i] \in AttemptRow /\ attempt \in [Attempts -> AttemptRow] /\ i # None
        /\ attempt[i].key \in Uploads /\ upload[attempt[i].key] # "deleted"
    BY RequestOf DEF ReconcilePin
  <1>2. /\ attempt[i].pin = "held" /\ (placed \/ leases[attempt[i].lease].sealed)
        /\ UNCHANGED <<run, leases, exec, native, view, tail, lock, op, calls, returned>>
        /\ PinsSettled(i, placed)
    BY DEF ReconcilePin, rows, journal, Ruled
  <1>3. /\ lock # i /\ attempt[i].key \in Keys /\ attempt[i].step \in {"admitted", "sent", "done"}
    BY <1>1, <1>2 DEF AttemptRowInv
  <1>4. /\ x \in AttemptRow /\ x.key = attempt[i].key /\ x.step = attempt[i].step /\ x.again = attempt[i].again
        /\ x.answer = attempt[i].answer /\ x.pin = "settled" /\ x.run = attempt[i].run /\ x.lease = attempt[i].lease
    BY <1>1 DEF AttemptRow
  <1>5. attempt' = [attempt EXCEPT ![i] = x]
    BY <1>1 DEF ReconcilePin
  <1> HIDE DEF x
  <1>6. attempt'[i] = x
    BY <1>4, <1>5, AttemptMeans
  <1>7. placed \in BOOLEAN
    OBVIOUS
  <1> HIDE DEF placed
  <1>8. /\ upload' = upload \/ \E k : upload' = [u \in Uploads |-> IF u = k THEN "accepted" ELSE upload[u]]
        /\ placed => upload'[attempt[i].key] = "accepted"
        /\ \A k \in Uploads : upload[k] = "accepted" => upload'[k] = "accepted"
        /\ \A k \in Uploads : upload'[k] = "deleted" => upload[k] = "deleted"
    BY <1>2, <1>7, PinsMean
  <1>9. AttemptRowInv(i)'
    <2>1. attempt'[i].step \in {"new", "admitted"} => attempt'[i].answer = "none"
      BY <1>1, <1>4, <1>6 DEF AttemptRowInv
    <2> QED BY <1>2, <1>3, <1>4, <1>6, <2>1, GoesOn
  <1>10. \A e \in Leases : CommandRowInv(i, e)'
    <2>1. Waits(i) => Waits(i)'
      BY <1>4, <1>6 DEF Waits
    <2>2. upload[attempt[i].key] = "accepted" => upload'[attempt[i].key] = "accepted"
      BY <1>1, <1>8
    <2> QED BY <1>2, <1>3, <1>4, <1>6, <1>8, <2>1, <2>2, CommandGoesOn
  <1>11. ASSUME NEW k \in Uploads, Holds(i, k) PROVE Holds(i, k)' \/ upload'[k] = "accepted"
    <2>1. attempt[i].key = k
      BY <1>11 DEF Holds
    <2>2. placed
      <3>1. CASE leases[attempt[i].lease].sealed
        BY <1>11, <2>1, <3>1 DEF Holds, placed
      <3> QED BY <1>2, <3>1
    <2> QED BY <1>8, <2>1, <2>2
  <1>12. \A q \in Uploads : RunOf(q)' = RunOf(q)
    BY <1>2, RunOfSame, InputsAssumption
  <1>13. /\ lock' = lock /\ UNCHANGED <<exec, native, op, returned>> /\ calls' = calls /\ x.pin # "held"
    BY <1>2, <1>4
  <1> QED BY <1>4, <1>5, <1>8, <1>9, <1>10, <1>11, <1>12, <1>13, QuietRequest

\* A step that no request sees.
LEMMA NoRequest ==
  ASSUME InputInv, [Next]_vars, UNCHANGED <<lock, attempt>>, returned' \subseteq Runs \X Keys,
         op' \in [Ops -> OpRow], OpInv', calls' \in [Attempts \cup Ops -> [Leases -> 0..2]],
         \A i \in Attempts, e \in Leases : calls'[i][e] > 0 => calls[i][e] > 0,
         \A o \in Ops, e \in Leases : calls'[o][e] > 0 => op'[o].kind # "none",
         \A i \in Attempts, e \in Leases : exec'[e].line = i => exec[e].line = i,
         upload' \in [Uploads -> {"draft", "accepted", "deleted"}],
         \A k \in Uploads :
           /\ upload[k] = "accepted" => upload'[k] = "accepted"
           /\ upload'[k] = "deleted" =>
                upload[k] = "deleted" \/ \A i \in Attempts : ~(attempt[i].key = k /\ attempt[i].pin = "held")
           /\ RunOf(k)' = RunOf(k) /\ native'.sub[k].run = native.sub[k].run
  PROVE  RequestsInv'
  <1>1. RequestsTyped'
    <2>1. RequestsTyped
      BY TypesMeet DEF InputInv
    <2> QED BY <2>1 DEF RequestsTyped
  <1>2. AttemptInv'
    BY AttemptKept DEF AttemptInv
  <1>3. CommandInv'
    <2>1. \A e \in Leases, i \in Attempts : CommandRowInv(i, e)'
      BY CommandStays
    <2> QED BY <2>1 DEF CommandInv
  <1>4. FileInv'
    <2>1. \A i \in Attempts : attempt'[i].pin = "held" => attempt'[i].key \in Uploads /\ upload'[attempt'[i].key] # "deleted"
      BY DEF InputInv, FileInv
    <2>2. ASSUME NEW k \in Uploads
          PROVE  /\ RunOf(k)' # {} => upload'[k] = "accepted"
                 /\ native'.sub[k].run # 0 /\ native'.sub[k].status # "withdrawn" =>
                      upload'[k] = "accepted" \/ \E i \in Attempts : Holds(i, k)'
      <3>1. k \in Keys
        BY InputsAssumption
      <3>2. \A i \in Attempts : Holds(i, k) => Holds(i, k)'
        BY <3>1, HoldsKept
      <3>3. RunOf(k)' # {} => upload'[k] = "accepted"
        BY DEF InputInv, FileInv
      <3> QED BY <3>2, <3>3, FilesKept
    <2> QED BY <2>1, <2>2 DEF FileInv
  <1> QED BY <1>1, <1>2, <1>3, <1>4 DEF RequestsInv

\* An answer to a request that waits for one.
LEMMA AnswerMeans ==
  ASSUME InputInv, NEW i \in Attempts, NEW e, NEW what \in {"accepted", "closed", "unavailable"},
         AnswerOf(i, e, what)
  PROVE  \E x \in AttemptRow :
           /\ attempt' = [attempt EXCEPT ![i] = x] /\ attempt'[i] = x
           /\ x.key = attempt[i].key /\ x.step = attempt[i].step /\ x.run = attempt[i].run
           /\ x.lease = attempt[i].lease /\ x.again = attempt[i].again /\ x.pin = attempt[i].pin
           /\ \/ x = attempt[i]
              \/ /\ attempt[i].step = "sent" /\ attempt[i].lease = e
                 /\ attempt[i].answer = "none" /\ x.answer = what
  <1> DEFINE asks == attempt[i].step = "sent" /\ attempt[i].lease = e /\ attempt[i].answer = "none"
             w == IF asks THEN what ELSE attempt[i].answer
             x == [attempt[i] EXCEPT !.answer = w]
  <1>1. attempt[i] \in AttemptRow /\ attempt \in [Attempts -> AttemptRow]
    BY RequestOf
  <1>2. w \in Answers /\ (~asks => w = attempt[i].answer) /\ (asks => w = what)
    BY <1>1 DEF AttemptRow, Answers
  <1>3. attempt' = [attempt EXCEPT ![i] = x]
    BY <1>1 DEF AnswerOf
  <1> HIDE DEF w, asks
  <1>4. /\ x \in AttemptRow /\ x.key = attempt[i].key /\ x.step = attempt[i].step /\ x.run = attempt[i].run
        /\ x.lease = attempt[i].lease /\ x.again = attempt[i].again /\ x.pin = attempt[i].pin
        /\ x.answer = w /\ (w = attempt[i].answer => x = attempt[i])
    BY <1>1, <1>2 DEF AttemptRow
  <1> HIDE DEF x
  <1>5. attempt'[i] = x
    BY <1>3, <1>4, AttemptMeans
  <1> QED BY <1>2, <1>3, <1>4, <1>5 DEF asks

\* The answer of an execution, with what it places.
LEMMA AnswerStep ==
  ASSUME InputInv, [Next]_vars, NEW i \in Attempts, NEW e \in Leases,
         NEW what \in {"accepted", "closed", "unavailable"}, AnswerOf(i, e, what),
         UNCHANGED <<run, lock, op, upload, returned>>,
         calls' \in [Attempts \cup Ops -> [Leases -> 0..2]],
         \A c \in Attempts \cup Ops, d \in Leases : calls'[c][d] > 0 => calls[c][d] > 0,
         \A j \in Attempts, d \in Leases : exec'[d].line = j => exec[d].line = j,
         what = "accepted" => native'.sub[attempt[i].key].run # 0, what = "closed" => ~Working(e)',
         \A k \in Uploads : native'.sub[k].run = native.sub[k].run \/ upload[k] = "accepted" \/ Holds(i, k)'
  PROVE  RequestsInv'
  <1>1. PICK x \in AttemptRow :
          /\ attempt' = [attempt EXCEPT ![i] = x] /\ attempt'[i] = x
          /\ x.key = attempt[i].key /\ x.step = attempt[i].step /\ x.run = attempt[i].run
          /\ x.lease = attempt[i].lease /\ x.again = attempt[i].again /\ x.pin = attempt[i].pin
          /\ \/ x = attempt[i]
             \/ /\ attempt[i].step = "sent" /\ attempt[i].lease = e
                /\ attempt[i].answer = "none" /\ x.answer = what
    BY AnswerMeans
  <1>2. /\ AttemptRowInv(i) /\ i # None /\ lock \in Attempts \cup {None}
        /\ upload \in [Uploads -> {"draft", "accepted", "deleted"}]
        /\ (attempt[i].pin = "held" => attempt[i].key \in Uploads /\ upload[attempt[i].key] # "deleted")
    BY RequestOf
  <1>3. AttemptRowInv(i)'
    <2>1. CASE x = attempt[i]
      BY <1>1, <2>1, AttemptKept
    <2>2. CASE attempt[i].step = "sent" /\ x.answer = what
      <3>1. attempt[i].key \in Keys /\ lock' # i
        BY <1>2, <2>2 DEF AttemptRowInv
      <3> QED BY <1>1, <2>2, <3>1, GoesOn
    <2> QED BY <1>1, <2>1, <2>2
  <1>4. ASSUME NEW d \in Leases PROVE CommandRowInv(i, d)'
    <2>1. Reaches(i, d)' => Reaches(i, d)
      BY DEF Reaches
    <2>2. Refers(i, d)' => Refers(i, d)
      BY <1>1, <2>1 DEF Refers
    <2>3. Refers(i, d) => Issued(d) /\ (attempt[i].step # "new" \/ attempt[i].again)
      BY DEF InputInv, CommandInv, CommandRowInv
    <2>4. Reaches(i, d)' /\ Working(d)' => attempt'[i].lease = d /\ attempt'[i].run = RunAt(d)' /\ Waits(i)'
      <3> HAVE Reaches(i, d)' /\ Working(d)'
      <3>1. Reaches(i, d) /\ Refers(i, d) /\ Issued(d)
        BY <2>1, <2>3 DEF Refers
      <3>2. Working(d) /\ RunAt(d)' = RunAt(d)
        BY <3>1, GrowsStep DEF Grows, Working
      <3>3. Waits(i) /\ attempt[i].lease = d /\ attempt[i].run = RunAt(d)
        BY <3>1, <3>2, ReachesWaits
      <3>4. Waits(i)'
        BY <1>1, <3>3 DEF Waits
      <3> QED BY <1>1, <3>2, <3>3, <3>4
    <2>5. Refers(i, d)' /\ Working(d) /\ attempt[i].key \in Uploads
             /\ (attempt[i].pin = "held" \/ upload[attempt[i].key] = "accepted") =>
           attempt'[i].pin = "held" \/ upload'[attempt[i].key] = "accepted"
      BY <1>1
    <2>6. exec'[d].line = i => exec[d].line = i
      OBVIOUS
    <2>7. Refers(i, d)' =>
           /\ Refers(i, d) /\ attempt'[i].key = attempt[i].key
           /\ attempt'[i].step # "new" \/ attempt'[i].again
      BY <1>1, <2>2, <2>3
    <2> QED BY <2>4, <2>5, <2>6, <2>7, CommandKept
  <1>5. ASSUME NEW k \in Uploads
        PROVE  /\ Holds(i, k) => Holds(i, k)' \/ upload'[k] = "accepted"
               /\ RunOf(k)' # {} => RunOf(k) # {} \/ upload'[k] = "accepted"
               /\ native'.sub[k].run = native.sub[k].run \/ Holds(i, k)' \/ upload'[k] = "accepted"
    <2>1. k \in Keys
      BY InputsAssumption
    <2>2. Holds(i, k) => Holds(i, k)'
      <3>1. CASE x = attempt[i]
        BY <1>1, <2>1, <3>1, HoldsKept
      <3>2. CASE attempt[i].step = "sent" /\ attempt[i].answer = "none"
        BY <3>2, HoldsNot
      <3> QED BY <1>1, <3>1, <3>2
    <2>3. RunOf(k)' = RunOf(k)
      BY <2>1, RunOfSame
    <2> QED BY <2>2, <2>3
  <1>6. x.pin = "held" => x.key \in Uploads /\ upload'[x.key] # "deleted"
    BY <1>1, <1>2
  <1>7. lock' \in Attempts \cup {None} /\ \A j \in Attempts : j # i => (lock' = j <=> lock = j)
    BY <1>2
  <1>8. attempt' = [attempt EXCEPT ![i] = x] /\ UNCHANGED <<op, returned>>
    BY <1>1
  <1>9. \A c \in Attempts \cup Ops, d \in Leases : c # i /\ calls'[c][d] > 0 => calls[c][d] > 0
    OBVIOUS
  <1>10. \A j \in Attempts, d \in Leases : j # i /\ exec'[d].line = j => exec[d].line = j
    OBVIOUS
  <1>11. /\ upload' \in [Uploads -> {"draft", "accepted", "deleted"}]
         /\ \A k \in Uploads : /\ upload[k] = "accepted" => upload'[k] = "accepted"
                               /\ upload'[k] = "deleted" => upload[k] = "deleted"
    BY <1>2
  <1> QED BY <1>3, <1>4, <1>5, <1>6, <1>7, <1>8, <1>9, <1>10, <1>11, OneRequest

\* A command is taken.
LEMMA TakenMeans ==
  ASSUME InputInv, NEW c \in Attempts \cup Ops, NEW e \in Leases, calls[c][e] > 0, Taken(c, e)
  PROVE  /\ calls' \in [Attempts \cup Ops -> [Leases -> 0..2]]
         /\ \A b \in Attempts \cup Ops, d \in Leases : calls'[b][d] > 0 => calls[b][d] > 0
  <1>1. calls \in [Attempts \cup Ops -> [Leases -> 0..2]]
    <2>1. RequestsTyped
      BY TypesMeet DEF InputInv
    <2> QED BY <2>1 DEF RequestsTyped
  <1>2. calls[c] \in [Leases -> 0..2] /\ calls[c][e] \in 0..2 /\ calls[c][e] - 1 \in 0..2
    BY <1>1
  <1>3. calls' = [calls EXCEPT ![c] = [calls[c] EXCEPT ![e] = calls[c][e] - 1]]
    BY <1>1 DEF Taken
  <1> QED BY <1>1, <1>2, <1>3

-----------------------------------------------------------------------------
(* The steps of an execution for a request.                                  *)

\* A request is taken to the line, or closed.
LEMMA StartInputStep ==
  ASSUME InputInv, [Next]_vars, NEW e \in Leases, NEW i \in Attempts, StartInput(e, i)
  PROVE  RequestsInv'
  <1> DEFINE known == <<RunAt(e), attempt[i].key>> \in native.meta
  <1>1. /\ Serving(e) /\ LineFree(e) /\ calls[i][e] > 0 /\ Taken(i, e)
        /\ UNCHANGED <<run, leases, view, lock, op, upload, returned>>
    BY DEF StartInput, RunnerUnchanged, rows
  <1>2. /\ calls' \in [Attempts \cup Ops -> [Leases -> 0..2]]
        /\ \A c \in Attempts \cup Ops, d \in Leases : calls'[c][d] > 0 => calls[c][d] > 0
    BY <1>1, TakenMeans
  <1>3. \A k \in Keys : native'.sub[k].run = native.sub[k].run
    BY StartInputActs
  <1>4. CASE ~known /\ ~Accepting(e)
    <2>1. AnswerOf(i, e, "closed") /\ UNCHANGED exec
      BY <1>4 DEF StartInput
    <2>2. ~Working(e)'
      BY <1>1, <1>4, <2>1 DEF Working, Serving, Accepting
    <2>3. \A k \in Uploads : native'.sub[k].run = native.sub[k].run
      BY <1>3, InputsAssumption
    <2>4. \A j \in Attempts, d \in Leases : exec'[d].line = j => exec[d].line = j
      BY <2>1
    <2> QED BY <1>1, <1>2, <2>1, <2>2, <2>3, <2>4, AnswerStep
  <1>5. CASE known \/ Accepting(e)
    <2>1. /\ exec' = [exec EXCEPT ![e].line = i] /\ UNCHANGED attempt
          /\ known => UNCHANGED native
          /\ ~known => Committed([kind |-> "meta", run |-> RunAt(e), key |-> attempt[i].key])
      BY <1>5 DEF StartInput
    <2>2. exec'[e].line = i /\ exec'[e].phase = exec[e].phase /\ \A d \in Leases : d # e => exec'[d] = exec[d]
      <3>1. exec[e] \in ExecRow /\ exec \in [Leases -> ExecRow]
        BY Rows DEF InputInv
      <3> QED BY <2>1, <3>1 DEF ExecRow
    <2>3. /\ AttemptRowInv(i) /\ attempt[i] \in AttemptRow /\ attempt \in [Attempts -> AttemptRow] /\ i # None
          /\ lock \in Attempts \cup {None}
          /\ upload \in [Uploads -> {"draft", "accepted", "deleted"}]
          /\ (attempt[i].pin = "held" => attempt[i].key \in Uploads /\ upload[attempt[i].key] # "deleted")
      BY RequestOf
    <2>4. Reaches(i, e) /\ Refers(i, e)
      BY <1>1 DEF Reaches, Refers
    <2>5. Issued(e) /\ (attempt[i].step # "new" \/ attempt[i].again)
      BY <2>4 DEF InputInv, CommandInv, CommandRowInv
    <2>6. attempt[i].key \in Keys
      BY <2>3, <2>5 DEF AttemptRowInv
    <2>7. <<RunAt(e), attempt[i].key>> \in native'.meta
      <3>1. CASE known
        BY <2>1, <3>1
      <3>2. CASE ~known
        <4> DEFINE c == [kind |-> "meta", run |-> RunAt(e), key |-> attempt[i].key]
        <4>1. RunAt(e) \in Runs
          BY <2>5, Rows DEF InputInv
        <4>2. c \in Record /\ c.kind = "meta" /\ c.run = RunAt(e) /\ c.key = attempt[i].key
          BY <2>6, <4>1 DEF Record
        <4>3. native' = Applied(native, c) /\ native \in State
          BY <2>1, <3>2, WorldTyped DEF Committed, World
        <4> HIDE DEF c
        <4> QED BY <4>2, <4>3, AppliedMeans
      <3> QED BY <3>1, <3>2
    <2>8. ASSUME NEW d \in Leases PROVE CommandRowInv(i, d)'
      <3>1. Reaches(i, d)' => Reaches(i, d)
        BY <1>2, <2>2, <2>4 DEF Reaches
      <3>2. Refers(i, d)' => Refers(i, d)
        BY <2>1, <3>1 DEF Refers
      <3>3. Refers(i, d) => Issued(d) /\ (attempt[i].step # "new" \/ attempt[i].again)
        BY DEF InputInv, CommandInv, CommandRowInv
      <3>4. Reaches(i, d)' /\ Working(d)' => attempt'[i].lease = d /\ attempt'[i].run = RunAt(d)' /\ Waits(i)'
        <4> HAVE Reaches(i, d)' /\ Working(d)'
        <4>1. Reaches(i, d) /\ Refers(i, d) /\ Issued(d)
          BY <3>1, <3>3 DEF Refers
        <4>2. Working(d) /\ RunAt(d)' = RunAt(d)
          BY <4>1, GrowsStep DEF Grows, Working
        <4> QED BY <2>1, <4>1, <4>2, ReachesWaits DEF Waits
      <3>5. exec'[d].line = i =>
              exec[d].line = i \/ (<<RunAt(d), attempt'[i].key>> \in native'.meta /\ Issued(d))
        BY <2>1, <2>2, <2>5, <2>7
      <3>6. Refers(i, d)' =>
           /\ Refers(i, d) /\ attempt'[i].key = attempt[i].key
           /\ attempt'[i].step # "new" \/ attempt'[i].again
        BY <2>1, <3>2, <3>3
      <3>7. Refers(i, d)' /\ Working(d) /\ attempt[i].key \in Uploads
             /\ (attempt[i].pin = "held" \/ upload[attempt[i].key] = "accepted") =>
           attempt'[i].pin = "held" \/ upload'[attempt[i].key] = "accepted"
        BY <1>1, <2>1
      <3> QED BY <3>4, <3>5, <3>6, <3>7, CommandKept
    <2>9. AttemptRowInv(i)'
      BY <1>1, <2>1, AttemptKept
    <2>10. ASSUME NEW k \in Uploads
           PROVE  /\ Holds(i, k) => Holds(i, k)' \/ upload'[k] = "accepted"
                  /\ RunOf(k)' # {} => RunOf(k) # {} \/ upload'[k] = "accepted"
                  /\ native'.sub[k].run = native.sub[k].run \/ Holds(i, k)' \/ upload'[k] = "accepted"
      <3>1. k \in Keys
        BY InputsAssumption
      <3>2. Holds(i, k) => Holds(i, k)'
        BY <2>1, <3>1, HoldsKept
      <3> QED BY <1>1, <1>3, <3>1, <3>2, RunOfSame
    <2>11. attempt' = [attempt EXCEPT ![i] = attempt[i]]
      BY <2>1, <2>3
    <2>12. lock' \in Attempts \cup {None} /\ \A j \in Attempts : j # i => (lock' = j <=> lock = j)
      BY <1>1, <2>3
    <2>13. \A c \in Attempts \cup Ops, d \in Leases : c # i /\ calls'[c][d] > 0 => calls[c][d] > 0
      BY <1>2
    <2>14. \A j \in Attempts, d \in Leases : j # i /\ exec'[d].line = j => exec[d].line = j
      BY <2>2
    <2>15. /\ upload' \in [Uploads -> {"draft", "accepted", "deleted"}]
           /\ \A k \in Uploads : /\ upload[k] = "accepted" => upload'[k] = "accepted"
                                 /\ upload'[k] = "deleted" => upload[k] = "deleted"
      BY <1>1, <2>3
    <2>16. attempt[i].pin = "held" => attempt[i].key \in Uploads /\ upload'[attempt[i].key] # "deleted"
      BY <1>1, <2>3
    <2>17. UNCHANGED <<op, returned>> /\ attempt[i] \in AttemptRow
      BY <1>1, <2>3
    <2> QED BY <1>2, <2>8, <2>9, <2>10, <2>11, <2>12, <2>13, <2>14, <2>15, <2>16, <2>17, OneRequest
  <1> QED BY <1>4, <1>5

\* What Pi is given anew is a message of the Run of the execution.
LEMMA GivenAnew ==
  ASSUME InputInv, NEW e \in Leases, Acts(e), NEW k \in Keys, native'.sub[k].run # native.sub[k].run
  PROVE  native'.sub[k].run = RunAt(e)
  <1>1. PICK c \in Record : Committed(c) /\ Content(e, c)
    BY DEF Acts, journal
  <1>2. Issued(e)
    BY DEF Acts
  <1>3. native'.sub[k].run = IF c.kind = "submit" /\ c.key = k THEN c.run ELSE native.sub[k].run
    BY <1>1, <1>2, AppendMeansNative
  <1> QED BY <1>1, <1>3 DEF Content

\* Pi's receipt decides.
LEMMA SubmitStep ==
  ASSUME InputInv, [Next]_vars, NEW e \in Leases, Submit(e)
  PROVE  RequestsInv'
  <1>1. PICK i : i = exec[e].line
    OBVIOUS
  <1>2. i \in Attempts /\ attempt[i].key \in Keys /\ Issued(e) /\ Serving(e)
    <2>1. exec[e].line # None
      BY DEF Submit, LineFree
    <2> QED BY <1>1, <2>1, LineKnown
  <1>3. /\ Acts(e) /\ exec'[e].line = None
        /\ \A k \in Keys : native'.sub[k].run # native.sub[k].run => k = attempt[i].key /\ exec[e].phase = "open"
        /\ \/ AnswerOf(i, e, "accepted") /\ native'.sub[attempt[i].key].run # 0
           \/ AnswerOf(i, e, "closed") /\ exec[e].phase = "ended"
        /\ UNCHANGED calls
    BY <1>1, SubmitActs
  <1>4. UNCHANGED <<run, leases, view, lock, op, upload, returned>>
    BY DEF Submit, RunnerUnchanged, rows
  <1>5. /\ calls' \in [Attempts \cup Ops -> [Leases -> 0..2]]
        /\ \A c \in Attempts \cup Ops, d \in Leases : calls'[c][d] > 0 => calls[c][d] > 0
    <2>1. calls \in [Attempts \cup Ops -> [Leases -> 0..2]]
      BY <1>2, RequestOf
    <2> QED BY <1>3, <2>1
  <1>6. \A j \in Attempts, d \in Leases : exec'[d].line = j => exec[d].line = j
    <2>1. \A d \in Leases : d # e => exec'[d] = exec[d]
      BY <1>3 DEF Acts
    <2> QED BY <1>3, <2>1, InputsAssumption
  <1>7. CASE AnswerOf(i, e, "closed") /\ exec[e].phase = "ended"
    <2>1. ~Working(e)'
      <3>1. exec'[e].phase \in {"ended", "none", "gone"}
        BY <1>3, <1>7 DEF Acts, Alive
      <3> QED BY <3>1 DEF Working
    <2>2. \A k \in Uploads : native'.sub[k].run = native.sub[k].run
      BY <1>3, <1>7, InputsAssumption
    <2> QED BY <1>2, <1>4, <1>5, <1>6, <1>7, <2>1, <2>2, AnswerStep
  <1>8. CASE AnswerOf(i, e, "accepted") /\ native'.sub[attempt[i].key].run # 0
    <2>1. ASSUME NEW k \in Uploads, native'.sub[k].run # native.sub[k].run, upload[k] # "accepted"
          PROVE  Holds(i, k)'
      <3>1. k \in Keys
        BY InputsAssumption
      <3>2. k = attempt[i].key /\ exec[e].phase = "open"
        BY <1>3, <2>1, <3>1
      <3>3. Reaches(i, e) /\ Refers(i, e) /\ Working(e)
        BY <1>1, <3>2 DEF Reaches, Refers, Working
      <3>4. Waits(i) /\ attempt[i].lease = e /\ attempt[i].run = RunAt(e)
        BY <1>2, <3>3, ReachesWaits
      <3>5. attempt[i].pin = "held"
        BY <1>2, <2>1, <3>2, <3>3 DEF InputInv, CommandInv, CommandRowInv
      <3>6. native'.sub[k].run = RunAt(e)
        BY <1>3, <2>1, <3>1, GivenAnew
      <3>7. PICK x \in AttemptRow :
              /\ attempt'[i] = x
              /\ x.key = attempt[i].key /\ x.step = attempt[i].step /\ x.run = attempt[i].run
              /\ x.lease = attempt[i].lease /\ x.pin = attempt[i].pin
              /\ \/ x = attempt[i] /\ attempt' = [attempt EXCEPT ![i] = x]
                 \/ attempt[i].step = "sent" /\ x.answer = "accepted"
        BY <1>2, <1>8, AnswerMeans
      <3>8. attempt[i].step = "sent" => x.answer \in {"accepted", "unavailable"}
        <4>1. attempt[i].step = "sent" /\ attempt[i].lease = e /\ attempt[i].answer = "none" => x.answer = "accepted"
          <5>1. attempt \in [Attempts -> AttemptRow]
            BY <1>2, RequestOf
          <5> QED BY <1>2, <1>8, <3>7, <5>1 DEF AnswerOf, AttemptRow
        <4>2. attempt[i].answer \in Answers
          BY <1>2, RequestOf DEF AttemptRow
        <4> QED BY <3>4, <3>7, <4>1, <4>2 DEF Waits, Answers
      <3>9. ~leases'[e].sealed
        <4>1. Alive(e)
          BY <3>2 DEF Alive
        <4>2. ~leases[e].sealed
          BY <4>1, ServingAlive DEF Writes
        <4> QED BY <1>4, <4>2
      <3> QED BY <3>2, <3>4, <3>5, <3>6, <3>7, <3>8, <3>9 DEF Holds, Waits
    <2>2. \A k \in Uploads : native'.sub[k].run = native.sub[k].run \/ upload[k] = "accepted" \/ Holds(i, k)'
      BY <2>1
    <2> QED BY <1>2, <1>4, <1>5, <1>6, <1>8, <2>2, AnswerStep
  <1> QED BY <1>3, <1>7, <1>8

\* The preparation of an attachment fails.
LEMMA PrepareFailsStep ==
  ASSUME InputInv, [Next]_vars, NEW e \in Leases, PrepareFails(e)
  PROVE  RequestsInv'
  <1>1. PICK i : i = exec[e].line
    OBVIOUS
  <1>2. i \in Attempts
    <2>1. exec[e].line # None
      BY DEF PrepareFails, LineFree
    <2> QED BY <1>1, <2>1, LineKnown
  <1>3. /\ AnswerOf(i, e, "unavailable") /\ UNCHANGED <<run, native, calls, lock, op, upload, returned>>
        /\ exec' = [exec EXCEPT ![e].line = None]
    BY <1>1 DEF PrepareFails, RunnerUnchanged, rows
  <1>4. \A j \in Attempts, d \in Leases : exec'[d].line = j => exec[d].line = j
    <2>1. exec'[e].line = None /\ \A d \in Leases : d # e => exec'[d] = exec[d]
      <3>1. exec[e] \in ExecRow /\ exec \in [Leases -> ExecRow]
        BY Rows DEF InputInv
      <3> QED BY <1>3, <3>1 DEF ExecRow
    <2> QED BY <2>1, InputsAssumption
  <1>5. /\ calls' \in [Attempts \cup Ops -> [Leases -> 0..2]]
        /\ \A c \in Attempts \cup Ops, d \in Leases : calls'[c][d] > 0 => calls[c][d] > 0
    <2>1. calls \in [Attempts \cup Ops -> [Leases -> 0..2]]
      BY <1>2, RequestOf
    <2> QED BY <1>3, <2>1
  <1> QED BY <1>2, <1>3, <1>4, <1>5, AnswerStep

\* Of the requests, what a step for a change may rely on.
LEMMA RequestsKnown ==
  ASSUME InputInv
  PROVE  /\ RequestsTyped /\ OpInv
         /\ \A o \in Ops, e \in Leases : calls[o][e] > 0 => op[o].kind # "none"
         /\ \A o \in Ops : o \notin Attempts
  BY TypesMeet, InputsAssumption DEF InputInv, CommandInv

\* A command for a Runner that is gone.
LEMMA NoTargetStep ==
  ASSUME InputInv, [Next]_vars, NEW e \in Leases, NEW c \in Attempts \cup Ops, NoTarget(c, e)
  PROVE  RequestsInv'
  <1>1. /\ calls[c][e] > 0 /\ Taken(c, e) /\ exec[e].phase = "gone"
        /\ UNCHANGED <<run, exec, native, lock, op, upload, returned>>
    BY DEF NoTarget, RunnerUnchanged, rows
  <1>2. /\ calls' \in [Attempts \cup Ops -> [Leases -> 0..2]]
        /\ \A b \in Attempts \cup Ops, d \in Leases : calls'[b][d] > 0 => calls[b][d] > 0
    BY <1>1, TakenMeans
  <1>3. CASE c \in Attempts
    <2>1. AnswerOf(c, e, "unavailable")
      BY <1>3 DEF NoTarget
    <2> QED BY <1>1, <1>2, <1>3, <2>1, AnswerStep
  <1>4. CASE c \notin Attempts
    <2>1. UNCHANGED attempt
      BY <1>4 DEF NoTarget
    <2>2. RequestsTyped /\ OpInv /\ \A o \in Ops, d \in Leases : calls[o][d] > 0 => op[o].kind # "none"
      BY RequestsKnown
    <2>3. OpInv'
      BY <1>1, <2>2 DEF OpInv
    <2>4. \A o \in Ops, d \in Leases : calls'[o][d] > 0 => op'[o].kind # "none"
      BY <1>1, <1>2, <2>2
    <2>5. \A k \in Uploads : RunOf(k)' = RunOf(k)
      BY <1>1, RunOfSame, InputsAssumption
    <2>6. op' \in [Ops -> OpRow] /\ returned' \subseteq Runs \X Keys
          /\ upload' \in [Uploads -> {"draft", "accepted", "deleted"}]
      BY <1>1, <2>2 DEF RequestsTyped
    <2>7. \A i \in Attempts, d \in Leases : calls'[i][d] > 0 => calls[i][d] > 0
      BY <1>2
    <2> QED BY <1>1, <1>2, <2>1, <2>3, <2>4, <2>5, <2>6, <2>7, NoRequest
  <1> QED BY <1>3, <1>4

\* An edit or a withdrawal is decided.
LEMMA MutateStep ==
  ASSUME InputInv, [Next]_vars, NEW e \in Leases, NEW o \in Ops, Mutate(e, o)
  PROVE  RequestsInv'
  <1> DEFINE answer == IF o \in native.receipts \/ Applicable(e, o) THEN "applied" ELSE "refused"
  <1>1. /\ calls[o][e] > 0 /\ Taken(o, e) /\ Works(e)
        /\ UNCHANGED <<run, lock, attempt, upload, returned>>
        /\ op' = [op EXCEPT ![o].answer = IF @ = "none" THEN answer ELSE @] \/ UNCHANGED op
    BY MutateWorks DEF Mutate, rows
  <1>2. /\ calls' \in [Attempts \cup Ops -> [Leases -> 0..2]]
        /\ \A b \in Attempts \cup Ops, d \in Leases : calls'[b][d] > 0 => calls[b][d] > 0
    BY <1>1, TakenMeans
  <1>3. RequestsTyped /\ OpInv /\ \A q \in Ops, d \in Leases : calls[q][d] > 0 => op[q].kind # "none"
    BY RequestsKnown
  <1>4. /\ op' \in [Ops -> OpRow]
        /\ \A q \in Ops : op'[q].kind = op[q].kind /\ op'[q].key = op[q].key /\ op'[q].run = op[q].run
    <2>1. CASE UNCHANGED op
      BY <1>3, <2>1 DEF RequestsTyped
    <2>2. CASE op' = [op EXCEPT ![o].answer = IF @ = "none" THEN answer ELSE @]
      <3>1. op \in [Ops -> OpRow] /\ op[o] \in OpRow /\ answer \in {"applied", "refused"}
        BY <1>3 DEF RequestsTyped
      <3> HIDE DEF answer
      <3> QED BY <2>2, <3>1 DEF OpRow
    <2> QED BY <1>1, <2>1, <2>2
  <1>5. OpInv'
    BY <1>3, <1>4 DEF OpInv
  <1>6. \A q \in Ops, d \in Leases : calls'[q][d] > 0 => op'[q].kind # "none"
    BY <1>2, <1>3, <1>4
  <1>7. \A i \in Attempts, d \in Leases : exec'[d].line = i => exec[d].line = i
    <2>1. exec'[e].line \in {exec[e].line, None} /\ \A d \in Leases : d # e => exec'[d] = exec[d]
      BY <1>1 DEF Works, Acts
    <2> QED BY <2>1, InputsAssumption
  <1>8. \A k \in Uploads : RunOf(k)' = RunOf(k) /\ native'.sub[k].run = native.sub[k].run
    BY <1>1, RunOfSame, InputsAssumption DEF Works
  <1>9. returned' \subseteq Runs \X Keys /\ upload' \in [Uploads -> {"draft", "accepted", "deleted"}]
    BY <1>1, <1>3 DEF RequestsTyped
  <1>10. \A i \in Attempts, d \in Leases : calls'[i][d] > 0 => calls[i][d] > 0
    BY <1>2
  <1> QED BY <1>1, <1>2, <1>4, <1>5, <1>6, <1>7, <1>8, <1>9, <1>10, NoRequest

\* A queued message is changed as it was seen.
LEMMA ChangeStep ==
  ASSUME InputInv, [Next]_vars, NEW o \in Ops, NEW k \in Keys, NEW kind \in {"edit", "withdraw"}, Change(o, k, kind)
  PROVE  RequestsInv'
  <1> DEFINE x == [op[o] EXCEPT !.key = k, !.kind = kind, !.seen = Revision(view), !.run = view.sub[k].run]
  <1>1. /\ k \in Queued(view)
        /\ UNCHANGED <<run, exec, native, lock, attempt, calls, upload, returned>>
    BY DEF Change, rows, journal
  <1>2. RequestsTyped /\ OpInv /\ \A q \in Ops, d \in Leases : calls[q][d] > 0 => op[q].kind # "none"
    BY RequestsKnown
  <1>3. op \in [Ops -> OpRow] /\ op[o] \in OpRow
    BY <1>2 DEF RequestsTyped
  <1>4. Revision(view) \in SUBSET (Keys \X SUBSET Ops)
    <2>1. view.edits \in [Keys -> SUBSET Ops]
      BY WorldTyped DEF World, State
    <2> QED BY <2>1 DEF Revision, Queued
  <1>5. view.sub[k].run \in 0..NumRuns /\ view.sub[k].run # 0
    <2>1. view.sub \in [Keys -> [run : 0..NumRuns, status : Statuses]]
      BY WorldTyped DEF World, State
    <2>2. view.sub[k].status = "queued"
      BY <1>1 DEF Queued
    <2> QED BY <2>1, <2>2 DEF InputInv, JournalInv, ViewInv
  <1>6. x \in OpRow /\ x.kind # "none" /\ x.key = k /\ x.run # 0
    BY <1>3, <1>4, <1>5 DEF OpRow
  <1>7. op' = [op EXCEPT ![o] = x]
    BY <1>3 DEF Change
  <1> HIDE DEF x
  <1>8. op' \in [Ops -> OpRow] /\ op'[o] = x /\ \A q \in Ops : q # o => op'[q] = op[q]
    BY <1>3, <1>6, <1>7
  <1>9. OpInv'
    BY <1>2, <1>6, <1>8 DEF OpInv
  <1>10. \A q \in Ops, d \in Leases : calls'[q][d] > 0 => op'[q].kind # "none"
    BY <1>1, <1>2, <1>6, <1>8
  <1>11. \A q \in Uploads : RunOf(q)' = RunOf(q)
    BY <1>1, RunOfSame, InputsAssumption
  <1>12. /\ returned' \subseteq Runs \X Keys /\ upload' \in [Uploads -> {"draft", "accepted", "deleted"}]
         /\ calls' \in [Attempts \cup Ops -> [Leases -> 0..2]]
    BY <1>1, <1>2 DEF RequestsTyped
  <1> QED BY <1>1, <1>8, <1>9, <1>10, <1>11, <1>12, NoRequest

\* A change is sent to the execution of its Run.
LEMMA SendChangeStep ==
  ASSUME InputInv, [Next]_vars, NEW o \in Ops, SendChange(o)
  PROVE  RequestsInv'
  <1>1. /\ op[o].kind # "none"
        /\ UNCHANGED <<run, exec, native, lock, attempt, upload, returned>>
    BY DEF SendChange, rows, journal
  <1>2. /\ RequestsTyped /\ OpInv /\ \A q \in Ops, d \in Leases : calls[q][d] > 0 => op[q].kind # "none"
        /\ \A q \in Ops : q \notin Attempts
    BY RequestsKnown
  <1>3. op \in [Ops -> OpRow] /\ op[o] \in OpRow /\ calls \in [Attempts \cup Ops -> [Leases -> 0..2]]
    BY <1>2 DEF RequestsTyped
  <1>4. \A q \in Uploads : RunOf(q)' = RunOf(q)
    BY <1>1, RunOfSame, InputsAssumption
  <1>5. returned' \subseteq Runs \X Keys /\ upload' \in [Uploads -> {"draft", "accepted", "deleted"}]
    BY <1>1, <1>2 DEF RequestsTyped
  <1>6. CASE op' = [op EXCEPT ![o].answer = "applied"] /\ UNCHANGED calls
    <2>1. /\ op' \in [Ops -> OpRow]
          /\ \A q \in Ops : op'[q].kind = op[q].kind /\ op'[q].key = op[q].key /\ op'[q].run = op[q].run
      BY <1>3, <1>6 DEF OpRow
    <2>2. OpInv'
      BY <1>2, <2>1 DEF OpInv
    <2>3. \A q \in Ops, d \in Leases : calls'[q][d] > 0 => op'[q].kind # "none"
      BY <1>2, <1>6, <2>1
    <2>4. calls' \in [Attempts \cup Ops -> [Leases -> 0..2]]
      BY <1>3, <1>6
    <2>5. UNCHANGED calls
      BY <1>6
    <2> QED BY <1>1, <1>4, <1>5, <2>1, <2>2, <2>3, <2>4, <2>5, NoRequest
  <1>7. CASE ~(op' = [op EXCEPT ![o].answer = "applied"] /\ UNCHANGED calls)
    <2>1. PICK r : r = op[o].run
      OBVIOUS
    <2>2. Accepts(r) /\ calls' = [calls EXCEPT ![o][run[r].lease] = 1] /\ UNCHANGED op
      BY <1>7, <2>1 DEF SendChange
    <2>3. r \in Runs
      <3>1. r \in 0..NumRuns /\ r # 0
        BY <1>1, <1>2, <1>3, <2>1 DEF OpInv, OpRow
      <3> QED BY <3>1, InputsAssumption DEF Runs
    <2>4. PICK e \in Leases : e = run[r].lease
      BY <2>2, <2>3, RowOf DEF Accepts
    <2>5. calls' = [calls EXCEPT ![o][e] = 1]
      BY <2>2, <2>4
    <2>6. /\ calls' \in [Attempts \cup Ops -> [Leases -> 0..2]]
          /\ \A c \in Attempts \cup Ops : c # o => calls'[c] = calls[c]
      BY <1>3, <2>5
    <2>7. \A i \in Attempts, d \in Leases : calls'[i][d] > 0 => calls[i][d] > 0
      BY <1>2, <2>6
    <2>8. \A q \in Ops, d \in Leases : calls'[q][d] > 0 => op'[q].kind # "none"
      BY <1>1, <1>2, <2>2, <2>6
    <2>9. OpInv' /\ op' \in [Ops -> OpRow]
      BY <1>2, <1>3, <2>2 DEF OpInv
    <2> QED BY <1>1, <1>4, <1>5, <2>6, <2>7, <2>8, <2>9, NoRequest
  <1> QED BY <1>6, <1>7

\* A draft nobody pinned is removed, and a page of a batch read.
LEMMA UpkeepStep ==
  ASSUME InputInv, [Next]_vars, (\E k \in Uploads : Reap(k)) \/ (\E r \in Runs : ReadBatch(r))
  PROVE  RequestsInv'
  <1>1. UNCHANGED <<run, exec, native, lock, attempt, op, calls>>
    BY DEF Reap, ReadBatch, rows, journal
  <1>2. /\ RequestsTyped /\ OpInv /\ \A q \in Ops, d \in Leases : calls[q][d] > 0 => op[q].kind # "none"
    BY RequestsKnown
  <1>3. /\ op' \in [Ops -> OpRow] /\ calls' \in [Attempts \cup Ops -> [Leases -> 0..2]]
        /\ OpInv' /\ \A q \in Ops, d \in Leases : calls'[q][d] > 0 => op'[q].kind # "none"
    BY <1>1, <1>2 DEF RequestsTyped, OpInv
  <1>4. \A q \in Uploads : RunOf(q)' = RunOf(q)
    BY <1>1, RunOfSame, InputsAssumption
  <1>5. CASE \E r \in Runs : ReadBatch(r)
    <2>1. PICK r \in Runs : ReadBatch(r)
      BY <1>5
    <2>2. returned' = returned \cup {<<r, k>> : k \in Batch(r)} /\ UNCHANGED upload
      BY <2>1 DEF ReadBatch
    <2>3. returned' \subseteq Runs \X Keys /\ upload' \in [Uploads -> {"draft", "accepted", "deleted"}]
      <3>1. Batch(r) \subseteq Keys
        BY DEF Batch
      <3>2. {<<r, k>> : k \in Batch(r)} \subseteq Runs \X Keys
        BY <3>1
      <3>3. returned \subseteq Runs \X Keys /\ upload \in [Uploads -> {"draft", "accepted", "deleted"}]
        BY <1>2 DEF RequestsTyped
      <3> QED BY <2>2, <3>2, <3>3
    <2> QED BY <1>1, <1>3, <1>4, <2>2, <2>3, NoRequest
  <1>6. CASE \E k \in Uploads : Reap(k)
    <2>1. PICK k \in Uploads : Reap(k)
      BY <1>6
    <2>2. /\ upload[k] = "draft" /\ upload' = [upload EXCEPT ![k] = "deleted"] /\ UNCHANGED returned
          /\ \A i \in Attempts : ~(attempt[i].key = k /\ attempt[i].pin = "held")
      BY <2>1 DEF Reap
    <2>3. returned' \subseteq Runs \X Keys /\ upload' \in [Uploads -> {"draft", "accepted", "deleted"}]
      BY <1>2, <2>2 DEF RequestsTyped
    <2>4. \A q \in Uploads :
           /\ upload[q] = "accepted" => upload'[q] = "accepted"
           /\ upload'[q] = "deleted" =>
                upload[q] = "deleted" \/ \A i \in Attempts : ~(attempt[i].key = q /\ attempt[i].pin = "held")
      BY <1>2, <2>2 DEF RequestsTyped
    <2> QED BY <1>1, <1>3, <1>4, <2>3, <2>4, NoRequest
  <1> QED BY <1>5, <1>6

-----------------------------------------------------------------------------
(* The theorems.                                                             *)

\* Run 1 is at work with lease 1, and nobody has sent a message.
LEMMA InputStart ==
  ASSUME Init
  PROVE  InputInv
  <1>1. 1 \in Runs /\ 1 \in Leases /\ 0 \notin Runs /\ 0 \notin Leases /\ 1 # 0
    BY InputsAssumption DEF Runs, Leases
  <1>2. 0 \in 0..NumRuns /\ 0 \in 0..MaxLease /\ 1 \in 0..NumRuns /\ 1 \in 0..MaxLease
    BY InputsAssumption
  <1>3. /\ \A r \in Runs : run[r] = IF r = 1 THEN [NoRun EXCEPT !.state = "running", !.lease = 1] ELSE NoRun
        /\ \A e \in Leases : leases[e] = [run |-> IF e = 1 THEN 1 ELSE 0, sealed |-> FALSE]
        /\ \A e \in Leases : exec[e] = IF e = 1 THEN [NoExec EXCEPT !.phase = "open", !.busy = TRUE] ELSE NoExec
        /\ view = native /\ tail = <<>> /\ lock = None /\ returned = {}
        /\ native.meta = {} /\ \A k \in Keys : native.sub[k].run = 0 /\ native.sub[k].status = "none"
        /\ \A i \in Attempts : attempt[i] = [key |-> NoKey, step |-> "new", run |-> 0, lease |-> 0,
                                             again |-> FALSE, pin |-> "none", answer |-> "none"]
        /\ \A o \in Ops : op[o].kind = "none"
        /\ \A c \in Attempts \cup Ops, e \in Leases : calls[c][e] = 0
        /\ \A k \in Uploads : upload[k] = "draft"
    BY DEF Init
  <1>4. World
    <2>1. NoRun \in RunRow /\ [NoRun EXCEPT !.state = "running", !.lease = 1] \in RunRow
      BY <1>2 DEF RunRow, NoRun, Terminal
    <2>2. NoExec \in ExecRow /\ [NoExec EXCEPT !.phase = "open", !.busy = TRUE] \in ExecRow
      BY DEF ExecRow, NoExec, Phases
    <2>3. run \in [Runs -> RunRow] /\ leases \in [Leases -> [run : 0..NumRuns, sealed : BOOLEAN]]
          /\ exec \in [Leases -> ExecRow]
      BY <1>2, <2>1, <2>2 DEF Init
    <2>4. native \in State
      BY <1>2 DEF Init, State, Statuses
    <2>5. tail \in Seq(Record)
      BY <1>3
    <2> QED BY <1>3, <2>3, <2>4, <2>5 DEF World
  <1>5. RequestsTyped
    <2>1. [key |-> NoKey, step |-> "new", run |-> 0, lease |-> 0, again |-> FALSE,
           pin |-> "none", answer |-> "none"] \in AttemptRow
      BY <1>2 DEF AttemptRow, Steps, Answers
    <2>2. [key |-> NoKey, kind |-> "none", seen |-> {}, run |-> 0, answer |-> "none"] \in OpRow
      BY <1>2 DEF OpRow
    <2> QED BY <2>1, <2>2 DEF Init, RequestsTyped
  <1>6. RunInv
    <2>1. ASSUME NEW r \in Runs, r # 1 PROVE RunRowInv(r)
      <3>1. run[r] = NoRun
        BY <1>3, <2>1
      <3> QED BY <3>1 DEF RunRowInv, NoRun, Settled, Terminal
    <2>2. RunRowInv(1) /\ run[1].state # "absent"
      <3>1. /\ run[1].state = "running" /\ run[1].lease = 1 /\ ~run[1].sealed /\ ~run[1].sealing /\ ~run[1].recovering
            /\ leases[1].run = 1 /\ ~leases[1].sealed
        <4>1. run[1] = [NoRun EXCEPT !.state = "running", !.lease = 1]
          BY <1>1, <1>3
        <4>2. leases[1] = [run |-> 1, sealed |-> FALSE]
          BY <1>1, <1>3
        <4> QED BY <4>1, <4>2 DEF NoRun
      <3> QED BY <1>1, <3>1 DEF RunRowInv, Settled, Terminal, Writes, Issued, RunAt
    <2> QED BY <2>1, <2>2 DEF RunInv
  <1>7. /\ \A e \in Leases : (Issued(e) <=> e = 1) /\ ~leases[e].sealed /\ exec[e].line = None
        /\ \A e \in Leases : exec[e].phase = IF e = 1 THEN "open" ELSE "none"
        /\ RunAt(1) = 1 /\ run[1].lease = 1
    <2>1. run[1] = [NoRun EXCEPT !.state = "running", !.lease = 1]
      BY <1>1, <1>3
    <2>2. run[1].lease = 1
      BY <2>1 DEF NoRun
    <2>3. ASSUME NEW e \in Leases
          PROVE  /\ leases[e].run = IF e = 1 THEN 1 ELSE 0
                 /\ ~leases[e].sealed
      <3>1. leases[e] = [run |-> IF e = 1 THEN 1 ELSE 0, sealed |-> FALSE]
        BY <1>3
      <3> QED BY <3>1
    <2>4. ASSUME NEW e \in Leases
          PROVE  exec[e].line = None /\ exec[e].phase = IF e = 1 THEN "open" ELSE "none"
      <3>1. CASE e = 1
        <4>1. exec[e] = [NoExec EXCEPT !.phase = "open", !.busy = TRUE]
          BY <1>3, <3>1
        <4> QED BY <3>1, <4>1 DEF NoExec
      <3>2. CASE e # 1
        <4>1. exec[e] = NoExec
          BY <1>3, <3>2
        <4> QED BY <3>2, <4>1 DEF NoExec
      <3> QED BY <3>1, <3>2
    <2> QED BY <1>1, <2>2, <2>3, <2>4 DEF Issued, RunAt
  <1>8. WriterInv
    <2>1. \A e \in Leases : e = 1 \/ 1 < e
      BY DEF Leases
    <2> QED BY <1>7, <2>1 DEF WriterInv, Writes, Leases
  <1>9. DOMAIN tail = {}
    BY <1>3
  <1>10. TailInv
    BY <1>3, <1>9 DEF TailInv
  <1>11. NativeInv /\ ViewInv
    BY <1>1, <1>3, <1>9 DEF NativeInv, ViewInv, Queued, Kind
  <1>12. AttemptInv
    BY <1>3, InputsAssumption DEF AttemptInv, AttemptRowInv
  <1>13. CommandInv
    <2>1. \A i \in Attempts, e \in Leases : ~Refers(i, e) /\ exec[e].line # i
      BY <1>3, <1>7, InputsAssumption DEF Refers, Reaches
    <2>2. \A i \in Attempts, e \in Leases : ~Reaches(i, e)
      BY <2>1 DEF Refers
    <2> QED BY <1>3, <2>1, <2>2 DEF CommandInv, CommandRowInv
  <1>14. OpInv /\ ReturnInv
    BY <1>3 DEF OpInv, ReturnInv
  <1>15. \A k \in Keys : RunOf(k) = {}
    <2>1. ASSUME NEW r \in Runs PROVE run[r].key = NoKey
      <3>1. CASE r = 1
        <4>1. run[r] = [NoRun EXCEPT !.state = "running", !.lease = 1]
          BY <1>3, <3>1
        <4> QED BY <4>1 DEF NoRun
      <3>2. CASE r # 1
        <4>1. run[r] = NoRun
          BY <1>3, <3>2
        <4> QED BY <4>1 DEF NoRun
      <3> QED BY <3>1, <3>2
    <2> QED BY <2>1, InputsAssumption DEF RunOf
  <1>16. PlaceInv
    BY <1>3, <1>15 DEF PlaceInv
  <1>17. FileInv
    BY <1>3, <1>15, InputsAssumption DEF FileInv
  <1>18. Typed
    BY <1>4, <1>5, TypesMeet
  <1> QED BY <1>6, <1>8, <1>10, <1>11, <1>12, <1>13, <1>14, <1>16, <1>17, <1>18
          DEF InputInv, LedgerInv, JournalInv

\* A step of a request keeps what requests may rely on.
LEMMA ForegroundStep ==
  ASSUME InputInv, [Next]_vars, Foreground
  PROVE  RequestsInv'
  BY BeginStep, AcceptInitialStep, AdmitStep, RefuseStep, SendStep, ReceiveStep, TimeoutStep,
     ReconcilePinStep, ChangeStep, SendChangeStep, StartInputStep, SubmitStep, PrepareFailsStep,
     MutateStep, NoTargetStep, UpkeepStep DEF Foreground

\* Every step keeps the invariant.
LEMMA InputStep ==
  ASSUME InputInv, [Next]_vars
  PROVE  InputInv'
  <1>1. World' /\ LedgerInv'
    BY LedgerStep
  <1>2. JournalInv'
    BY NativeStep, ViewStep DEF JournalInv
  <1>3. RequestsInv'
    BY StepSeen, BackgroundStep, ForegroundStep
  <1>4. Typed'
    <2>1. RequestsTyped'
      BY <1>3 DEF RequestsInv
    <2> QED BY <1>1, <2>1 DEF Typed, TypeOK, World, RequestsTyped, State, RunRow, ExecRow, AttemptRow, OpRow
  <1>5. PlaceInv' /\ ReturnInv'
    BY PlaceStep, ReturnStep
  <1> QED BY <1>1, <1>2, <1>3, <1>4, <1>5 DEF InputInv, RequestsInv

\* The invariant holds of every behaviour.
THEOREM InputInvariant == Spec => []InputInv
  <1>1. Init => InputInv
    BY InputStart
  <1>2. InputInv /\ [Next]_vars => InputInv'
    BY InputStep
  <1> QED BY <1>1, <1>2, PTL DEF Spec

\* The variables have their types.
THEOREM TypeCorrect == Spec => []TypeOK
  <1>1. InputInv => TypeOK
    BY DEF InputInv, Typed
  <1> QED BY <1>1, InputInvariant, PTL

\* The number of things a message became.
LEMMA PlacedMeans ==
  ASSUME InputInv, NEW k \in Keys
  PROVE  /\ Placements(k) \in {0, 1}
         /\ RunOf(k) # {} \/ native.sub[k].run # 0 => Placements(k) = 1
  <1>1. PlaceInv
    BY DEF InputInv
  <1>2. CASE RunOf(k) = {}
    <2>1. Cardinality(RunOf(k)) = 0
      BY <1>2, FS_EmptySet
    <2>2. Placements(k) = IF native.sub[k].run # 0 THEN 1 ELSE 0
      BY <2>1 DEF Placements
    <2> QED BY <1>2, <2>2
  <1>3. CASE RunOf(k) # {}
    <2>1. PICK r : r \in RunOf(k)
      BY <1>3
    <2>2. RunOf(k) = {r}
      BY <1>1, <2>1 DEF PlaceInv
    <2>3. Cardinality(RunOf(k)) = 1
      BY <2>2, FS_Singleton
    <2>4. native.sub[k].run = 0
      BY <1>1, <1>3 DEF PlaceInv
    <2>5. Placements(k) = 1
      BY <2>3, <2>4 DEF Placements
    <2> QED BY <2>5
  <1> QED BY <1>2, <1>3

\* A message becomes the initial input of one Run or one submission of Pi, never
\* two of them (acceptInitial, #assertReceiving, submit), although requests are
\* repeated and the API decides from a projection that lags behind the log.
THEOREM PlacedOnceHolds == Spec => []PlacedOnce
  <1>1. InputInv => PlacedOnce
    <2> SUFFICES ASSUME InputInv, NEW k \in Keys PROVE Placements(k) <= 1
      BY DEF PlacedOnce
    <2> QED BY PlacedMeans
  <1> QED BY <1>1, InputInvariant, PTL

\* A message reported as accepted is placed: Pi's receipt decides, not the record
\* written before it.
THEOREM AcceptedIsPlacedHolds == Spec => []AcceptedIsPlaced
  <1>1. InputInv => AcceptedIsPlaced
    <2> SUFFICES ASSUME InputInv, NEW i \in Attempts, attempt[i].answer = "accepted"
                 PROVE  Placements(attempt[i].key) = 1
      BY DEF AcceptedIsPlaced
    <2>1. AttemptRowInv(i)
      BY RequestOf
    <2>2. /\ attempt[i].key \in Keys
          /\ RunOf(attempt[i].key) # {} \/ native.sub[attempt[i].key].run # 0
      BY <2>1 DEF AttemptRowInv
    <2> QED BY <2>2, PlacedMeans
  <1> QED BY <1>1, InputInvariant, PTL

\* The files of a message that is placed and not withdrawn are there, also when the
\* answer of the Worker never arrived (settleUploadPins, reconcileUploadPins).
THEOREM FilesAreKeptHolds == Spec => []FilesAreKept
  <1>1. InputInv => FilesAreKept
    <2> SUFFICES ASSUME InputInv, NEW k \in Uploads,
                        RunOf(k) # {} \/ native.sub[k].status \in {"queued", "consumed", "aborted"}
                 PROVE  upload[k] # "deleted"
      BY DEF FilesAreKept
    <2>1. k \in Keys
      BY InputsAssumption
    <2>2. CASE RunOf(k) # {}
      BY <2>2 DEF InputInv, FileInv
    <2>3. CASE native.sub[k].status \in {"queued", "consumed", "aborted"}
      <3>1. native.sub[k].run # 0 /\ native.sub[k].status # "withdrawn"
        BY <2>1, <2>3 DEF InputInv, JournalInv, NativeInv
      <3>2. upload[k] = "accepted" \/ \E i \in Attempts : Holds(i, k)
        BY <3>1 DEF InputInv, FileInv
      <3>3. ASSUME NEW i \in Attempts, Holds(i, k) PROVE upload[k] # "deleted"
        BY <3>3 DEF InputInv, FileInv, Holds
      <3> QED BY <3>2, <3>3
    <2> QED BY <2>2, <2>3
  <1> QED BY <1>1, InputInvariant, PTL

-----------------------------------------------------------------------------
(* Runs are served one after the other, so a message recorded for one of     *)
(* them can only have been placed by it or by a later one.                   *)

\* The Runs before one that was claimed have settled, and its writer follows theirs.
OrderedInv ==
  /\ \A e \in Leases : Issued(e) => \A p \in Runs : p < RunAt(e) => Settled(p)
  /\ \A d, e \in Leases : d < e /\ Issued(e) => leases[d].sealed /\ RunAt(d) <= RunAt(e)

\* The message of a request is in no other Run than that of the execution.
Fresh(i, e) == native.sub[attempt[i].key].run \in {0, RunAt(e)}

\* What the admission read, and what the executions hear of, is not placed before.
HeardInv ==
  /\ \A i \in Attempts : attempt[i].step = "reading" /\ native.sub[attempt[i].key].run # 0 =>
       \E e \in Leases : Writes(e) /\ Fresh(i, e)
  /\ \A i \in Attempts, e \in Leases : Working(e) /\ Refers(i, e) => Fresh(i, e)

\* A message is recorded for claimed Runs, and for none after the one that placed it.
MetaInv ==
  \A r \in Runs, k \in Keys : <<r, k>> \in native.meta =>
    /\ \E e \in Leases : RunAt(e) = r
    /\ native.sub[k].run # 0 => r <= native.sub[k].run

\* What is projected, or given back, was recorded.
SeenInv ==
  /\ view.meta \subseteq native.meta /\ returned \subseteq view.meta
  /\ \A n \in DOMAIN tail : tail[n].kind = "meta" => <<tail[n].run, tail[n].key>> \in native.meta

OrderInv == OrderedInv /\ HeardInv /\ MetaInv /\ SeenInv

\* Leases are given by Claim only, and none changes while an admission reads.
LEMMA LeasesFrom ==
  ASSUME InputInv, [Next]_vars
  PROVE  /\ \/ \E r \in Runs, e \in Leases : Claim(r, e)
            \/ \A e \in Leases : RunAt(e)' = RunAt(e)
         /\ lock # None => UNCHANGED leases
         /\ \A r \in Runs : Settled(r) => Settled(r)'
  <1>1. ASSUME NEW e \in Leases, Acts(e) PROVE UNCHANGED rows
    BY <1>1 DEF Acts
  <1>2. ASSUME NEW r \in Runs, RowMoves(r)
        PROVE  UNCHANGED leases /\ \A s \in Runs : Settled(s) => Settled(s)'
    BY <1>2 DEF RowMoves, Settled
  <1>3. ASSUME NEW r \in Runs, NEW e \in Leases, Claim(r, e)
        PROVE  lock = None /\ \A s \in Runs : Settled(s) => Settled(s)'
    BY <1>3, ClaimFacts DEF Settled, Terminal
  <1>4. ASSUME NEW e \in Leases, NEW r \in Runs, NEW c \in Record, Projects(e, r, c)
        PROVE  /\ \A d \in Leases : RunAt(d)' = RunAt(d)
               /\ lock # None => UNCHANGED leases
               /\ \A s \in Runs : Settled(s) => Settled(s)'
    BY <1>4 DEF Projects, RunAt, Settled, rows
  <1>5. Rests => UNCHANGED rows
    BY DEF Rests
  <1> QED BY <1>1, <1>2, <1>3, <1>4, <1>5, StepKinds DEF Kinds, rows, RunAt, Settled

\* Claiming a Run keeps the order.
LEMMA OrderedStep ==
  ASSUME InputInv, OrderedInv, [Next]_vars
  PROVE  OrderedInv'
  <1>1. /\ \A e \in Leases : RunAt(e) \in Nat /\ e \in Nat
        /\ \A r \in Runs : r \in Nat /\ (Settled(r) => Settled(r)')
        /\ \A e \in Leases : leases[e].sealed => leases'[e].sealed
    BY LeasesFrom, GrowsStep, Rows DEF InputInv, Grows, Leases, Runs, RunAt
  <1>2. CASE \A e \in Leases : RunAt(e)' = RunAt(e)
    BY <1>1, <1>2 DEF OrderedInv, Issued, RunAt
  <1>3. CASE \E r \in Runs, e \in Leases : Claim(r, e)
    <2>1. PICK r \in Runs, e \in Leases : Claim(r, e)
      BY <1>3
    <2>2. /\ ~Issued(e) /\ run[r].state = "queued" /\ RunAt(e)' = r
          /\ \A d \in Leases : d # e => RunAt(d)' = RunAt(d)
          /\ \A d \in Leases : d < e => Issued(d)
      BY <2>1, ClaimFacts DEF RunAt
    <2>3. /\ \A p \in Runs : p < r => Settled(p)
          /\ \A d \in Leases : d < e => leases[d].sealed
      BY <2>1 DEF Claim, Leases
    <2>4. ~Settled(r)
      BY <2>2 DEF Settled, Terminal
    <2>5. \A d \in Leases : d < e => RunAt(d) <= r
      BY <1>1, <2>2, <2>4 DEF OrderedInv
    <2>6. \A d, f \in Leases : d < f /\ Issued(f) => Issued(d)
      BY DEF InputInv, LedgerInv, WriterInv
    <2>7. \A f \in Leases : Issued(f)' /\ f # e => Issued(f)
      BY <2>2 DEF Issued, RunAt
    <2>8. \A f \in Leases : Issued(f)' => \A p \in Runs : p < RunAt(f)' => Settled(p)'
      BY <1>1, <2>2, <2>3, <2>7 DEF OrderedInv
    <2>9. \A d, f \in Leases : d < f /\ Issued(f)' => leases'[d].sealed /\ RunAt(d)' <= RunAt(f)'
      BY <1>1, <2>2, <2>3, <2>5, <2>6, <2>7 DEF OrderedInv
    <2> QED BY <2>8, <2>9 DEF OrderedInv
  <1> QED BY <1>2, <1>3, LeasesFrom

\* A request goes on with its message, unless the admission reads or admits it.
Continues(i) ==
  /\ attempt'[i].key = attempt[i].key
  /\ attempt'[i].step = "reading" => attempt[i].step = "reading"
  /\ \A e \in Leases : Refers(i, e)' => Refers(i, e)

\* What a step makes of a request.
LEMMA RequestGoes ==
  ASSUME InputInv, [Next]_vars, NEW i \in Attempts
  PROVE  Continues(i) \/ Admit(i) \/ \E k \in Keys : Begin(i, k)
  <1>0. /\ attempt \in [Attempts -> AttemptRow] /\ exec \in [Leases -> ExecRow] /\ i # None
        /\ calls \in [Attempts \cup Ops -> [Leases -> 0..2]]
    BY RequestOf, Rows DEF InputInv
  <1>1. ASSUME UNCHANGED <<attempt, calls>>,
               \A e \in Leases : exec'[e].line = i => exec[e].line = i
        PROVE  Continues(i)
    BY <1>1 DEF Continues, Refers, Reaches
  <1>2. CASE Background
    <2>1. UNCHANGED <<attempt, calls>>
      BY <1>2 DEF Background, requests
    <2>2. ASSUME NEW d \in Leases, Works(d) PROVE \A e \in Leases : exec'[e].line = i => exec[e].line = i
      BY <1>0, <2>2 DEF Works, Acts
    <2>3. ASSUME NEW r \in Runs, Rewrites(r) PROVE UNCHANGED exec
      BY <2>3 DEF Rewrites, RowMoves
    <2>4. ASSUME NEW r \in Runs, NEW d \in Leases, Claim(r, d)
          PROVE  \A e \in Leases : exec'[e].line = i => exec[e].line = i
      BY <1>0, <2>4, ClaimFacts
    <2>5. ASSUME NEW d \in Leases, NEW r \in Runs, NEW c \in Record, Projects(d, r, c) PROVE UNCHANGED exec
      BY <2>5 DEF Projects
    <2>6. Rests => UNCHANGED exec
      BY DEF Rests
    <2>7. \A e \in Leases : exec'[e].line = i => exec[e].line = i
      BY <1>2, <2>2, <2>3, <2>4, <2>5, <2>6 DEF Background
    <2> QED BY <1>1, <2>1, <2>7
  <1>3. CASE Foreground
    <2>1. ASSUME NEW j \in Attempts, NEW k \in Keys, Begin(j, k), ~Begin(i, k) PROVE Continues(i)
      <3>1. i # j /\ UNCHANGED <<calls, exec>> /\ attempt'[i] = attempt[i]
        BY <1>0, <2>1 DEF Begin
      <3> QED BY <3>1 DEF Continues, Refers, Reaches
    <2>2. ASSUME NEW j \in Attempts, Admit(j), ~Admit(i) PROVE Continues(i)
      <3>1. i # j /\ UNCHANGED <<calls, exec>> /\ attempt'[i] = attempt[i]
        BY <1>0, <2>2 DEF Admit
      <3> QED BY <3>1 DEF Continues, Refers, Reaches
    <2>3. ASSUME NEW j \in Attempts,
                 AcceptInitial(j) \/ Refuse(j) \/ Receive(j) \/ Timeout(j) \/ ReconcilePin(j)
          PROVE  Continues(i)
      <3>1. UNCHANGED <<calls, exec>>
        BY <2>3 DEF AcceptInitial, Refuse, Receive, Timeout, ReconcilePin
      <3>2. /\ attempt'[i].key = attempt[i].key /\ attempt'[i].lease = attempt[i].lease
            /\ attempt'[i].step = attempt[i].step \/ attempt'[i].step \in {"new", "done"}
        <4>0. attempt[i] \in AttemptRow /\ attempt[j] \in AttemptRow
          BY <1>0
        <4>1. CASE AcceptInitial(j)
          BY <1>0, <4>0, <4>1 DEF AcceptInitial, AttemptRow
        <4>2. CASE Refuse(j)
          BY <1>0, <4>0, <4>2 DEF Refuse, AttemptRow
        <4>3. CASE Receive(j)
          BY <1>0, <4>0, <4>3 DEF Receive, AttemptRow
        <4>4. CASE Timeout(j)
          BY <1>0, <4>0, <4>4 DEF Timeout, AttemptRow
        <4>5. CASE ReconcilePin(j)
          BY <1>0, <4>0, <4>5 DEF ReconcilePin, AttemptRow
        <4> QED BY <2>3, <4>1, <4>2, <4>3, <4>4, <4>5
      <3> QED BY <3>1, <3>2 DEF Continues, Refers, Reaches
    <2>4. ASSUME NEW j \in Attempts, Send(j) PROVE Continues(i)
      <3>0. attempt[i] \in AttemptRow /\ attempt[j] \in AttemptRow /\ UNCHANGED exec
            /\ attempt[j].step = "admitted"
        BY <1>0, <2>4 DEF Send
      <3>1. /\ attempt'[i].key = attempt[i].key /\ attempt'[i].lease = attempt[i].lease
            /\ attempt'[i].step = attempt[i].step
                 \/ (i = j /\ attempt'[i].step \in {"sent", "done"})
        <4>1. CASE i = j
          <5>1. CASE Assigned(attempt[j].run, attempt[j].lease)
            <6>1. attempt' = [attempt EXCEPT ![j].step = "sent"]
              BY <2>4, <5>1 DEF Send
            <6> QED BY <1>0, <3>0, <4>1, <6>1 DEF AttemptRow
          <5>2. CASE ~Assigned(attempt[j].run, attempt[j].lease)
            <6>1. attempt' = [attempt EXCEPT ![j] =
                    [@ EXCEPT !.step = "done", !.answer = "unavailable", !.pin = SettledPin(attempt[j].pin)]]
              BY <2>4, <5>2 DEF Send
            <6> QED BY <1>0, <3>0, <4>1, <6>1 DEF AttemptRow
          <5> QED BY <5>1, <5>2
        <4>2. CASE i # j
          <5>1. attempt'[i] = attempt[i]
            BY <1>0, <2>4, <4>2 DEF Send
          <5> QED BY <5>1
        <4> QED BY <4>1, <4>2
      <3>2. \A e \in Leases : calls'[i][e] > 0 => calls[i][e] > 0 \/ (i = j /\ e = attempt[i].lease)
        BY <1>0, <2>4 DEF Send
      <3> QED BY <3>0, <3>1, <3>2 DEF Continues, Refers, Reaches
    <2>5. ASSUME NEW o \in Ops, NEW k \in Keys, NEW kind \in {"edit", "withdraw"}, Change(o, k, kind)
          PROVE  Continues(i)
      <3>1. UNCHANGED <<attempt, calls, exec>>
        BY <2>5 DEF Change
      <3> QED BY <1>1, <3>1
    <2>6. ASSUME NEW o \in Ops, SendChange(o) PROVE Continues(i)
      <3>1. UNCHANGED <<attempt, exec>> /\ i # o
        BY <2>6, InputsAssumption DEF SendChange
      <3>2. calls'[i] = calls[i]
        BY <1>0, <2>6, <3>1 DEF SendChange
      <3> QED BY <3>1, <3>2 DEF Continues, Refers, Reaches
    <2>7. ASSUME NEW d \in Leases, NEW j \in Attempts, StartInput(d, j) PROVE Continues(i)
      <3>1. calls[j][d] > 0 /\ \A e \in Leases : calls'[i][e] > 0 => calls[i][e] > 0
        BY <2>7, TakenMeans DEF StartInput
      <3>2. \A e \in Leases : exec'[e].line = i => exec[e].line = i \/ (i = j /\ e = d)
        BY <1>0, <2>7 DEF StartInput, ExecRow
      <3>3. /\ attempt'[i].key = attempt[i].key /\ attempt'[i].lease = attempt[i].lease
            /\ attempt'[i].step = attempt[i].step
        <4>1. AnswerOf(j, d, "closed") \/ UNCHANGED attempt
          BY <2>7 DEF StartInput
        <4> QED BY <1>0, <4>1, AnswerMeans, AttemptMeans
      <3> QED BY <3>1, <3>2, <3>3 DEF Continues, Refers, Reaches
    <2>8. ASSUME NEW d \in Leases, Submit(d) \/ PrepareFails(d) PROVE Continues(i)
      <3>1. exec[d].line \in Attempts /\ UNCHANGED calls
        BY <2>8, LineKnown DEF Submit, PrepareFails, LineFree
      <3>2. \A e \in Leases : exec'[e].line = i => exec[e].line = i
        <4>1. CASE Submit(d)
          BY <1>0, <4>1, SubmitActs DEF Acts
        <4>2. CASE PrepareFails(d)
          BY <1>0, <4>2, PrepareFailsWorks DEF Works, Acts
        <4> QED BY <2>8, <4>1, <4>2
      <3>3. /\ attempt'[i].key = attempt[i].key /\ attempt'[i].lease = attempt[i].lease
            /\ attempt'[i].step = attempt[i].step
        <4>1. \E what \in {"accepted", "closed", "unavailable"} : AnswerOf(exec[d].line, d, what)
          BY <2>8 DEF Submit, PrepareFails
        <4> QED BY <1>0, <3>1, <4>1, AnswerMeans, AttemptMeans
      <3> QED BY <3>1, <3>2, <3>3 DEF Continues, Refers, Reaches
    <2>9. ASSUME NEW d \in Leases, NEW o \in Ops, Mutate(d, o) PROVE Continues(i)
      <3>1. UNCHANGED attempt /\ \A e \in Leases : calls'[i][e] > 0 => calls[i][e] > 0
        BY <2>9, TakenMeans DEF Mutate
      <3>2. \A e \in Leases : exec'[e].line = i => exec[e].line = i
        BY <1>0, <2>9, MutateWorks DEF Works, Acts
      <3> QED BY <3>1, <3>2 DEF Continues, Refers, Reaches
    <2>10. ASSUME NEW d \in Leases, NEW c \in Attempts \cup Ops, NoTarget(c, d) PROVE Continues(i)
      <3>1. UNCHANGED exec /\ \A e \in Leases : calls'[i][e] > 0 => calls[i][e] > 0
        BY <2>10, TakenMeans DEF NoTarget
      <3>2. /\ attempt'[i].key = attempt[i].key /\ attempt'[i].lease = attempt[i].lease
            /\ attempt'[i].step = attempt[i].step
        <4>1. UNCHANGED attempt \/ (c \in Attempts /\ AnswerOf(c, d, "unavailable"))
          BY <2>10 DEF NoTarget
        <4> QED BY <1>0, <4>1, AnswerMeans, AttemptMeans
      <3> QED BY <3>1, <3>2 DEF Continues, Refers, Reaches
    <2>11. ASSUME NEW r \in Runs, ReadBatch(r) PROVE Continues(i)
      BY <1>1, <2>11 DEF ReadBatch
    <2>12. ASSUME NEW k \in Uploads, Reap(k) PROVE Continues(i)
      BY <1>1, <2>12 DEF Reap
    <2> QED BY <1>3, <2>1, <2>2, <2>3, <2>4, <2>5, <2>6, <2>7, <2>8, <2>9, <2>10, <2>11, <2>12 DEF Foreground
  <1> QED BY <1>2, <1>3, StepSeen

\* An execution at work is the one writer there is.
LEMMA WorkingWrites ==
  ASSUME InputInv, NEW e \in Leases, Working(e)
  PROVE  Writes(e) /\ \A d \in Leases : Writes(d) => d = e
  <1>1. Alive(e) /\ Typed /\ LedgerInv
    BY DEF Working, Alive, InputInv
  <1>2. Writes(e)
    BY <1>1, AliveWrites
  <1> QED BY <1>1, <1>2 DEF LedgerInv, WriterInv

\* Where a step places a message, it is in the Run of the writer.
LEMMA PlacedByWriter ==
  ASSUME InputInv, [Next]_vars, NEW k \in Keys
  PROVE  \/ native'.sub[k].run = native.sub[k].run
         \/ \E d \in Leases : Writes(d) /\ Writes(d)' /\ native'.sub[k].run = RunAt(d) /\ RunAt(d)' = RunAt(d)
  <1>1. ASSUME NEW d \in Leases, Submit(d), native'.sub[k].run # native.sub[k].run
        PROVE  Writes(d) /\ Writes(d)' /\ native'.sub[k].run = RunAt(d) /\ RunAt(d)' = RunAt(d)
    <2>1. Acts(d) /\ native'.sub[k].run = RunAt(d)
      BY <1>1, SubmitActs, GivenAnew
    <2>2. Writes(d)
      BY <1>1, ServingAlive DEF Submit
    <2>3. UNCHANGED leases
      BY <2>1 DEF Acts, rows
    <2> QED BY <2>1, <2>2, <2>3 DEF Writes, Issued, RunAt
  <1> QED BY <1>1, SubStays

\* What the admission knows of a message once it holds the Session row.
LEMMA BeginMeans ==
  ASSUME InputInv, NEW i \in Attempts, NEW k \in Keys, Begin(i, k)
  PROVE  /\ attempt'[i].key = k /\ attempt'[i].step \in {"done", "reading"}
         /\ attempt[i].step = "new" /\ (attempt[i].again => attempt[i].key = k)
         /\ UNCHANGED <<exec, calls, leases, native>>
         /\ attempt'[i].step = "reading" => view.sub[k].run = 0
  <1>1. attempt \in [Attempts -> AttemptRow] /\ attempt[i] \in AttemptRow
    BY RequestOf
  <1>2. /\ attempt[i].step = "new" /\ (attempt[i].again => attempt[i].key = k)
        /\ UNCHANGED <<exec, calls, leases, native>>
    BY DEF Begin, rows, journal
  <1>3. CASE RunOf(k) # {} \/ view.sub[k].run # 0
    <2>1. attempt' = [attempt EXCEPT ![i] = [@ EXCEPT !.key = k, !.step = "done", !.answer = "accepted"]]
      BY <1>3 DEF Begin
    <2> QED BY <1>1, <1>2, <2>1 DEF AttemptRow
  <1>4. CASE RunOf(k) = {} /\ view.sub[k].run = 0
    <2>1. attempt' = [attempt EXCEPT ![i] = [@ EXCEPT !.key = k, !.step = "reading"]]
      BY <1>4 DEF Begin
    <2> QED BY <1>1, <1>2, <1>4, <2>1 DEF AttemptRow
  <1> QED BY <1>3, <1>4

\* What is read and heard of is not placed before.
LEMMA HeardStep ==
  ASSUME InputInv, InputInv', HeardInv, [Next]_vars
  PROVE  HeardInv'
  <1>1. ASSUME NEW i \in Attempts, attempt'[i].step = "reading", native'.sub[attempt'[i].key].run # 0
        PROVE  \E e \in Leases : Writes(e)' /\ Fresh(i, e)'
    <2>1. lock' = i /\ i # None /\ attempt'[i].key \in Keys
      BY <1>1, RequestOf DEF InputInv, AttemptInv, AttemptRowInv
    <2>2. CASE Continues(i)
      <3>1. attempt[i].step = "reading" /\ attempt'[i].key = attempt[i].key /\ lock = i
        BY <1>1, <2>2, RequestOf DEF Continues, AttemptRowInv
      <3>2. UNCHANGED leases
        BY <2>1, <3>1, LeasesFrom
      <3>3. CASE native.sub[attempt[i].key].run # 0
        <4>1. PICK e \in Leases : Writes(e) /\ Fresh(i, e)
          BY <3>1, <3>3 DEF HeardInv
        <4>2. native'.sub[attempt[i].key].run = native.sub[attempt[i].key].run
          BY <2>1, <3>1, <3>3, GrowsStep DEF Grows
        <4> QED BY <3>1, <3>2, <4>1, <4>2 DEF Writes, Issued, RunAt, Fresh
      <3>4. CASE native.sub[attempt[i].key].run = 0
        <4>1. PICK d \in Leases : Writes(d)' /\ native'.sub[attempt[i].key].run = RunAt(d) /\ RunAt(d)' = RunAt(d)
          BY <1>1, <2>1, <3>1, <3>4, PlacedByWriter
        <4> QED BY <3>1, <4>1 DEF Fresh
      <3> QED BY <3>3, <3>4
    <2>3. CASE Admit(i)
      <3>1. attempt'[i].step = "admitted"
        BY <2>3, RequestOf DEF Admit, AttemptRow
      <3> QED BY <1>1, <3>1
    <2>4. ASSUME NEW k \in Keys, Begin(i, k) PROVE \E e \in Leases : Writes(e)' /\ Fresh(i, e)'
      <3>1. /\ attempt'[i].key = k /\ view.sub[k].run = 0
            /\ UNCHANGED <<leases, native>> /\ native.sub[k].run # 0
        BY <1>1, <2>4, BeginMeans
      <3>2. PICK n \in DOMAIN tail : tail[n].kind = "submit" /\ tail[n].key = k
        BY <3>1 DEF InputInv, JournalInv, ViewInv
      <3>3. tail # <<>>
        BY <3>2
      <3>4. PICK e \in Leases : Writes(e)
        BY <3>3 DEF InputInv, LedgerInv, TailInv
      <3>5. native.sub[k].run = RunAt(e)
        BY <3>2, <3>4 DEF InputInv, LedgerInv, TailInv
      <3> QED BY <3>1, <3>4, <3>5 DEF Writes, Issued, RunAt, Fresh
    <2> QED BY <2>2, <2>3, <2>4, RequestGoes
  <1>2. ASSUME NEW i \in Attempts, NEW e \in Leases, Working(e)', Refers(i, e)'
        PROVE  Fresh(i, e)'
    <2>1. CASE Continues(i)
      <3>1. Refers(i, e) /\ attempt'[i].key = attempt[i].key
        BY <1>2, <2>1 DEF Continues
      <3>2. Issued(e) /\ attempt[i].key \in Keys
        BY <3>1, RequestOf DEF CommandRowInv, AttemptRowInv
      <3>3. Working(e) /\ RunAt(e)' = RunAt(e)
        BY <1>2, <3>2, GrowsStep DEF Grows, Working
      <3>4. native.sub[attempt[i].key].run \in {0, RunAt(e)}
        BY <3>1, <3>3 DEF HeardInv, Fresh
      <3>5. native'.sub[attempt[i].key].run \in {0, RunAt(e)}
        BY <3>2, <3>3, <3>4, PlacedByWriter, WorkingWrites
      <3> QED BY <3>1, <3>3, <3>5 DEF Fresh
    <2>2. CASE Admit(i)
      <3>1. /\ attempt[i].step = "reading" /\ run[Receiving].state = "running"
            /\ run[Receiving].lease # 0 /\ attempt'[i].lease = run[Receiving].lease
            /\ attempt'[i].step = "admitted" /\ attempt'[i].key = attempt[i].key
            /\ UNCHANGED <<exec, calls, leases, native>>
        BY <2>2, RequestOf DEF Admit, Accepts, AttemptRow, rows, journal
      <3>2. PICK d \in Leases : d = run[Receiving].lease /\ Writes(d)
        BY <3>1, ReceivingMeans, RowOf DEF RunRowInv
      <3>3. Working(e) /\ RunAt(e)' = RunAt(e)
        BY <1>2, <3>1 DEF Working, RunAt
      <3>4. d = e
        BY <3>2, <3>3, WorkingWrites
      <3>5. native.sub[attempt[i].key].run \in {0, RunAt(e)}
        <4>1. ASSUME native.sub[attempt[i].key].run # 0 PROVE \E f \in Leases : Writes(f) /\ Fresh(i, f)
          BY <3>1, <4>1 DEF HeardInv
        <4> QED BY <3>3, <4>1, WorkingWrites DEF Fresh
      <3> QED BY <3>1, <3>3, <3>5 DEF Fresh
    <2>3. ASSUME NEW k \in Keys, Begin(i, k) PROVE Fresh(i, e)'
      <3>1. /\ UNCHANGED <<exec, calls, leases, native>> /\ attempt'[i].key = k
            /\ attempt'[i].step \in {"done", "reading"} /\ attempt[i].step = "new"
            /\ attempt[i].again => attempt[i].key = k
        BY <2>3, BeginMeans
      <3>2. Refers(i, e) /\ Working(e) /\ RunAt(e)' = RunAt(e)
        BY <1>2, <3>1 DEF Refers, Reaches, Working, RunAt
      <3>3. attempt[i].key = k
        BY <3>1, <3>2, RequestOf DEF CommandRowInv
      <3> QED BY <3>1, <3>2, <3>3 DEF HeardInv, Fresh
    <2> QED BY <2>1, <2>2, <2>3, RequestGoes
  <1> QED BY <1>1, <1>2 DEF HeardInv

\* Records other than that of an arrival leave the arrivals as they are.
LEMMA OnlyMeta ==
  ASSUME InputInv, NEW c \in Record, c.kind # "meta", Committed(c)
  PROVE  native'.meta = native.meta
  <1>1. native \in State /\ native' = Applied(native, c)
    BY DEF InputInv, Typed, Committed
  <1>2. native'.meta = native.meta \cup {}
    BY <1>1, AppliedMeans
  <1> QED BY <1>2

\* A message is recorded where a request for it arrives.
LEMMA MetaFrom ==
  ASSUME InputInv, [Next]_vars
  PROVE  native'.meta = native.meta \/ \E e \in Leases, i \in Attempts : StartInput(e, i)
  <1>1. CASE UNCHANGED native
    BY <1>1
  <1>2. ASSUME NEW e \in Leases, Open(e) \/ Abort(e) \/ Seal(e) \/ \E k \in Keys : Consume(e, k)
        PROVE  native'.meta = native.meta
    <2>1. UNCHANGED journal \/ Committed([kind |-> "abort"]) \/ Committed([kind |-> "seal", lease |-> e])
            \/ \E k \in Keys : Committed([kind |-> "consume", key |-> k])
      BY <1>2 DEF Open, Abort, Seal, Consume
    <2> QED BY <2>1, OnlyMeta, SomeRecord DEF journal
  <1>3. ASSUME NEW e \in Leases, Finish(e) PROVE native'.meta = native.meta
    <2>1. \E o \in {"completed", "cancelled"} : Committed([kind |-> "finish", lease |-> e, outcome |-> o])
      BY <1>3 DEF Finish
    <2> QED BY <2>1, OnlyMeta, SomeRecord
  <1>4. ASSUME NEW e \in Leases, Submit(e) PROVE native'.meta = native.meta
    <2>1. CASE UNCHANGED native
      BY <2>1
    <2>2. CASE ~UNCHANGED native
      <3>1. Committed([kind |-> "submit", run |-> RunAt(e), key |-> attempt[exec[e].line].key])
        BY <1>4, <2>2 DEF Submit
      <3>2. RunAt(e) \in Runs /\ attempt[exec[e].line].key \in Keys
        BY <1>4, LineKnown, Rows DEF Submit, LineFree, InputInv
      <3>3. [kind |-> "submit", run |-> RunAt(e), key |-> attempt[exec[e].line].key] \in Record
        BY <3>2 DEF Record
      <3> QED BY <3>1, <3>3, OnlyMeta
    <2> QED BY <2>1, <2>2
  <1>5. ASSUME NEW e \in Leases, NEW o \in Ops, Mutate(e, o) PROVE native'.meta = native.meta
    <2>1. CASE UNCHANGED native
      BY <2>1
    <2>2. CASE ~UNCHANGED native
      <3> DEFINE c == [kind |-> op[o].kind, run |-> RunAt(e), key |-> op[o].key, op |-> o]
      <3>1. Committed(c) /\ calls[o][e] > 0
        BY <1>5, <2>2 DEF Mutate
      <3>2. op[o].kind \in {"edit", "withdraw"} /\ op[o].key \in Keys
        BY <3>1 DEF InputInv, Typed, TypeOK, CommandInv, OpInv
      <3>3. RunAt(e) \in Runs
        BY <1>5, ServingAlive, Rows DEF Mutate, InputInv
      <3>4. c \in Record /\ c.kind # "meta"
        BY <3>2, <3>3 DEF Record
      <3> HIDE DEF c
      <3> QED BY <3>1, <3>4, OnlyMeta
    <2> QED BY <2>1, <2>2
  <1>6. CASE Next /\ ~UNCHANGED native
    <2>1. ASSUME NEW i \in Attempts, Admission(i) PROVE UNCHANGED native
      BY <2>1 DEF Admission, Begin, AcceptInitial, Admit, Refuse, Send, Receive, Timeout, journal
    <2>2. ASSUME Changes PROVE UNCHANGED native
      BY <2>2 DEF Changes, Change, SendChange, CancelInitial, journal
    <2>3. ASSUME NEW e \in Leases, Line(e)
          PROVE  native'.meta = native.meta \/ \E i \in Attempts : StartInput(e, i)
      <3>1. PrepareFails(e) => UNCHANGED native
        BY DEF PrepareFails
      <3>2. ASSUME NEW c \in Attempts \cup Ops, NoTarget(c, e) PROVE UNCHANGED native
        BY <3>2 DEF NoTarget
      <3> QED BY <1>4, <1>5, <2>3, <3>1, <3>2 DEF Line
    <2>4. ASSUME NEW e \in Leases, Runner(e) PROVE native'.meta = native.meta
      <3>1. WorkDone(e) \/ SeeIdle(e) \/ End(e) => UNCHANGED native
        BY DEF WorkDone, SeeIdle, End, journal
      <3> QED BY <1>2, <1>3, <2>4, <3>1 DEF Runner
    <2>5. ASSUME Lifecycle PROVE native'.meta = native.meta
      <3>1. ASSUME NEW r \in Runs, AcceptStop(r) \/ RefuseStop(r) \/ \E e \in Leases : Claim(r, e)
            PROVE  UNCHANGED native
        BY <3>1 DEF AcceptStop, RefuseStop, Claim, RowsOnly, journal
      <3>2. ASSUME NEW e \in Leases, StopArrives(e) \/ Crash(e) \/ GiveUp(e) \/ Fail(e)
            PROVE  UNCHANGED native
        BY <3>2 DEF StopArrives, Crash, GiveUp, Fail, RowsOnly, journal
      <3>3. Project => UNCHANGED native
        BY DEF Project
      <3> QED BY <1>2, <2>5, <3>1, <3>2, <3>3 DEF Lifecycle
    <2>6. ASSUME Upkeep PROVE UNCHANGED native
      BY <2>6 DEF Upkeep, ReadBatch, Acknowledge, ReconcilePin, Reap, RowsOnly, journal
    <2> QED BY <1>6, <2>1, <2>2, <2>3, <2>4, <2>5, <2>6 DEF Next
  <1>7. UNCHANGED vars => UNCHANGED native
    BY DEF vars, journal
  <1> QED BY <1>1, <1>6, <1>7

\* A message is recorded for no Run after the one that placed it.
LEMMA MetaStep ==
  ASSUME InputInv, OrderedInv, HeardInv, MetaInv, [Next]_vars
  PROVE  MetaInv'
  <1>1. ASSUME NEW r \in Runs, NEW k \in Keys, NEW e \in Leases, RunAt(e) = r
        PROVE  RunAt(e)' = r
    <2>1. Issued(e)
      BY <1>1 DEF Issued, RunAt, Runs
    <2> QED BY <1>1, <2>1, GrowsStep DEF Grows
  <1>2. ASSUME NEW r \in Runs, NEW k \in Keys, <<r, k>> \in native.meta
        PROVE  /\ \E e \in Leases : RunAt(e)' = r
               /\ native'.sub[k].run # 0 => r <= native'.sub[k].run
    <2>1. PICK e \in Leases : RunAt(e) = r
      BY <1>2 DEF MetaInv
    <2>2. RunAt(e)' = r
      BY <1>1, <2>1
    <2>3. CASE native'.sub[k].run = native.sub[k].run
      BY <1>2, <2>2, <2>3 DEF MetaInv
    <2>4. CASE native'.sub[k].run # native.sub[k].run
      <3>1. PICK d \in Leases : Writes(d) /\ native'.sub[k].run = RunAt(d)
        BY <2>4, PlacedByWriter
      <3>2. Issued(e) /\ e \in Nat /\ d \in Nat /\ r \in Nat
        BY <2>1 DEF Issued, RunAt, Runs, Leases
      <3>3. ~(d < e)
        BY <3>1, <3>2 DEF OrderedInv, Writes
      <3>4. e < d => r <= RunAt(d)
        BY <2>1, <3>1 DEF OrderedInv, Writes
      <3>5. e = d => r <= RunAt(d)
        BY <2>1, <3>2
      <3> QED BY <2>2, <3>1, <3>2, <3>3, <3>4, <3>5
    <2> QED BY <2>3, <2>4
  <1>3. ASSUME NEW r \in Runs, NEW k \in Keys, <<r, k>> \in native'.meta \ native.meta
        PROVE  /\ \E e \in Leases : RunAt(e)' = r
               /\ native'.sub[k].run # 0 => r <= native'.sub[k].run
    <2>1. PICK e \in Leases, i \in Attempts : StartInput(e, i)
      BY <1>3, MetaFrom
    <2> DEFINE c == [kind |-> "meta", run |-> RunAt(e), key |-> attempt[i].key]
    <2>2. /\ Committed(c) /\ Accepting(e) /\ calls[i][e] > 0 /\ Serving(e)
      BY <1>3, <2>1 DEF StartInput
    <2>3. RunAt(e) \in Runs /\ Working(e) /\ Refers(i, e) /\ attempt[i].key \in Keys
      <3>1. Issued(e) /\ Working(e) /\ Refers(i, e)
        BY <2>2, ServingAlive DEF Working, Accepting, Refers, Reaches
      <3>2. attempt[i].key \in Keys
        BY <3>1, RequestOf DEF CommandRowInv, AttemptRowInv
      <3> QED BY <3>1, <3>2, Rows DEF InputInv
    <2>4. c \in Record /\ c.kind = "meta" /\ c.run = RunAt(e) /\ c.key = attempt[i].key
      BY <2>3 DEF Record
    <2> HIDE DEF c
    <2>5. r = RunAt(e) /\ k = attempt[i].key
      <3>1. native \in State /\ native' = Applied(native, c)
        BY <2>2 DEF InputInv, Typed, Committed
      <3>2. <<r, k>> = <<c.run, c.key>>
        BY <1>3, <2>4, <3>1, AppliedMeans
      <3> QED BY <2>4, <3>2
    <2>6. native'.sub[k].run \in {0, r}
      <3>1. native'.sub[k].run = native.sub[k].run
        BY <2>1, StartInputActs
      <3> QED BY <2>3, <2>5, <3>1 DEF HeardInv, Fresh
    <2>7. RunAt(e)' = r
      BY <1>1, <2>5
    <2> QED BY <2>6, <2>7 DEF Runs
  <1> QED BY <1>2, <1>3 DEF MetaInv

\* A step that leaves the log alone, one that appends, or one that projects.
LEMMA JournalMoves ==
  ASSUME InputInv, [Next]_vars
  PROVE  \/ UNCHANGED <<view, tail>>
         \/ \E e \in Leases, c \in Record : Issued(e) /\ Committed(c) /\ Content(e, c)
         \/ \E e \in Leases, r \in Runs, c \in Record : Projects(e, r, c)
  <1>1. ASSUME NEW e \in Leases, Acts(e)
        PROVE  \/ UNCHANGED <<view, tail>>
               \/ \E c \in Record : Issued(e) /\ Committed(c) /\ Content(e, c)
    <2>1. Issued(e) /\ (UNCHANGED journal \/ \E c \in Record : Committed(c) /\ Content(e, c))
      BY <1>1 DEF Acts
    <2> QED BY <2>1 DEF journal
  <1>2. ASSUME NEW r \in Runs, RowMoves(r) PROVE UNCHANGED <<view, tail>>
    BY <1>2 DEF RowMoves, journal
  <1>3. ASSUME NEW r \in Runs, NEW e \in Leases, Claim(r, e) PROVE UNCHANGED <<view, tail>>
    BY <1>3 DEF Claim, journal
  <1>4. Rests => UNCHANGED <<view, tail>>
    BY DEF Rests, journal
  <1> QED BY <1>1, <1>2, <1>3, <1>4, StepKinds DEF Kinds

\* What is projected was recorded, and what is given back was projected.
LEMMA SeenStep ==
  ASSUME InputInv, SeenInv, [Next]_vars
  PROVE  SeenInv'
  <1>1. native.meta \subseteq native'.meta /\ view.meta \subseteq view'.meta
    BY GrowsStep DEF Grows
  <1>2. returned' \subseteq view'.meta
    <2>1. ASSUME NEW r \in Runs, ReadBatch(r) PROVE returned' \subseteq view.meta
      BY <2>1 DEF ReadBatch, Batch, SeenInv
    <2> QED BY <1>1, <2>1, ReturnedFrom DEF SeenInv
  <1>3. CASE UNCHANGED <<view, tail>>
    BY <1>1, <1>2, <1>3 DEF SeenInv
  <1>4. CASE \E e \in Leases, c \in Record : Issued(e) /\ Committed(c) /\ Content(e, c)
    <2>1. PICK e \in Leases, c \in Record : Issued(e) /\ Committed(c) /\ Content(e, c)
      BY <1>4
    <2>2. /\ tail' = Append(tail, c) /\ tail \in Seq(Record) /\ UNCHANGED view
          /\ native'.meta = native.meta \cup (IF c.kind = "meta" THEN {<<c.run, c.key>>} ELSE {})
      BY <2>1, AppendGrows, AppendMeansNative
    <2>3. \A n \in DOMAIN tail' : (n \in DOMAIN tail /\ tail'[n] = tail[n]) \/ tail'[n] = c
      BY <2>2, AppendMeans
    <2> QED BY <1>1, <1>2, <2>2, <2>3 DEF SeenInv
  <1>5. CASE \E e \in Leases, r \in Runs, c \in Record : Projects(e, r, c)
    <2>1. PICK e \in Leases, r \in Runs, c \in Record : Projects(e, r, c)
      BY <1>5
    <2>2. /\ c = tail[1] /\ 1 \in DOMAIN tail /\ view' = Applied(view, c) /\ tail' = Tail(tail)
          /\ UNCHANGED native /\ view \in State /\ tail \in Seq(Record) /\ tail # <<>>
      BY <2>1 DEF Projects, InputInv, Typed
    <2>3. view'.meta = view.meta \cup (IF c.kind = "meta" THEN {<<c.run, c.key>>} ELSE {})
      BY <2>2, AppliedMeans
    <2>4. view'.meta \subseteq native'.meta
      BY <2>2, <2>3 DEF SeenInv
    <2>5. \A n \in DOMAIN tail' : n + 1 \in DOMAIN tail /\ tail'[n] = tail[n + 1]
      BY <2>2, TailMeans
    <2> QED BY <1>2, <2>2, <2>4, <2>5 DEF SeenInv
  <1> QED BY <1>3, <1>4, <1>5, JournalMoves

\* The order holds at the start.
LEMMA OrderStart ==
  Init => OrderInv
  <1> SUFFICES ASSUME Init PROVE OrderInv
    OBVIOUS
  <1>1. /\ \A e \in Leases : RunAt(e) = (IF e = 1 THEN 1 ELSE 0) /\ exec[e].line = None
        /\ native.meta = {} /\ view.meta = {} /\ tail = <<>> /\ returned = {}
        /\ \A i \in Attempts : attempt[i].step = "new" /\ i # None /\ \A e \in Leases : calls[i][e] = 0
    BY InputsAssumption DEF Init, RunAt, NoExec
  <1>2. OrderedInv
    BY <1>1 DEF OrderedInv, Issued, RunAt, Leases, Runs
  <1>3. HeardInv
    BY <1>1 DEF HeardInv, Refers, Reaches
  <1>4. MetaInv /\ SeenInv
    BY <1>1 DEF MetaInv, SeenInv
  <1> QED BY <1>2, <1>3, <1>4 DEF OrderInv

\* The order holds of every behaviour.
LEMMA OrderInvariant ==
  Spec => []OrderInv
  <1>1. InputInv /\ InputInv' /\ OrderInv /\ [Next]_vars => OrderInv'
    BY OrderedStep, HeardStep, MetaStep, SeenStep DEF OrderInv
  <1> QED BY <1>1, OrderStart, InputInvariant, PTL DEF Spec

\* What a Stop gives back is what its Run accepted and Pi never took, from the first
\* page on (readReturnedInputs), and Pi does not take it later.  Whatever else it gives
\* back is a message the Run recorded without a receipt of Pi's, and that a later Run
\* accepted when it was repeated: that one the later Run may take.
THEOREM ReturnIsExactHolds == Spec => []ReturnIsExact
  <1>1. InputInv /\ OrderInv => ReturnIsExact
    <2> SUFFICES ASSUME InputInv, OrderInv PROVE ReturnIsExact
      OBVIOUS
    <2>1. ASSUME NEW r \in Runs, NEW k \in Keys, <<r, k>> \in view.meta,
                 native.sub[k].run \notin {0, r}
          PROVE  TakenUpLater(r, k)
      <3>1. <<r, k>> \in native.meta
        BY <2>1 DEF OrderInv, SeenInv
      <3>2. <<native.sub[k].run, k>> \in native.meta
        BY <2>1 DEF InputInv, JournalInv, NativeInv
      <3>3. r <= native.sub[k].run /\ r \in Nat /\ native.sub[k].run \in Nat
        BY <2>1, <3>1 DEF OrderInv, MetaInv, InputInv, Typed, TypeOK, Runs
      <3>4. native.sub[k].run > r
        BY <2>1, <3>3
      <3> QED BY <3>1, <3>2, <3>4 DEF TakenUpLater
    <2>2. ASSUME NEW r \in Runs, Readable(r)
          PROVE  /\ Untaken(r) \subseteq Batch(r)
                 /\ \A k \in Batch(r) \ Untaken(r) : TakenUpLater(r, k)
      <3>1. Closed(r)
        BY <2>2 DEF Readable
      <3>2. \A k \in Keys : native.sub[k].run = r =>
              (k \in Batch(r) <=> native.sub[k].status \in {"queued", "aborted"})
        BY <3>1, BatchMeans
      <3>3. ASSUME NEW k \in Batch(r) \ Untaken(r) PROVE TakenUpLater(r, k)
        <4>1. k \in Keys /\ <<r, k>> \in view.meta /\ view.sub[k].status \in {"queued", "aborted"}
          BY <3>3 DEF Batch
        <4>2. native.sub[k].run # 0
          BY <4>1 DEF InputInv, JournalInv, ViewInv
        <4>3. native.sub[k].run # r
          BY <3>2, <3>3, <4>1 DEF Untaken
        <4> QED BY <2>1, <4>1, <4>2, <4>3
      <3> QED BY <3>2, <3>3 DEF Untaken
    <2>3. ASSUME NEW r \in Runs, NEW k \in Keys,
                 <<r, k>> \in returned, native.sub[k].status = "consumed"
          PROVE  TakenUpLater(r, k)
      <3>1. <<r, k>> \in view.meta
        BY <2>3 DEF OrderInv, SeenInv
      <3>2. native.sub[k].run # r
        BY <2>3 DEF InputInv, ReturnInv
      <3>3. native.sub[k].run # 0
        BY <2>3 DEF InputInv, JournalInv, NativeInv
      <3> QED BY <2>1, <3>1, <3>2, <3>3
    <2> QED BY <2>2, <2>3 DEF ReturnIsExact
  <1> QED BY <1>1, InputInvariant, OrderInvariant, PTL

\* Consumption wins a race against an edit or a withdrawal: what Pi took, and what
\* was withdrawn or aborted, is not changed (mutate).
THEOREM ChangesAreSeenHolds == Spec => ChangesAreSeen
  <1>1. InputInv /\ [Next]_vars =>
          [\A k \in Keys :
             /\ native.sub[k].status \in {"consumed", "withdrawn", "aborted"}
                  => native'.sub[k] = native.sub[k] /\ native'.edits[k] = native.edits[k]]_vars
    BY DoneStays
  <1> QED BY <1>1, InputInvariant, PTL DEF Spec, ChangesAreSeen

=============================================================================
