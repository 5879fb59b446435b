----------------------- MODULE BindingRevocation_proofs ----------------------
(***************************************************************************)
(* Revocation for any number of instances, callers, changes, requests and  *)
(* generations: a published closure is installed at the owner, a closing   *)
(* call returns behind it, and a view that saw it never goes back.         *)
(***************************************************************************)
EXTENDS BindingRevocation, SequenceTheorems, TLAPS

\* The binding is over; its row never opens again.
Over == status \in {"closed", "cancelled", "gone"}

\* A view's entries, whatever the row: the map names objects it created, only
\* the one it names may hold a row, and a closed one is not open.
SoundView(w) ==
    /\ w \in [ready : BOOLEAN, slot : Nat, bound : Nat, entries : Seq(Entry)]
    /\ Len(w.entries) <= MaxEntries
    /\ w.slot \in 0..Len(w.entries) /\ w.bound \in 0..Len(w.entries)
    /\ w.slot = 0 => Len(w.entries) < MaxEntries
    /\ \A n \in DOMAIN w.entries :
         /\ n # w.slot => w.entries[n].row.route = "absent"
         /\ w.entries[n].closed => w.entries[n].row.route # "open"
    /\ ~w.ready => w = EmptyView

\* The row and its control rows tell one history: open until it is over.
HistoryInv ==
    /\ status = "none" <=> outbox = <<>>
    /\ outbox # <<>> => (outbox[Len(outbox)].closed <=> Over)
    /\ \A v, w \in DOMAIN outbox : v <= w /\ outbox[v].closed => outbox[w].closed

\* What a read of the row found.
Witnessed(row) ==
    /\ row \in Row
    /\ row.route # "absent" =>
         /\ row.revision \in DOMAIN outbox
         /\ outbox[row.revision].closed <=> row.route = "closed"
    /\ row.route # "open" => Over

\* What an entry remembers of what was read.
Remembers(entry) ==
    /\ entry.version <= Len(outbox)
    /\ entry.closed => Over
    /\ entry.version # 0 /\ ~entry.closed => ~outbox[entry.version].closed

\* Nobody publishes a change that has not been made.
Changes ==
    /\ \A q \in requests : q.v \in DOMAIN outbox
    /\ \A n \in DOMAIN log : log[n] \in DOMAIN outbox
    /\ \A c \in Callers : caller[c].todo \subseteq DOMAIN outbox

\* Assignments belong to generations, the newest one to the holder.
AssignmentInv ==
    /\ \A i \in Instances :
         /\ assigned[i] = generation => i = holder
         /\ assigned[i] = 0 => ~view[i].ready
    /\ \A q \in requests : q.stage # "sent" =>
         /\ q.at \in Instances /\ q.gen \in 1..generation
         /\ q.gen = generation => Current(q)

\* A read that may still be applied.
LiveRead(q) == q.stage = "read" /\ Current(q)

\* Reads keep the entry they were issued for.
ReadInv ==
    /\ \A q \in requests : q.stage = "read" =>
         /\ Witnessed(q.row)
         /\ outbox[q.v].closed => q.row.route # "open"
         /\ Current(q) => q.entry # 0 /\ q.entry = view[q.at].slot
    /\ \A i \in Instances : consumer[i].stage = "read" =>
         /\ Witnessed(consumer[i].row)
         /\ consumer[i].entry # 0 /\ consumer[i].entry = view[i].slot

ViewInv ==
    \A i \in Instances :
        SoundView(view[i]) /\ \A n \in DOMAIN view[i].entries : Remembers(view[i].entries[n])

TypeInv == TypeOK /\ ViewInv /\ HistoryInv /\ Changes /\ AssignmentInv /\ ReadInv

\* A read under way that found the row open.
OpenRead(i) ==
    \/ \E q \in requests : LiveRead(q) /\ q.at = i /\ q.row.route = "open"
    \/ consumer[i].stage = "read" /\ consumer[i].row.route = "open"

\* The route is closed in this view and no read under way can open it.
Shut(i) ==
    view[i].slot # 0 =>
        LET entry == view[i].entries[view[i].slot] IN
        entry.closed \/ (entry.row.route # "open" /\ ~OpenRead(i))

OwnersShut == \A i \in Instances : Owner(i) => Shut(i)

ClosureInv ==
    /\ \A i \in Instances : SawClosure(view[i]) => Shut(i)
    /\ \A q \in requests : q.stage = "append" /\ outbox[q.v].closed /\ Current(q) => Shut(q.at)
    /\ \A q \in requests : q.stage = "acked" /\ outbox[q.v].closed => OwnersShut
    /\ \A v \in DOMAIN outbox : outbox[v].closed /\ Published(v) => OwnersShut
    /\ \A c \in Callers : caller[c].call = "close" =>
         Over /\ (caller[c].pc = "idle" => OwnersShut)

RevocationInv == TypeInv /\ ClosureInv

-----------------------------------------------------------------------------
(* The view's operators.                                                     *)

\* A sound view is one the type invariant admits.
LEMMA SoundViewType ==
    ASSUME NEW w, SoundView(w)
    PROVE  w \in View
  <1>1. w.entries \in [1..Len(w.entries) -> Entry] /\ Len(w.entries) \in 0..MaxEntries
    BY BindingAssumption DEF SoundView
  <1>2. w.slot \in 0..MaxEntries /\ w.bound \in 0..MaxEntries
    BY BindingAssumption DEF SoundView
  <1> QED BY <1>1, <1>2 DEF SoundView, View

\* Every assignment starts with a sound view.
LEMMA EmptyViewSound ==
    SoundView(EmptyView)
  BY BindingAssumption DEF SoundView, EmptyView

\* The fields of a view after both kinds of update.
LEMMA ViewUpdates ==
    ASSUME NEW w \in [ready : BOOLEAN, slot : Nat, bound : Nat, entries : Seq(Entry)],
           NEW s, NEW n
    PROVE  /\ [w EXCEPT !.entries = s, !.slot = n] =
                [ready |-> w.ready, slot |-> n, bound |-> w.bound, entries |-> s]
           /\ [w EXCEPT !.entries = s, !.bound = n] =
                [ready |-> w.ready, slot |-> w.slot, bound |-> n, entries |-> s]
  <1> DEFINE u == [ready |-> w.ready, slot |-> w.slot, bound |-> w.bound, entries |-> s]
  <1>1. [w EXCEPT !.entries = s] = u
    OBVIOUS
  <1>2. [u EXCEPT !.slot = n] = [ready |-> w.ready, slot |-> n, bound |-> w.bound, entries |-> s]
    OBVIOUS
  <1>3. [u EXCEPT !.bound = n] = [ready |-> w.ready, slot |-> w.slot, bound |-> n, entries |-> s]
    OBVIOUS
  <1> QED BY <1>1, <1>2, <1>3

\* What WithEntry makes of a view that is ready.
LEMMA WithEntryFacts ==
    ASSUME NEW w, SoundView(w), w.ready
    PROVE  /\ SoundView(WithEntry(w)) /\ WithEntry(w).ready
           /\ WithEntry(w).slot \in DOMAIN WithEntry(w).entries
           /\ WithEntry(w).slot # 0
           /\ w.slot # 0 => WithEntry(w) = w
           /\ w.slot = 0 => WithEntry(w).entries[WithEntry(w).slot] = FreshEntry
           /\ \A n \in DOMAIN WithEntry(w).entries :
                \/ n = WithEntry(w).slot
                \/ n \in DOMAIN w.entries /\ WithEntry(w).entries[n] = w.entries[n]
  <1>1. CASE w.slot # 0
    BY <1>1 DEF SoundView, WithEntry
  <1>2. CASE w.slot = 0
    <2>1. FreshEntry \in Entry
      BY BindingAssumption DEF FreshEntry, Entry, Row, Absent
    <2> DEFINE u == WithEntry(w)
    <2>2. /\ u.ready = w.ready /\ u.bound = w.bound
          /\ u.slot = Len(w.entries) + 1
          /\ u.entries = Append(w.entries, FreshEntry)
          /\ u \in [ready : BOOLEAN, slot : Nat, bound : Nat, entries : Seq(Entry)]
      <3>1. u = [w EXCEPT !.entries = Append(w.entries, FreshEntry), !.slot = Len(w.entries) + 1]
        BY <1>2 DEF WithEntry
      <3>2. u = [ready |-> w.ready, slot |-> Len(w.entries) + 1, bound |-> w.bound,
                 entries |-> Append(w.entries, FreshEntry)]
        BY <3>1, ViewUpdates DEF SoundView
      <3> QED BY <2>1, <3>2 DEF SoundView
    <2>3. /\ Len(u.entries) = Len(w.entries) + 1
          /\ \A n \in DOMAIN w.entries : n \in DOMAIN u.entries /\ u.entries[n] = w.entries[n]
          /\ u.entries[u.slot] = FreshEntry
          /\ DOMAIN u.entries = 1..(Len(w.entries) + 1) /\ DOMAIN w.entries = 1..Len(w.entries)
      BY <2>1, <2>2 DEF SoundView
    <2>4. FreshEntry.row.route = "absent" /\ ~FreshEntry.closed
      BY DEF FreshEntry, Absent
    <2>5. Len(w.entries) + 1 <= MaxEntries
      BY <1>2, BindingAssumption DEF SoundView
    <2>6. \A n \in DOMAIN u.entries : n = u.slot \/ n \in DOMAIN w.entries
      BY <2>2, <2>3 DEF SoundView
    <2>7. SoundView(u)
      <3>1. /\ u.slot \in 0..Len(u.entries) /\ u.bound \in 0..Len(u.entries)
            /\ u.slot # 0
        BY <2>2, <2>3, BindingAssumption DEF SoundView
      <3>2. \A n \in DOMAIN u.entries :
              /\ n # u.slot => u.entries[n].row.route = "absent"
              /\ u.entries[n].closed => u.entries[n].row.route # "open"
        BY <1>2, <2>2, <2>3, <2>4, <2>6 DEF SoundView
      <3> QED BY <2>2, <2>3, <2>5, <3>1, <3>2 DEF SoundView
    <2> QED BY <1>2, <2>2, <2>3, <2>6, <2>7 DEF SoundView
  <1> QED BY <1>1, <1>2

\* Merging a row gives an entry.
LEMMA MergedType ==
    ASSUME NEW e \in Entry, NEW row \in Row, NEW version \in 0..MaxVersion
    PROVE  /\ Merged(e, row, version) \in Entry
           /\ Merged(e, row, version).row = row
           /\ Merged(e, row, version).closed <=> e.closed \/ row.route # "open"
           /\ Merged(e, row, version).version = IF version > e.version THEN version ELSE e.version
  BY DEF Merged, Entry

\* What Apply does to the entry the map names, and to it alone.
LEMMA ApplyFacts ==
    ASSUME NEW w, SoundView(w), w.ready, w.slot # 0,
           NEW row \in Row, NEW version \in 0..MaxVersion
    PROVE  /\ SoundView(Apply(w, w.slot, row, version))
           /\ Apply(w, w.slot, row, version).ready
           /\ Apply(w, w.slot, row, version).slot = w.slot
           /\ w.slot \in DOMAIN w.entries
           /\ DOMAIN Apply(w, w.slot, row, version).entries = DOMAIN w.entries
           /\ \A n \in DOMAIN w.entries : n # w.slot =>
                Apply(w, w.slot, row, version).entries[n] = w.entries[n]
           /\ Apply(w, w.slot, row, version).entries[w.slot] =
                IF Superseded(w.entries[w.slot], row, version) THEN w.entries[w.slot]
                ELSE Merged(w.entries[w.slot], row, version)
  <1> DEFINE u == Apply(w, w.slot, row, version)
             e == w.entries[w.slot]
  <1>1. w.slot \in DOMAIN w.entries /\ e \in Entry
    BY DEF SoundView
  <1>2. CASE Superseded(e, row, version)
    BY <1>1, <1>2 DEF Apply
  <1>3. CASE ~Superseded(e, row, version)
    <2>1. /\ Merged(e, row, version) \in Entry
          /\ Merged(e, row, version).row = row
          /\ Merged(e, row, version).closed <=> e.closed \/ row.route # "open"
      BY <1>1, MergedType
    <2>2. /\ u.ready = w.ready /\ u.slot = w.slot
          /\ u.bound \in {w.slot, 0, w.bound}
          /\ u.entries = [w.entries EXCEPT ![w.slot] = Merged(e, row, version)]
          /\ u \in [ready : BOOLEAN, slot : Nat, bound : Nat, entries : Seq(Entry)]
      <3> DEFINE b == CASE row.route # "absent" -> w.slot
                        [] row.route = "absent" /\ e.row.route # "absent" -> 0
                        [] OTHER -> w.bound
      <3>1. u = [w EXCEPT !.entries = [w.entries EXCEPT ![w.slot] = Merged(e, row, version)],
                          !.bound = b]
        BY <1>3 DEF Apply
      <3>2. b \in {w.slot, 0, w.bound} /\ b \in Nat
        BY DEF SoundView
      <3>3. u = [ready |-> w.ready, slot |-> w.slot, bound |-> b,
                 entries |-> [w.entries EXCEPT ![w.slot] = Merged(e, row, version)]]
        <4> HIDE DEF b
        <4> QED BY <3>1, ViewUpdates DEF SoundView
      <3> HIDE DEF b
      <3> QED BY <1>1, <2>1, <3>2, <3>3 DEF SoundView
    <2>3. /\ Len(u.entries) = Len(w.entries) /\ DOMAIN u.entries = DOMAIN w.entries
          /\ \A n \in DOMAIN w.entries : n # w.slot => u.entries[n] = w.entries[n]
          /\ u.entries[w.slot] = Merged(e, row, version)
      BY <1>1, <2>1, <2>2 DEF SoundView
    <2>4. e.closed => row.route # "open"
      BY <1>3 DEF Superseded
    <2>5. \A n \in DOMAIN u.entries :
            /\ n # u.slot => u.entries[n].row.route = "absent"
            /\ u.entries[n].closed => u.entries[n].row.route # "open"
      BY <2>1, <2>2, <2>3, <2>4 DEF SoundView
    <2>6. SoundView(u)
      BY <2>2, <2>3, <2>5 DEF SoundView
    <2> QED BY <1>1, <1>3, <2>2, <2>3, <2>6
  <1> QED BY <1>2, <1>3

-----------------------------------------------------------------------------
(* The database: every step keeps the history or adds one change to it.      *)

\* A sequence with an element inserted.
LEMMA InsertAtFacts ==
    ASSUME NEW S, NEW s \in Seq(S), NEW e \in S, NEW k \in 1..(Len(s) + 1)
    PROVE  /\ InsertAt(s, k, e) \in Seq(S)
           /\ Len(InsertAt(s, k, e)) = Len(s) + 1
           /\ \A n \in 1..(Len(s) + 1) :
                InsertAt(s, k, e)[n] = IF n < k THEN s[n] ELSE IF n = k THEN e ELSE s[n - 1]
  <1> DEFINE a == SubSeq(s, 1, k - 1)
             b == SubSeq(s, k, Len(s))
  <1>1. a \in Seq(S) /\ Len(a) = k - 1 /\ \A n \in 1..(k - 1) : a[n] = s[n]
    <2>1. \A n \in 1..(k - 1) : s[n] \in S
      OBVIOUS
    <2> QED BY <2>1, SubSeqProperties, Z3
  <1>2. b \in Seq(S) /\ Len(b) = Len(s) + 1 - k /\ \A n \in 1..(Len(s) + 1 - k) : b[n] = s[k + n - 1]
    <2>1. \A n \in k..Len(s) : s[n] \in S
      OBVIOUS
    <2> QED BY <2>1, SubSeqProperties, Z3
  <1>3. <<e>> \in Seq(S) /\ Len(<<e>>) = 1 /\ <<e>>[1] = e
    OBVIOUS
  <1> HIDE DEF a, b
  <1>4. /\ a \o <<e>> \in Seq(S) /\ Len(a \o <<e>>) = k
        /\ \A n \in 1..k : (a \o <<e>>)[n] = IF n < k THEN s[n] ELSE e
    BY <1>1, <1>3, ConcatProperties
  <1>5. /\ (a \o <<e>>) \o b \in Seq(S) /\ Len((a \o <<e>>) \o b) = Len(s) + 1
        /\ \A n \in 1..(Len(s) + 1) : ((a \o <<e>>) \o b)[n] =
             IF n <= k THEN (a \o <<e>>)[n] ELSE b[n - k]
    <2> DEFINE c == a \o <<e>>
    <2>1. c \in Seq(S) /\ Len(c) = k
      BY <1>4
    <2> HIDE DEF c
    <2>2. /\ c \o b \in Seq(S) /\ Len(c \o b) = Len(s) + 1
          /\ \A n \in 1..(Len(s) + 1) : (c \o b)[n] = IF n <= k THEN c[n] ELSE b[n - k]
      BY <1>2, <2>1, ConcatProperties
    <2> QED BY <2>2 DEF c
  <1>6. \A n \in (k + 1)..(Len(s) + 1) : b[n - k] = s[n - 1]
    BY <1>2
  <1>7. InsertAt(s, k, e) = (a \o <<e>>) \o b
    BY DEF InsertAt, a, b
  <1> DEFINE c == a \o <<e>>
             t == c \o b
  <1>8. /\ t \in Seq(S) /\ Len(t) = Len(s) + 1
        /\ \A n \in 1..(Len(s) + 1) : t[n] = IF n <= k THEN c[n] ELSE b[n - k]
        /\ \A n \in 1..k : c[n] = IF n < k THEN s[n] ELSE e
    BY <1>4, <1>5
  <1> HIDE DEF c, t
  <1>9. \A n \in 1..(Len(s) + 1) : t[n] = IF n < k THEN s[n] ELSE IF n = k THEN e ELSE s[n - 1]
    BY <1>6, <1>8
  <1> QED BY <1>7, <1>8, <1>9 DEF c, t

\* Inserting a new element keeps the others, each of them once.
LEMMA InsertAtMembers ==
    ASSUME NEW S, NEW s \in Seq(S), NEW e \in S, NEW k \in 1..(Len(s) + 1)
    PROVE  /\ \A x : Contains(InsertAt(s, k, e), x) <=> x = e \/ Contains(s, x)
           /\ IsInjective(s) /\ ~Contains(s, e) => IsInjective(InsertAt(s, k, e))
  <1> DEFINE t == InsertAt(s, k, e)
  <1>1. /\ t \in Seq(S) /\ Len(t) = Len(s) + 1
        /\ \A n \in 1..(Len(s) + 1) :
             t[n] = IF n < k THEN s[n] ELSE IF n = k THEN e ELSE s[n - 1]
    BY InsertAtFacts
  <1> HIDE DEF t
  <1>2. t[k] = e /\ k \in 1..Len(t)
    BY <1>1
  <1>3. \A n \in 1..Len(s) : \E m \in 1..Len(t) : t[m] = s[n]
    <2> TAKE n \in 1..Len(s)
    <2>1. CASE n < k
      BY <1>1, <2>1
    <2>2. CASE n >= k
      <3>1. n + 1 \in 1..Len(t) /\ t[n + 1] = s[n]
        BY <1>1, <2>2
      <3> QED BY <3>1
    <2> QED BY <2>1, <2>2
  <1>4. \A m \in 1..Len(t) : t[m] = e \/ \E n \in 1..Len(s) : t[m] = s[n]
    <2> TAKE m \in 1..Len(t)
    <2>1. CASE m < k
      BY <1>1, <2>1
    <2>2. CASE m > k
      <3>1. m - 1 \in 1..Len(s) /\ t[m] = s[m - 1]
        BY <1>1, <2>2
      <3> QED BY <3>1
    <2> QED BY <1>2, <2>1, <2>2
  <1>5. \A x : Contains(t, x) <=> x = e \/ Contains(s, x)
    BY <1>2, <1>3, <1>4 DEF Contains
  <1>6. ASSUME IsInjective(s), ~Contains(s, e)
        PROVE  IsInjective(t)
    <2>1. \A a, b \in 1..Len(s) : s[a] = s[b] => a = b
      BY <1>6 DEF IsInjective
    <2>2. \A n \in 1..Len(s) : s[n] # e
      BY <1>6 DEF Contains
    <2>3. SUFFICES ASSUME NEW a \in 1..Len(t), NEW b \in 1..Len(t), t[a] = t[b]
                   PROVE  a = b
      BY <1>1 DEF IsInjective
    <2> DEFINE h(n) == IF n < k THEN n ELSE n - 1
    <2>4. \A n \in 1..Len(t) : n # k => h(n) \in 1..Len(s) /\ t[n] = s[h(n)]
      BY <1>1
    <2>5. CASE a = k \/ b = k
      BY <1>2, <2>2, <2>3, <2>4, <2>5
    <2>6. CASE a # k /\ b # k
      <3>1. h(a) = h(b)
        BY <2>1, <2>3, <2>4, <2>6
      <3> QED BY <2>6, <3>1
    <2> QED BY <2>5, <2>6
  <1> QED BY <1>5, <1>6 DEF t

\* A sequence with an element removed.
LEMMA RemoveAtMembers ==
    ASSUME NEW S, NEW s \in Seq(S), NEW k \in 1..Len(s)
    PROVE  /\ RemoveAt(s, k) \in Seq(S)
           /\ \A x : Contains(RemoveAt(s, k), x) => Contains(s, x)
           /\ \A x : Contains(s, x) /\ x # s[k] => Contains(RemoveAt(s, k), x)
           /\ IsInjective(s) => IsInjective(RemoveAt(s, k))
  <1> DEFINE a == SubSeq(s, 1, k - 1)
             b == SubSeq(s, k + 1, Len(s))
             t == RemoveAt(s, k)
             h(n) == IF n < k THEN n ELSE n + 1
  <1>1. a \in Seq(S) /\ Len(a) = k - 1 /\ \A n \in 1..(k - 1) : a[n] = s[n]
    <2>1. \A n \in 1..(k - 1) : s[n] \in S
      OBVIOUS
    <2> QED BY <2>1, SubSeqProperties, Z3
  <1>2. b \in Seq(S) /\ Len(b) = Len(s) - k /\ \A n \in 1..(Len(s) - k) : b[n] = s[k + n]
    <2>1. \A n \in (k + 1)..Len(s) : s[n] \in S
      OBVIOUS
    <2> QED BY <2>1, SubSeqProperties, Z3
  <1>3. t = a \o b
    BY DEF RemoveAt
  <1> HIDE DEF a, b, t
  <1>4. /\ t \in Seq(S) /\ Len(t) = Len(s) - 1
        /\ \A n \in 1..(Len(s) - 1) : t[n] = IF n <= k - 1 THEN a[n] ELSE b[n - (k - 1)]
    BY <1>1, <1>2, <1>3, ConcatProperties
  <1>5. \A n \in 1..Len(t) : h(n) \in 1..Len(s) /\ t[n] = s[h(n)] /\ h(n) # k
    BY <1>1, <1>2, <1>4
  <1>6. \A n \in 1..Len(s) : n # k => \E m \in 1..Len(t) : h(m) = n
    <2> SUFFICES ASSUME NEW n \in 1..Len(s), n # k
                 PROVE  \E m \in 1..Len(t) : h(m) = n
      OBVIOUS
    <2>1. CASE n < k
      BY <1>4, <2>1
    <2>2. CASE n > k
      <3>1. n - 1 \in 1..Len(t) /\ h(n - 1) = n
        BY <1>4, <2>2
      <3> QED BY <3>1
    <2> QED BY <2>1, <2>2
  <1>7. \A x : Contains(t, x) => Contains(s, x)
    BY <1>5 DEF Contains
  <1>8. \A x : Contains(s, x) /\ x # s[k] => Contains(t, x)
    BY <1>5, <1>6 DEF Contains
  <1>9. ASSUME IsInjective(s)
        PROVE  IsInjective(t)
    <2>1. \A n, m \in 1..Len(s) : s[n] = s[m] => n = m
      BY <1>9 DEF IsInjective
    <2>2. \A n, m \in 1..Len(t) : t[n] = t[m] => h(n) = h(m)
      BY <1>5, <2>1
    <2>3. \A n, m \in 1..Len(t) : h(n) = h(m) => n = m
      BY <1>4
    <2> QED BY <1>4, <2>2, <2>3 DEF IsInjective
  <1> QED BY <1>4, <1>7, <1>8, <1>9 DEF t

\* The types of the binding's tables.
DatabaseTypes ==
    /\ status \in {"none", "open", "closed", "cancelled", "gone"}
    /\ outbox \in Seq(OutboxRow) /\ Len(outbox) <= MaxVersion
    /\ unpublished \in Seq(DOMAIN outbox) /\ IsInjective(unpublished)

\* Changes stay what they were, and the binding over once it is.
Grows ==
    /\ Len(outbox) <= Len(outbox')
    /\ \A v \in DOMAIN outbox : outbox'[v].closed = outbox[v].closed
    /\ Over => Over'

\* Only a change some publication was acknowledged for becomes published.
PublishedByAnswer ==
    \A v \in DOMAIN outbox' :
        Published(v)' =>
            /\ v \in DOMAIN outbox
            /\ Published(v) \/ \E q \in requests : q.stage = "acked" /\ q.v = v

DatabaseStep == DatabaseTypes' /\ HistoryInv' /\ Grows /\ PublishedByAnswer

\* A transaction that changes the binding.
LEMMA ChangeStep ==
    ASSUME TypeInv,
           NEW new \in {"open", "closed", "cancelled", "gone"}, Change(new),
           status = "none" => new = "open",
           Over => new # "open"
    PROVE  DatabaseStep
  <1> DEFINE row == [closed |-> new # "open", claimant |-> Nobody, due |-> TRUE]
             n == Len(outbox) + 1
  <1>1. row \in OutboxRow /\ (row.closed <=> new # "open")
    BY DEF OutboxRow
  <1>2. DatabaseTypes
    BY DEF TypeInv, TypeOK, DatabaseTypes
  <1>3. /\ status' = new /\ outbox' = Append(outbox, row) /\ n <= MaxVersion
    BY <1>2, BindingAssumption DEF Change, DatabaseTypes
  <1> HIDE DEF row
  <1>4. /\ outbox' \in Seq(OutboxRow) /\ Len(outbox') = n /\ DOMAIN outbox' = 1..n
        /\ DOMAIN outbox = 1..Len(outbox) /\ n \in DOMAIN outbox' /\ n \notin DOMAIN outbox
        /\ \A v \in DOMAIN outbox : v \in DOMAIN outbox' /\ outbox'[v] = outbox[v]
        /\ outbox'[n] = row
        /\ \A v \in DOMAIN outbox' : v \in DOMAIN outbox \/ v = n
    BY <1>1, <1>2, <1>3 DEF DatabaseTypes
  <1>5. PICK k \in 1..(Len(unpublished) + 1) : unpublished' = InsertAt(unpublished, k, n)
    BY DEF Change
  <1>6. unpublished \in Seq(DOMAIN outbox') /\ ~Contains(unpublished, n)
    <2>1. \A m \in 1..Len(unpublished) : unpublished[m] \in DOMAIN outbox
      BY <1>2 DEF DatabaseTypes
    <2>2. unpublished \in Seq(DOMAIN outbox')
      <3>1. unpublished \in [1..Len(unpublished) -> DOMAIN outbox']
        BY <1>2, <1>4, <2>1 DEF DatabaseTypes
      <3>2. Len(unpublished) \in Nat
        BY <1>2 DEF DatabaseTypes
      <3> QED BY <3>1, <3>2
    <2> QED BY <1>4, <2>1, <2>2 DEF Contains
  <1>7. /\ unpublished' \in Seq(DOMAIN outbox') /\ IsInjective(unpublished')
        /\ \A x : Contains(unpublished', x) <=> x = n \/ Contains(unpublished, x)
    BY <1>2, <1>4, <1>5, <1>6, InsertAtFacts, InsertAtMembers DEF DatabaseTypes
  <1>8. DatabaseTypes'
    BY <1>3, <1>4, <1>7 DEF DatabaseTypes
  <1>9. Grows
    BY <1>2, <1>3, <1>4 DEF Grows, Over, DatabaseTypes
  <1>10. HistoryInv'
    <2>1. Over' <=> row.closed
      BY <1>1, <1>3 DEF Over
    <2>2. outbox' # <<>> /\ status' # "none"
      BY <1>3, <1>4
    <2>3. \A v \in DOMAIN outbox : outbox[v].closed => Over
      <3>1. outbox # <<>> => Len(outbox) \in DOMAIN outbox
        BY <1>2 DEF DatabaseTypes
      <3> QED BY <1>2, <3>1 DEF TypeInv, HistoryInv, DatabaseTypes
    <2>4. \A v, w \in DOMAIN outbox' : v <= w /\ outbox'[v].closed => outbox'[w].closed
      <3> SUFFICES ASSUME NEW v \in DOMAIN outbox', NEW w \in DOMAIN outbox',
                          v <= w, outbox'[v].closed
                   PROVE  outbox'[w].closed
        OBVIOUS
      <3>1. CASE w = n /\ v # n
        BY <1>1, <1>4, <2>3, <3>1
      <3>2. CASE w # n
        <4>1. v # n
          BY <1>4, <3>2
        <4> QED BY <1>4, <3>2, <4>1 DEF TypeInv, HistoryInv
      <3>3. CASE w = n /\ v = n
        BY <3>3
      <3> QED BY <3>1, <3>2, <3>3
    <2> QED BY <1>4, <2>1, <2>2, <2>4 DEF HistoryInv
  <1>11. PublishedByAnswer
    BY <1>4, <1>7 DEF PublishedByAnswer, Published
  <1> QED BY <1>8, <1>9, <1>10, <1>11 DEF DatabaseStep

\* The claim columns of an outbox row.
LEMMA OutboxUpdates ==
    ASSUME NEW o \in Seq(OutboxRow), NEW v \in DOMAIN o,
           NEW c \in Instances \cup {Nobody}, NEW d \in BOOLEAN
    PROVE  /\ [o EXCEPT ![v] = WithClaim(@, c, d)] \in Seq(OutboxRow)
           /\ Len([o EXCEPT ![v] = WithClaim(@, c, d)]) = Len(o)
           /\ \A w \in DOMAIN o : [o EXCEPT ![v] = WithClaim(@, c, d)][w].closed = o[w].closed
  <1>1. ASSUME NEW r \in OutboxRow
        PROVE  WithClaim(r, c, d) \in OutboxRow /\ WithClaim(r, c, d).closed = r.closed
    <2>1. WithClaim(r, c, d) = [closed |-> r.closed, claimant |-> c, due |-> d]
      <3>1. [r EXCEPT !.claimant = c] = [closed |-> r.closed, claimant |-> c, due |-> r.due]
        BY <1>1 DEF OutboxRow
      <3>2. WithClaim(r, c, d) = [[r EXCEPT !.claimant = c] EXCEPT !.due = d]
        BY DEF WithClaim
      <3> QED BY <3>1, <3>2
    <2> QED BY <1>1, <2>1 DEF OutboxRow
  <1>2. o[v] \in OutboxRow
    OBVIOUS
  <1>3. WithClaim(o[v], c, d) \in OutboxRow /\ WithClaim(o[v], c, d).closed = o[v].closed
    BY <1>1, <1>2, Zenon
  <1> QED BY <1>3

\* A step that makes no change of the binding.
LEMMA KeptStep ==
    ASSUME TypeInv, status' = status,
           outbox' \in Seq(OutboxRow), Len(outbox') = Len(outbox),
           \A v \in DOMAIN outbox : outbox'[v].closed = outbox[v].closed,
           unpublished' \in Seq(DOMAIN outbox), IsInjective(unpublished'),
           \A v \in DOMAIN outbox : Contains(unpublished, v) =>
               \/ Contains(unpublished', v)
               \/ \E q \in requests : q.stage = "acked" /\ q.v = v
    PROVE  DatabaseStep
  <1>1. DatabaseTypes
    BY DEF TypeInv, TypeOK, DatabaseTypes
  <1>2. DOMAIN outbox' = DOMAIN outbox /\ (outbox = <<>> <=> outbox' = <<>>)
    BY <1>1 DEF DatabaseTypes
  <1>3. DatabaseTypes'
    BY <1>1, <1>2 DEF DatabaseTypes
  <1>4. outbox # <<>> => Len(outbox) \in DOMAIN outbox
    BY <1>1 DEF DatabaseTypes
  <1>5. HistoryInv'
    BY <1>2, <1>4 DEF TypeInv, HistoryInv, Over
  <1>6. Grows
    BY <1>1 DEF Grows, Over, DatabaseTypes
  <1>7. PublishedByAnswer
    BY <1>2 DEF PublishedByAnswer, Published
  <1> QED BY <1>3, <1>5, <1>6, <1>7 DEF DatabaseStep

\* A step that leaves the tables alone.
LEMMA UntouchedStep ==
    ASSUME TypeInv, UNCHANGED database
    PROVE  DatabaseStep
  <1>1. DatabaseTypes
    BY DEF TypeInv, TypeOK, DatabaseTypes
  <1> QED BY <1>1, KeptStep DEF database, DatabaseTypes

\* A relay's claim, or its end.
LEMMA ClaimedStep ==
    ASSUME TypeInv, status' = status, unpublished' = unpublished,
           NEW v \in DOMAIN outbox, NEW c \in Instances \cup {Nobody}, NEW d \in BOOLEAN,
           outbox' = [outbox EXCEPT ![v] = WithClaim(@, c, d)]
    PROVE  DatabaseStep
  <1>1. DatabaseTypes
    BY DEF TypeInv, TypeOK, DatabaseTypes
  <1>2. /\ outbox' \in Seq(OutboxRow) /\ Len(outbox') = Len(outbox)
        /\ \A w \in DOMAIN outbox : outbox'[w].closed = outbox[w].closed
    BY <1>1, OutboxUpdates DEF DatabaseTypes
  <1> QED BY <1>1, <1>2, KeptStep DEF DatabaseTypes

\* A change is marked as published.
LEMMA PublishStep ==
    ASSUME TypeInv, status' = status,
           NEW q \in requests, q.stage = "acked", Publish(q.v)
    PROVE  DatabaseStep
  <1>1. DatabaseTypes /\ q.v \in DOMAIN outbox
    BY DEF TypeInv, TypeOK, DatabaseTypes, Changes
  <1>2. /\ outbox' \in Seq(OutboxRow) /\ Len(outbox') = Len(outbox)
        /\ \A w \in DOMAIN outbox : outbox'[w].closed = outbox[w].closed
    <2>0. PICK v \in DOMAIN outbox : v = q.v
      BY <1>1
    <2>1. \E c \in Instances \cup {Nobody}, d \in BOOLEAN :
            outbox' = [outbox EXCEPT ![v] = WithClaim(@, c, d)]
      BY <2>0 DEF Publish
    <2>2. PICK c \in Instances \cup {Nobody}, d \in BOOLEAN :
            outbox' = [outbox EXCEPT ![v] = WithClaim(@, c, d)]
      BY <2>1
    <2> QED BY <1>1, <2>2, OutboxUpdates DEF DatabaseTypes
  <1>3. /\ unpublished' \in Seq(DOMAIN outbox) /\ IsInjective(unpublished')
        /\ \A v : Contains(unpublished, v) => Contains(unpublished', v) \/ v = q.v
    <2>1. CASE Contains(unpublished, q.v)
      <3>1. PICK k \in DOMAIN unpublished :
              unpublished[k] = q.v /\ unpublished' = RemoveAt(unpublished, k)
        BY <2>1 DEF Publish
      <3>2. k \in 1..Len(unpublished)
        BY <1>1 DEF DatabaseTypes
      <3> QED BY <1>1, <3>1, <3>2, RemoveAtMembers DEF DatabaseTypes
    <2>2. CASE ~Contains(unpublished, q.v)
      BY <1>1, <2>2 DEF Publish, DatabaseTypes
    <2> QED BY <2>1, <2>2
  <1> QED BY <1>1, <1>2, <1>3, KeptStep DEF DatabaseTypes

\* A publisher takes its answer.
LEMMA SettlesStep ==
    ASSUME TypeInv, status' = status,
           NEW q \in requests, NEW receipt \in BOOLEAN, receipt => q.stage = "acked",
           Settles(q, receipt)
    PROVE  DatabaseStep
  <1>1. DatabaseTypes /\ q.v \in DOMAIN outbox
    BY DEF TypeInv, TypeOK, DatabaseTypes, Changes
  <1>2. q.by \in Publishers \cup {Nobody}
    BY DEF TypeInv, TypeOK, Request
  <1>3. ASSUME UNCHANGED <<outbox, unpublished>>
        PROVE  DatabaseStep
    BY <1>3, UntouchedStep DEF database
  <1>4. CASE q.by \in Instances
    <2>1. RelaySettles(q, receipt)
      BY <1>4, BindingAssumption DEF Settles
    <2>2. CASE ~Contains(unpublished, q.v) \/ outbox[q.v].claimant # q.by
      BY <1>3, <2>1, <2>2 DEF RelaySettles
    <2>3. CASE Contains(unpublished, q.v) /\ outbox[q.v].claimant = q.by /\ receipt
      BY <2>1, <2>3, PublishStep DEF RelaySettles
    <2>4. CASE Contains(unpublished, q.v) /\ outbox[q.v].claimant = q.by /\ ~receipt
      <3>1. outbox' = [outbox EXCEPT ![q.v] = WithClaim(@, @.claimant, TRUE)]
            /\ unpublished' = unpublished
        BY <2>1, <2>4 DEF RelaySettles
      <3>2. outbox[q.v].claimant \in Instances \cup {Nobody}
        <4>1. outbox[q.v] \in OutboxRow
          BY <1>1 DEF DatabaseTypes
        <4> QED BY <4>1 DEF OutboxRow
      <3> QED BY <1>1, <3>1, <3>2, ClaimedStep
    <2> QED BY <2>2, <2>3, <2>4
  <1>5. CASE q.by \in Callers
    <2>1. CallerSettles(q, receipt)
      BY <1>5, BindingAssumption DEF Settles
    <2>2. CASE receipt
      BY <2>1, <2>2, PublishStep DEF CallerSettles
    <2>3. CASE ~receipt
      BY <1>3, <2>1, <2>3 DEF CallerSettles
    <2> QED BY <2>2, <2>3
  <1>6. CASE q.by = Nobody
    <2>1. UNCHANGED <<outbox, unpublished, caller>>
      BY <1>6, BindingAssumption DEF Settles
    <2> QED BY <1>3, <2>1
  <1> QED BY <1>2, <1>4, <1>5, <1>6 DEF Publishers

\* Every step.
LEMMA DatabaseSteps ==
    ASSUME TypeInv, [Next]_vars
    PROVE  DatabaseStep
  <1>1. DatabaseTypes
    BY DEF TypeInv, TypeOK, DatabaseTypes
  <1>2. CASE UNCHANGED vars
    <2>1. UNCHANGED database
      BY <1>2 DEF vars
    <2> QED BY <2>1, UntouchedStep
  <1>3. CASE Transactions
    <2>1. status # "none" /\ Over => status # "open"
      BY DEF Over
    <2>2. ASSUME NEW c \in Callers, Register(c)
          PROVE  DatabaseStep
      BY <2>2, ChangeStep DEF Register, Over
    <2>3. ASSUME NEW c \in Callers, NEW cancelOutstanding \in BOOLEAN, Close(c, cancelOutstanding)
          PROVE  DatabaseStep
      <3>1. Closed(cancelOutstanding) \in {"closed", "cancelled"} /\ status # "none"
        BY <2>3 DEF Closed, Close, Exists
      <3>2. CASE status # Closed(cancelOutstanding)
        <4>1. Change(Closed(cancelOutstanding))
          BY <2>3, <3>2 DEF Close
        <4> HIDE DEF Closed
        <4> QED BY <3>1, <4>1, ChangeStep
      <3>3. CASE status = Closed(cancelOutstanding)
        BY <2>3, <3>3, UntouchedStep DEF Close
      <3> QED BY <3>2, <3>3
    <2>4. CASE Adopt
      BY <1>1, <2>4, ChangeStep DEF Adopt, Exists, Over, DatabaseTypes
    <2>5. CASE RevokeAllocation
      BY <2>5, ChangeStep DEF RevokeAllocation
    <2>6. CASE ReleaseAfterPhysicalAbsence
      BY <2>6, ChangeStep DEF ReleaseAfterPhysicalAbsence, Exists
    <2> QED BY <1>3, <2>2, <2>3, <2>4, <2>5, <2>6 DEF Transactions
  <1>4. CASE Publication
    <2>1. ASSUME NEW i \in Instances, NEW v \in Versions, Claim(i, v)
          PROVE  DatabaseStep
      <3>1. v \in DOMAIN outbox
        BY <1>1, <2>1 DEF Claim, HeadOfLine, DatabaseTypes
      <3>2. outbox' = [outbox EXCEPT ![v] = WithClaim(@, i, FALSE)]
            /\ status' = status /\ unpublished' = unpublished
        BY <2>1 DEF Claim
      <3> QED BY <3>1, <3>2, ClaimedStep
    <2>2. ASSUME NEW v \in Versions, ClaimLapses(v) \/ ClaimOvertaken(v)
          PROVE  DatabaseStep
      <3>1. Lapses(v)
        BY <2>2 DEF ClaimLapses, ClaimOvertaken
      <3>2. v \in DOMAIN outbox
        BY <1>1, <3>1 DEF Lapses, Contains, DatabaseTypes
      <3>3. outbox' = [outbox EXCEPT ![v] = WithClaim(@, @.claimant, TRUE)]
            /\ status' = status /\ unpublished' = unpublished
        BY <3>1 DEF Lapses
      <3>4. outbox[v].claimant \in Instances \cup {Nobody}
        <4>1. outbox[v] \in OutboxRow
          BY <1>1, <3>2 DEF DatabaseTypes
        <4> QED BY <4>1 DEF OutboxRow
      <3> QED BY <3>2, <3>3, <3>4, ClaimedStep
    <2>3. ASSUME NEW c \in Callers, FlushSelect(c) \/ FlushSend(c)
          PROVE  DatabaseStep
      BY <2>3, UntouchedStep DEF FlushSelect, FlushSend
    <2>4. ASSUME NEW q \in requests,
                 \/ \E i \in Instances : Accept(q, i)
                 \/ Prepare(q) \/ Rerouted(q) \/ AppendRecord(q)
          PROVE  DatabaseStep
      BY <2>4, UntouchedStep DEF Accept, Prepare, Rerouted, AppendRecord
    <2>5. ASSUME NEW q \in requests,
                 Reject(q) \/ PrepareRefused(q) \/ AppendFenced(q) \/ AppendInDoubt(q)
          PROVE  DatabaseStep
      <3>1. Settles(q, FALSE) /\ status' = status
        BY <2>5 DEF Reject, PrepareRefused, AppendFenced, AppendInDoubt, Refused
      <3> QED BY <3>1, SettlesStep
    <2>6. ASSUME NEW q \in requests, Confirmed(q)
          PROVE  DatabaseStep
      <3>1. Settles(q, TRUE) /\ status' = status /\ q.stage = "acked"
        BY <2>6 DEF Confirmed
      <3> QED BY <3>1, SettlesStep
    <2>7. ASSUME NEW q \in requests, Abandon(q)
          PROVE  DatabaseStep
      <3>1. CASE Settles(q, FALSE) /\ status' = status
        BY <3>1, SettlesStep
      <3>2. CASE UNCHANGED <<status, outbox, unpublished>>
        BY <3>2, UntouchedStep DEF database
      <3> QED BY <2>7, <3>1, <3>2 DEF Abandon
    <2> QED BY <1>4, <2>1, <2>2, <2>3, <2>4, <2>5, <2>6, <2>7 DEF Publication
  <1>5. CASE Ownership
    <2>1. UNCHANGED database
      BY <1>5 DEF Ownership, Rebalance, Revoked, Assign, Load, Evict,
                  ConsumeKnown, ConsumeRead, ConsumeApply
    <2> QED BY <2>1, UntouchedStep
  <1> QED BY <1>2, <1>3, <1>4, <1>5 DEF Next

-----------------------------------------------------------------------------
(* Reads of the row.                                                         *)

\* What a read found stays true of the history, and so does what an entry
\* remembers.
LEMMA HistoryStays ==
    ASSUME TypeInv, DatabaseStep
    PROVE  /\ \A row : Witnessed(row) => Witnessed(row)'
           /\ \A entry \in Entry : Remembers(entry) => Remembers(entry)'
           /\ \A v \in DOMAIN outbox : v \in DOMAIN outbox'
           /\ Over => Over'
  <1>1. /\ outbox \in Seq(OutboxRow) /\ outbox' \in Seq(OutboxRow)
        /\ Len(outbox) <= Len(outbox')
        /\ \A v \in DOMAIN outbox : outbox'[v].closed = outbox[v].closed
        /\ Over => Over'
    BY DEF TypeInv, TypeOK, DatabaseStep, DatabaseTypes, Grows
  <1>2. \A v \in DOMAIN outbox : v \in DOMAIN outbox'
    BY <1>1
  <1>3. ASSUME NEW row, Witnessed(row)
        PROVE  Witnessed(row)'
    BY <1>1, <1>2, <1>3 DEF Witnessed
  <1>4. ASSUME NEW entry \in Entry, Remembers(entry)
        PROVE  Remembers(entry)'
    <2>1. entry.version \in 0..Len(outbox)
      BY <1>1, <1>4 DEF Remembers, Entry
    <2>2. entry.version # 0 => entry.version \in DOMAIN outbox
      BY <1>1, <2>1
    <2> QED BY <1>1, <1>4, <2>1, <2>2 DEF Remembers
  <1> QED BY <1>1, <1>2, <1>3, <1>4

\* A closed change means that the binding is over.
LEMMA ClosedIsOver ==
    ASSUME TypeInv, NEW v \in DOMAIN outbox, outbox[v].closed
    PROVE  Over
  <1>1. outbox \in Seq(OutboxRow)
    BY DEF TypeInv, TypeOK
  <1>2. Len(outbox) \in DOMAIN outbox /\ v <= Len(outbox) /\ outbox # <<>>
    BY <1>1
  <1> QED BY <1>2 DEF TypeInv, HistoryInv

\* The row as a transaction reads it now, once the binding exists.
LEMMA CurrentRowWitnessed ==
    ASSUME TypeInv, status # "none"
    PROVE  /\ Witnessed(CurrentRow)
           /\ Over => CurrentRow.route # "open"
           /\ Exists => CurrentRow.route # "absent"
  <1>1. /\ outbox \in Seq(OutboxRow) /\ Len(outbox) \in 0..MaxVersion
        /\ status \in {"none", "open", "closed", "cancelled", "gone"}
    BY BindingAssumption DEF TypeInv, TypeOK
  <1>2. outbox # <<>> /\ Len(outbox) \in DOMAIN outbox
    BY <1>1 DEF TypeInv, HistoryInv
  <1>3. outbox[Len(outbox)].closed <=> Over
    BY <1>2 DEF TypeInv, HistoryInv
  <1>4. CASE Exists
    <2>1. CASE status = "open"
      <3>1. CurrentRow = [revision |-> Len(outbox), route |-> "open"] /\ ~Over
        BY <1>4, <2>1 DEF CurrentRow, Over
      <3> QED BY <1>1, <1>2, <1>3, <3>1 DEF Witnessed, Row
    <2>2. CASE status # "open"
      <3>1. CurrentRow = [revision |-> Len(outbox), route |-> "closed"] /\ Over
        BY <1>1, <1>4, <2>2 DEF CurrentRow, Over, Exists
      <3> QED BY <1>1, <1>2, <1>3, <3>1 DEF Witnessed, Row
    <2> QED BY <2>1, <2>2
  <1>5. CASE ~Exists
    <2>1. CurrentRow = [revision |-> 0, route |-> "absent"] /\ Over
      BY <1>5 DEF CurrentRow, Absent, Over, Exists
    <2> QED BY <1>5, <2>1, BindingAssumption DEF Witnessed, Row
  <1> QED BY <1>4, <1>5

\* The version a row is applied with.
LEMMA ReadVersionType ==
    ASSUME TypeInv, NEW row, Witnessed(row), NEW v \in DOMAIN outbox
    PROVE  /\ ReadVersion(row, v) \in DOMAIN outbox
           /\ ReadVersion(row, v) \in 0..MaxVersion
           /\ row.route # "absent" => ReadVersion(row, v) = row.revision
  <1>1. outbox \in Seq(OutboxRow) /\ Len(outbox) <= MaxVersion
    BY DEF TypeInv, TypeOK
  <1>2. ReadVersion(row, v) \in DOMAIN outbox
    BY DEF ReadVersion, Witnessed
  <1> QED BY <1>1, <1>2, BindingAssumption DEF ReadVersion

\* An entry after a row was applied remembers the history; after a closure it
\* is closed.
LEMMA MergedRemembers ==
    ASSUME TypeInv, NEW e \in Entry, Remembers(e),
           NEW row, Witnessed(row), NEW v \in DOMAIN outbox,
           row.route # "absent" => v = row.revision
    PROVE  /\ ~Superseded(e, row, v) => Remembers(Merged(e, row, v))
           /\ row.route # "open" /\ Superseded(e, row, v) => e.closed
  <1>1. /\ outbox \in Seq(OutboxRow) /\ Len(outbox) \in 0..MaxVersion
        /\ v \in 1..Len(outbox)
    BY BindingAssumption DEF TypeInv, TypeOK
  <1>2. e.version \in 0..Len(outbox) /\ row \in Row /\ v \in 0..MaxVersion
    <2>1. e.version \in 0..MaxVersion
      BY DEF Entry
    <2>2. row \in Row
      BY DEF Witnessed
    <2>3. e.version <= Len(outbox)
      BY DEF Remembers
    <2> QED BY <1>1, <2>1, <2>2, <2>3, BindingAssumption
  <1>3. /\ Merged(e, row, v).closed <=> e.closed \/ row.route # "open"
        /\ Merged(e, row, v).version = IF v > e.version THEN v ELSE e.version
    BY <1>2, MergedType
  <1>4. ASSUME ~Superseded(e, row, v)
        PROVE  Remembers(Merged(e, row, v))
    <2>1. Merged(e, row, v).closed => Over
      BY <1>3 DEF Remembers, Witnessed
    <2>2. Merged(e, row, v).version <= Len(outbox)
      BY <1>1, <1>2, <1>3
    <2>3. ASSUME ~Merged(e, row, v).closed
          PROVE  ~outbox[Merged(e, row, v).version].closed
      <3>1. row.route = "open" /\ ~(v < e.version)
        BY <1>3, <1>4, <2>3 DEF Superseded
      <3>2. Merged(e, row, v).version = v /\ v = row.revision
        BY <1>1, <1>2, <1>3, <3>1
      <3> QED BY <3>1, <3>2 DEF Witnessed
    <2> QED BY <2>1, <2>2, <2>3 DEF Remembers
  <1>5. ASSUME row.route # "open", Superseded(e, row, v)
        PROVE  e.closed
    <2>1. row.route = "closed" /\ v < e.version /\ outbox[v].closed
      BY <1>2, <1>5 DEF Superseded, Witnessed, Row
    <2>2. e.version \in DOMAIN outbox /\ e.version # 0
      BY <1>1, <1>2, <2>1
    <2>3. outbox[e.version].closed
      BY <1>1, <1>2, <2>1, <2>2 DEF TypeInv, HistoryInv
    <2> QED BY <2>2, <2>3 DEF Remembers
  <1> QED BY <1>4, <1>5

-----------------------------------------------------------------------------
(* Steps outside the owners: transactions, claims, calls, and publications   *)
(* that begin, end or are abandoned.                                         *)

\* The types of everything but the tables and the views.
RestTypes ==
    /\ requests \subseteq Request
    /\ caller \in [Callers -> Caller]
    /\ generation \in 1..MaxGeneration /\ holder \in Instances
    /\ log \in Seq(Versions) /\ delivered \in 0..Len(log)
    /\ assigned \in [Instances -> 0..generation]
    /\ pos \in [Instances -> 0..Len(log)]
    /\ consumer \in [Instances -> Consumer]
    /\ faults \in 0..MaxFaults

\* The type invariant, part by part.
LEMMA TypeParts ==
    TypeInv <=> /\ DatabaseTypes /\ HistoryInv /\ RestTypes
                /\ view \in [Instances -> View]
                /\ ViewInv /\ Changes /\ AssignmentInv /\ ReadInv
  BY DEF TypeInv, TypeOK, DatabaseTypes, RestTypes

\* A publication that begins.
LEMMA SendingType ==
    ASSUME NEW by \in Publishers \cup {Nobody}, NEW v \in Versions
    PROVE  /\ Sending(by, v) \in Request
           /\ Sending(by, v).v = v /\ Sending(by, v).stage = "sent"
  BY BindingAssumption DEF Sending, Request, Stages, Row, Absent

\* A publication nobody waits for any more.
LEMMA AbandonedType ==
    ASSUME NEW q \in Request
    PROVE  LET p == [q EXCEPT !.by = Nobody] IN
           /\ p \in Request
           /\ p.v = q.v /\ p.stage = q.stage /\ p.at = q.at /\ p.gen = q.gen
           /\ p.row = q.row /\ p.entry = q.entry
  BY DEF Request

Begins(q) == \E by \in Publishers, v \in Versions : q = Sending(by, v) /\ v \in DOMAIN outbox'

Abandons(q, p) == p.stage # "acked" /\ q = [p EXCEPT !.by = Nobody]

Outside ==
    /\ UNCHANGED <<generation, holder, delivered, owners>>
    /\ log' = log \/ \E q \in requests : log' = Append(log, q.v)
    /\ \A q \in requests' :
         q \in requests \/ Begins(q) \/ \E p \in requests : Abandons(q, p)
    /\ caller' \in [Callers -> Caller]
    /\ \A c \in Callers : caller'[c].todo \subseteq DOMAIN outbox'
    /\ faults' \in 0..MaxFaults

\* They keep the type invariant.
LEMMA OutsideStep ==
    ASSUME TypeInv, DatabaseStep, Outside
    PROVE  TypeInv'
  <1>1. /\ DatabaseTypes /\ HistoryInv /\ RestTypes /\ view \in [Instances -> View]
        /\ ViewInv /\ Changes /\ AssignmentInv /\ ReadInv
    BY TypeParts
  <1>2. /\ \A row : Witnessed(row) => Witnessed(row)'
        /\ \A entry \in Entry : Remembers(entry) => Remembers(entry)'
        /\ \A v \in DOMAIN outbox : v \in DOMAIN outbox' /\ outbox'[v].closed = outbox[v].closed
    BY HistoryStays DEF DatabaseStep, Grows
  <1>3. /\ generation' = generation /\ holder' = holder /\ delivered' = delivered
        /\ assigned' = assigned /\ view' = view /\ pos' = pos /\ consumer' = consumer
    BY DEF Outside, owners
  <1>4. ASSUME NEW q \in requests'
        PROVE  /\ q \in Request /\ q.v \in DOMAIN outbox'
               /\ \/ q.stage = "sent"
                  \/ \E p \in requests :
                       /\ p.v = q.v /\ p.stage = q.stage /\ p.at = q.at /\ p.gen = q.gen
                       /\ p.row = q.row /\ p.entry = q.entry
    <2>1. CASE q \in requests
      BY <1>1, <1>2, <2>1 DEF RestTypes, Changes
    <2>2. CASE Begins(q)
      BY <2>2, SendingType DEF Begins
    <2>3. ASSUME NEW p \in requests, Abandons(q, p)
          PROVE  /\ q \in Request
                 /\ p.v = q.v /\ p.stage = q.stage /\ p.at = q.at /\ p.gen = q.gen
                 /\ p.row = q.row /\ p.entry = q.entry
      BY <1>1, <2>3, AbandonedType DEF Abandons, RestTypes
    <2> QED BY <1>1, <1>2, <2>1, <2>2, <2>3 DEF Outside, Changes
  <1>5. /\ log' \in Seq(Versions) /\ Len(log) <= Len(log')
        /\ \A n \in DOMAIN log' : log'[n] \in DOMAIN outbox'
    <2>1. CASE log' = log
      BY <1>1, <1>2, <2>1 DEF RestTypes, Changes
    <2>2. ASSUME NEW q \in requests, log' = Append(log, q.v)
          PROVE  /\ log' \in Seq(Versions) /\ Len(log) <= Len(log')
                 /\ \A n \in DOMAIN log' : log'[n] \in DOMAIN outbox'
      <3>1. q.v \in Versions /\ q.v \in DOMAIN outbox' /\ log \in Seq(Versions)
        BY <1>1, <1>2 DEF RestTypes, Changes, Request
      <3>2. \A n \in DOMAIN log : log[n] \in DOMAIN outbox'
        BY <1>1, <1>2 DEF Changes
      <3> QED BY <2>2, <3>1, <3>2
    <2> QED BY <2>1, <2>2 DEF Outside
  <1>6. RestTypes'
    <2>1. requests' \subseteq Request
      BY <1>4
    <2>2. delivered \in 0..Len(log') /\ pos \in [Instances -> 0..Len(log')]
      BY <1>1, <1>5 DEF RestTypes
    <2> QED BY <1>1, <1>3, <1>5, <2>1, <2>2 DEF RestTypes, Outside
  <1>7. Changes'
    BY <1>4, <1>5 DEF Changes, Outside
  <1>8. ViewInv'
    <2>1. ASSUME NEW i \in Instances
          PROVE  \A n \in DOMAIN view[i].entries : view[i].entries[n] \in Entry
      BY <1>1 DEF ViewInv, SoundView
    <2>2. \A w : SoundView(w)' <=> SoundView(w)
      BY DEF SoundView
    <2> QED BY <1>1, <1>2, <1>3, <2>1, <2>2 DEF ViewInv
  <1>9. AssignmentInv'
    BY <1>1, <1>3, <1>4 DEF AssignmentInv, Current
  <1>10. ReadInv'
    <2>1. ASSUME NEW q \in requests', q.stage = "read"
          PROVE  /\ Witnessed(q.row)'
                 /\ outbox'[q.v].closed => q.row.route # "open"
                 /\ Current(q)' => q.entry # 0 /\ q.entry = view'[q.at].slot
      <3>1. PICK p \in requests :
              /\ p.v = q.v /\ p.stage = q.stage /\ p.at = q.at /\ p.gen = q.gen
              /\ p.row = q.row /\ p.entry = q.entry
        BY <1>4, <2>1
      <3>2. p.v \in DOMAIN outbox
        BY <1>1 DEF Changes
      <3> QED BY <1>1, <1>2, <1>3, <2>1, <3>1, <3>2 DEF ReadInv, Current
    <2>2. ASSUME NEW i \in Instances, consumer'[i].stage = "read"
          PROVE  /\ Witnessed(consumer[i].row)'
                 /\ consumer'[i].entry # 0 /\ consumer'[i].entry = view'[i].slot
      <3>1. PICK row : row = consumer[i].row
        OBVIOUS
      <3>2. Witnessed(row) /\ consumer[i].entry # 0 /\ consumer[i].entry = view[i].slot
        BY <1>1, <1>3, <2>2, <3>1 DEF ReadInv
      <3>3. Witnessed(row)'
        BY <1>2, <3>2
      <3>4. Witnessed(consumer[i].row)'
        BY <1>3, <3>1, <3>3 DEF Witnessed
      <3> QED BY <1>3, <3>2, <3>4
    <2> QED BY <2>1, <2>2 DEF ReadInv
  <1>11. TypeOK'
    BY <1>1, <1>3, <1>6 DEF DatabaseStep, TypeOK, DatabaseTypes, RestTypes
  <1> QED BY <1>6, <1>7, <1>8, <1>9, <1>10, <1>11 DEF DatabaseStep, TypeInv

\* A call that goes on.
LEMMA CallerUpdates ==
    ASSUME NEW r \in Caller, NEW pc \in {"idle", "select", "publish"}, NEW todo \in SUBSET Versions
    PROVE  [r EXCEPT !.pc = pc, !.todo = todo] = [call |-> r.call, pc |-> pc, todo |-> todo]
  <1>1. [r EXCEPT !.pc = pc] = [call |-> r.call, pc |-> pc, todo |-> r.todo]
    BY DEF Caller
  <1>2. [[call |-> r.call, pc |-> pc, todo |-> r.todo] EXCEPT !.todo = todo] =
          [call |-> r.call, pc |-> pc, todo |-> todo]
    OBVIOUS
  <1> QED BY <1>1, <1>2

\* The calls after a step that touches one of them.
LEMMA CallerStep ==
    ASSUME TypeInv, DatabaseStep, NEW c \in Callers, NEW r \in Caller,
           r.todo \subseteq DOMAIN outbox, caller' = [caller EXCEPT ![c] = r]
    PROVE  /\ caller' \in [Callers -> Caller]
           /\ \A d \in Callers : caller'[d].todo \subseteq DOMAIN outbox'
  <1>1. /\ caller \in [Callers -> Caller]
        /\ \A d \in Callers : caller[d].todo \subseteq DOMAIN outbox
        /\ \A v \in DOMAIN outbox : v \in DOMAIN outbox'
    BY HistoryStays DEF TypeInv, TypeOK, Changes
  <1> QED BY <1>1

\* A call that starts, and one that is over.
LEMMA CallTypes ==
    /\ \A call \in {"register", "close"} :
         Calling(call) = [call |-> call, pc |-> "select", todo |-> {}]
    /\ \A call \in {"register", "close"} : Calling(call) \in Caller
    /\ Idle \in Caller /\ Idle.todo = {} /\ Idle.call = "none"
  <1>1. ASSUME NEW call \in {"register", "close"}
        PROVE  Calling(call) = [call |-> call, pc |-> "select", todo |-> {}]
    <2>1. [Idle EXCEPT !.call = call] = [call |-> call, pc |-> "idle", todo |-> {}]
      BY DEF Idle
    <2>2. [[call |-> call, pc |-> "idle", todo |-> {}] EXCEPT !.pc = "select"] =
            [call |-> call, pc |-> "select", todo |-> {}]
      OBVIOUS
    <2> QED BY <2>1, <2>2 DEF Calling
  <1> QED BY <1>1 DEF Idle, Caller

\* What its answer does to a call.
LEMMA SettlesCaller ==
    ASSUME TypeInv, DatabaseStep, NEW q \in requests, NEW receipt \in BOOLEAN,
           Settles(q, receipt)
    PROVE  /\ caller' \in [Callers -> Caller]
           /\ \A c \in Callers : caller'[c].todo \subseteq DOMAIN outbox'
           /\ \A c \in Callers :
                \/ caller'[c] = caller[c]
                \/ caller'[c] = Idle
                \/ caller'[c].pc \in {"select", "publish"} /\ caller'[c].call = caller[c].call
  <1>1. /\ caller \in [Callers -> Caller] /\ q.by \in Publishers \cup {Nobody}
        /\ \A d \in Callers : caller[d].todo \subseteq DOMAIN outbox
        /\ \A v \in DOMAIN outbox : v \in DOMAIN outbox'
    BY HistoryStays DEF TypeInv, TypeOK, Changes, Request
  <1>2. CASE caller' = caller
    BY <1>1, <1>2
  <1>3. CASE q.by \in Callers
    <2>1. CallerSettles(q, receipt)
      BY <1>3, BindingAssumption DEF Settles
    <2>2. PICK c \in Callers : c = q.by
      BY <1>3
    <2> DEFINE left == caller[c].todo \ {q.v}
               pc == IF left = {} THEN "select" ELSE "publish"
               r == [call |-> caller[c].call, pc |-> pc, todo |-> left]
    <2>3. caller[c] \in Caller /\ left \in SUBSET Versions /\ pc \in {"select", "publish"}
      BY <1>1 DEF Caller
    <2>4. r \in Caller /\ r.todo \subseteq DOMAIN outbox
      BY <1>1, <2>3 DEF Caller
    <2>5. CASE receipt
      <3>1. caller' = [caller EXCEPT ![c] = [@ EXCEPT !.pc = pc, !.todo = left]]
        BY <2>1, <2>2, <2>5 DEF CallerSettles
      <3>2. [caller[c] EXCEPT !.pc = pc, !.todo = left] = r
        <4> HIDE DEF pc, left
        <4> QED BY <2>3, CallerUpdates
      <3>3. caller' = [caller EXCEPT ![c] = r]
        <4> HIDE DEF r
        <4> QED BY <3>1, <3>2
      <3>4. r.pc = pc /\ r.call = caller[c].call
        OBVIOUS
      <3>5. \A d \in Callers : d # c => caller'[d] = caller[d]
        BY <1>1, <3>3
      <3>6. caller'[c] = r
        BY <1>1, <3>3
      <3> HIDE DEF r, pc, left
      <3> QED BY <2>3, <2>4, <3>3, <3>4, <3>5, <3>6, CallerStep
    <2>6. CASE ~receipt
      <3>1. caller' = [caller EXCEPT ![c] = Idle]
        BY <2>1, <2>2, <2>6 DEF CallerSettles
      <3> QED BY <1>1, <3>1, CallTypes, CallerStep
    <2> QED BY <2>5, <2>6
  <1>4. CASE q.by \in Instances
    BY <1>2, <1>4, BindingAssumption DEF Settles, RelaySettles
  <1>5. CASE q.by = Nobody
    BY <1>2, <1>5, BindingAssumption DEF Settles
  <1> QED BY <1>1, <1>3, <1>4, <1>5 DEF Publishers

OutsideAction ==
    \/ Transactions
    \/ \E i \in Instances, v \in Versions : Claim(i, v)
    \/ \E v \in Versions : ClaimLapses(v) \/ ClaimOvertaken(v)
    \/ \E c \in Callers : FlushSelect(c) \/ FlushSend(c)
    \/ \E q \in requests :
         \/ Reject(q) \/ PrepareRefused(q) \/ Rerouted(q) \/ AppendFenced(q)
         \/ AppendInDoubt(q) \/ Confirmed(q) \/ Abandon(q)

\* A publication ends, or goes on as one that begins or is abandoned.
LEMMA RequestsOutside ==
    ASSUME NEW q \in requests,
           \/ requests' = requests \ {q}
           \/ \E p : (Begins(p) \/ Abandons(p, q)) /\ Advance(q, p)
    PROVE  \A p \in requests' : p \in requests \/ Begins(p) \/ \E r \in requests : Abandons(p, r)
  BY DEF Advance

\* All of these steps are such.
LEMMA OutsideActions ==
    ASSUME TypeInv, DatabaseStep, OutsideAction
    PROVE  Outside
  <1>1. /\ caller \in [Callers -> Caller] /\ requests \subseteq Request
        /\ faults \in 0..MaxFaults
        /\ \A d \in Callers : caller[d].todo \subseteq DOMAIN outbox
        /\ \A v \in DOMAIN outbox : v \in DOMAIN outbox' /\ v \in Versions
        /\ \A q \in requests : q.v \in DOMAIN outbox
    <2>1. \A v \in DOMAIN outbox : v \in DOMAIN outbox'
      BY HistoryStays
    <2>2. DOMAIN outbox = 1..Len(outbox) /\ Len(outbox) \in Nat /\ Len(outbox) <= MaxVersion
      BY DEF TypeInv, TypeOK
    <2>3. \A v \in DOMAIN outbox : v \in Versions
      BY <2>2, BindingAssumption DEF Versions
    <2> QED BY <2>1, <2>3 DEF TypeInv, TypeOK, Changes
  <1>2. ASSUME UNCHANGED <<generation, holder, delivered, owners, log>>,
               requests' = requests, faults' \in 0..MaxFaults,
               \/ caller' = caller
               \/ \E c \in Callers : \E call \in {"register", "close"} :
                    caller' = [caller EXCEPT ![c] = Calling(call)]
        PROVE  Outside
    <2>1. /\ caller' \in [Callers -> Caller]
          /\ \A c \in Callers : caller'[c].todo \subseteq DOMAIN outbox'
      <3>1. CASE caller' = caller
        BY <1>1, <3>1
      <3>2. ASSUME NEW c \in Callers, NEW call \in {"register", "close"},
                   caller' = [caller EXCEPT ![c] = Calling(call)]
            PROVE  <2>1
        <4>1. Calling(call) \in Caller /\ Calling(call).todo \subseteq DOMAIN outbox
          BY CallTypes
        <4> QED BY <3>2, <4>1, CallerStep
      <3> QED BY <1>2, <3>1, <3>2
    <2> QED BY <1>2, <2>1 DEF Outside
  <1>3. CASE Transactions
    <2>1. ASSUME NEW c \in Callers, Register(c)
          PROVE  Outside
      BY <1>1, <1>2, <2>1 DEF Register, broker
    <2>2. ASSUME NEW c \in Callers, NEW cancelOutstanding \in BOOLEAN, Close(c, cancelOutstanding)
          PROVE  Outside
      BY <1>1, <1>2, <2>2 DEF Close, broker
    <2>3. CASE Adopt \/ RevokeAllocation \/ ReleaseAfterPhysicalAbsence
      BY <1>1, <1>2, <2>3 DEF Adopt, RevokeAllocation, ReleaseAfterPhysicalAbsence, broker, delivery
    <2> QED BY <1>3, <2>1, <2>2, <2>3 DEF Transactions
  <1>4. ASSUME NEW i \in Instances, NEW v \in Versions, Claim(i, v)
        PROVE  Outside
    <2>1. v \in DOMAIN outbox
      BY <1>4 DEF Claim, HeadOfLine, TypeInv, TypeOK
    <2>2. \A q \in requests' : q \in requests \/ Begins(q)
      BY <1>1, <1>4, <2>1 DEF Claim, Begins, Publishers
    <2>3. caller' = caller /\ faults' = faults /\ UNCHANGED <<broker, owners>>
      BY <1>4 DEF Claim
    <2> QED BY <1>1, <2>2, <2>3 DEF Outside, broker
  <1>5. ASSUME NEW v \in Versions, ClaimLapses(v) \/ ClaimOvertaken(v)
        PROVE  Outside
    <2>1. UNCHANGED <<broker, owners, delivery>>
      BY <1>5 DEF ClaimLapses, ClaimOvertaken, Lapses
    <2>2. faults' \in 0..MaxFaults
      BY <1>1, <1>5, BindingAssumption DEF ClaimLapses, ClaimOvertaken, Fault
    <2> QED BY <1>2, <2>1, <2>2 DEF broker, delivery
  <1>6. ASSUME NEW c \in Callers, FlushSelect(c)
        PROVE  Outside
    <2> DEFINE pc == IF Pending = {} THEN "idle" ELSE "publish"
               r == [call |-> caller[c].call, pc |-> pc, todo |-> Pending]
    <2>1. Pending \subseteq DOMAIN outbox /\ Pending \in SUBSET Versions
      BY <1>1 DEF Pending, ToSet, TypeInv, TypeOK
    <2>2. r \in Caller /\ r.todo \subseteq DOMAIN outbox
      BY <1>1, <2>1 DEF Caller
    <2>3. caller' = [caller EXCEPT ![c] = r]
      <3>1. caller' = [caller EXCEPT ![c] = [@ EXCEPT !.pc = pc, !.todo = Pending]]
        BY <1>6 DEF FlushSelect
      <3>2. pc \in {"idle", "select", "publish"} /\ caller[c] \in Caller
        BY <1>1
      <3>3. [caller[c] EXCEPT !.pc = pc, !.todo = Pending] = r
        <4> HIDE DEF pc
        <4> QED BY <2>1, <3>2, CallerUpdates
      <3> HIDE DEF r
      <3> QED BY <3>1, <3>3
    <2> HIDE DEF r
    <2>4. /\ caller' \in [Callers -> Caller]
          /\ \A d \in Callers : caller'[d].todo \subseteq DOMAIN outbox'
      BY <2>2, <2>3, CallerStep
    <2>5. requests' = requests /\ faults' = faults /\ UNCHANGED <<broker, owners>>
      BY <1>6 DEF FlushSelect
    <2> QED BY <1>1, <2>4, <2>5 DEF Outside, broker
  <1>7. ASSUME NEW c \in Callers, FlushSend(c)
        PROVE  Outside
    <2>1. \A q \in requests' : q \in requests \/ Begins(q)
      BY <1>1, <1>7 DEF FlushSend, Begins, Publishers
    <2>2. caller' = caller /\ faults' = faults /\ UNCHANGED <<broker, owners>>
      BY <1>7 DEF FlushSend
    <2> QED BY <1>1, <2>1, <2>2 DEF Outside, broker
  <1>8. ASSUME NEW q \in requests
        PROVE  /\ Reject(q) => Outside
               /\ PrepareRefused(q) => Outside
               /\ AppendFenced(q) => Outside
               /\ AppendInDoubt(q) => Outside
               /\ Confirmed(q) => Outside
    <2>1. ASSUME NEW receipt \in BOOLEAN, Settles(q, receipt), requests' = requests \ {q},
                 UNCHANGED <<generation, holder, delivered, owners>>, faults' \in 0..MaxFaults,
                 log' = log \/ log' = Append(log, q.v)
          PROVE  Outside
      BY <2>1, RequestsOutside, SettlesCaller DEF Outside
    <2>2. TRUE \in BOOLEAN /\ FALSE \in BOOLEAN
      OBVIOUS
    <2>3. faults' = faults \/ Fault => faults' \in 0..MaxFaults
      BY <1>1, BindingAssumption DEF Fault
    <2> QED BY <2>1, <2>2, <2>3 DEF Reject, PrepareRefused, AppendFenced, AppendInDoubt, Confirmed,
                                    Refused, broker
  <1>9. ASSUME NEW q \in requests, Rerouted(q)
        PROVE  Outside
    <2>1. Begins(Sending(q.by, q.v))
      BY <1>1, <1>9 DEF Rerouted, Begins, Request
    <2>2. Advance(q, Sending(q.by, q.v)) /\ UNCHANGED <<caller, broker, owners, faults>>
      BY <1>9 DEF Rerouted
    <2> QED BY <1>1, <2>1, <2>2, RequestsOutside DEF Outside, broker
  <1>10. ASSUME NEW q \in requests, Abandon(q)
         PROVE  Outside
    <2>1. Advance(q, [q EXCEPT !.by = Nobody]) /\ q.stage # "acked" /\ UNCHANGED <<broker, owners>>
      BY <1>10 DEF Abandon
    <2>2. Abandons([q EXCEPT !.by = Nobody], q)
      BY <2>1 DEF Abandons
    <2>3. faults' \in 0..MaxFaults
      BY <1>1, <1>10, BindingAssumption DEF Abandon, Fault
    <2>4. /\ caller' \in [Callers -> Caller]
          /\ \A d \in Callers : caller'[d].todo \subseteq DOMAIN outbox'
      <3>1. CASE Settles(q, FALSE)
        BY <3>1, SettlesCaller
      <3>2. CASE caller' = caller
        BY <1>1, <3>2
      <3> QED BY <1>10, <3>1, <3>2 DEF Abandon
    <2> QED BY <2>1, <2>2, <2>3, <2>4, RequestsOutside DEF Outside, broker
  <1> QED BY <1>3, <1>4, <1>5, <1>6, <1>7, <1>8, <1>9, <1>10 DEF OutsideAction

-----------------------------------------------------------------------------
(* Views of the owners.                                                      *)

\* What the invariant asks of a view.
GoodView(w) == SoundView(w) /\ \A n \in DOMAIN w.entries : Remembers(w.entries[n])

\* A view before it is loaded names nothing.
LEMMA EmptyViewGood ==
    GoodView(EmptyView) /\ ~EmptyView.ready /\ EmptyView.slot = 0 /\ EmptyView.entries = <<>>
  BY EmptyViewSound DEF GoodView, EmptyView

\* A reader's entry, created if need be.
LEMMA WithEntryGood ==
    ASSUME TypeInv, NEW w, GoodView(w), w.ready
    PROVE  GoodView(WithEntry(w))
  <1>1. Remembers(FreshEntry)
    BY DEF TypeInv, TypeOK, Remembers, FreshEntry
  <1>2. \A n \in DOMAIN WithEntry(w).entries : Remembers(WithEntry(w).entries[n])
    <2> SUFFICES ASSUME NEW n \in DOMAIN WithEntry(w).entries
                 PROVE  Remembers(WithEntry(w).entries[n])
      OBVIOUS
    <2>1. \/ n \in DOMAIN w.entries /\ WithEntry(w).entries[n] = w.entries[n]
          \/ WithEntry(w).entries[n] = FreshEntry
      BY WithEntryFacts DEF GoodView
    <2> QED BY <1>1, <2>1 DEF GoodView
  <1> QED BY <1>2, WithEntryFacts DEF GoodView

\* A row applied to the entry the map names: a closure closes it.
LEMMA ApplyGood ==
    ASSUME TypeInv, NEW w, GoodView(w), w.ready, w.slot # 0,
           NEW row, Witnessed(row), NEW v \in DOMAIN outbox,
           row.route # "absent" => v = row.revision
    PROVE  /\ GoodView(Apply(w, w.slot, row, v))
           /\ row.route # "open" => Apply(w, w.slot, row, v).entries[w.slot].closed
           /\ w.entries[w.slot].closed => Apply(w, w.slot, row, v).entries[w.slot].closed
           /\ \/ Apply(w, w.slot, row, v).entries[w.slot].closed
              \/ Apply(w, w.slot, row, v).entries[w.slot].row.route = w.entries[w.slot].row.route
              \/ row.route = "open"
           /\ Apply(w, w.slot, row, v).entries[w.slot].closed =>
                w.entries[w.slot].closed \/ row.route # "open"
  <1> DEFINE e == w.entries[w.slot]
             u == Apply(w, w.slot, row, v)
  <1>1. v \in 0..MaxVersion /\ row \in Row
    BY BindingAssumption DEF TypeInv, TypeOK, Witnessed
  <1>2. /\ SoundView(u) /\ u.ready /\ u.slot = w.slot /\ w.slot \in DOMAIN w.entries
        /\ DOMAIN u.entries = DOMAIN w.entries
        /\ \A n \in DOMAIN w.entries : n # w.slot => u.entries[n] = w.entries[n]
        /\ u.entries[w.slot] = IF Superseded(e, row, v) THEN e ELSE Merged(e, row, v)
    BY <1>1, ApplyFacts DEF GoodView
  <1>3. e \in Entry /\ Remembers(e)
    BY <1>2 DEF GoodView, SoundView
  <1>4. /\ ~Superseded(e, row, v) => Remembers(Merged(e, row, v))
        /\ row.route # "open" /\ Superseded(e, row, v) => e.closed
    BY <1>3, MergedRemembers
  <1>5. Merged(e, row, v).closed <=> e.closed \/ row.route # "open"
    BY <1>1, <1>3, MergedType
  <1> HIDE DEF e, u
  <1>6. CASE Superseded(e, row, v)
    <2>1. u.entries[w.slot] = e
      BY <1>2, <1>6
    <2> QED BY <1>2, <1>3, <1>4, <1>6, <2>1 DEF GoodView, u, e
  <1>7. CASE ~Superseded(e, row, v)
    <2>1. u.entries[w.slot] = Merged(e, row, v)
      BY <1>2, <1>7
    <2>2. \A n \in DOMAIN u.entries : Remembers(u.entries[n])
      BY <1>2, <1>4, <1>7, <2>1 DEF GoodView
    <2> QED BY <1>2, <1>5, <2>1, <2>2 DEF GoodView, u, e
  <1> QED BY <1>6, <1>7

\* One view replaced by a good one.
LEMMA NewView ==
    ASSUME TypeInv, UNCHANGED database, NEW i \in Instances, NEW w, GoodView(w),
           view' = [view EXCEPT ![i] = w]
    PROVE  /\ ViewInv' /\ view' \in [Instances -> View]
           /\ view'[i] = w /\ \A k \in Instances : k # i => view'[k] = view[k]
  <1>1. view \in [Instances -> View] /\ w \in View
    BY SoundViewType DEF TypeInv, TypeOK, GoodView
  <1>2. /\ view'[i] = w /\ \A k \in Instances : k # i => view'[k] = view[k]
        /\ view' \in [Instances -> View]
    BY <1>1
  <1>3. \A k \in Instances : GoodView(view'[k])
    BY <1>2 DEF TypeInv, ViewInv, GoodView
  <1>4. ASSUME NEW k \in Instances
        PROVE  SoundView(view[k])' /\ \A n \in DOMAIN view'[k].entries : Remembers(view[k].entries[n])'
    BY <1>3 DEF GoodView, SoundView, Remembers, Over, database
  <1> QED BY <1>2, <1>4 DEF ViewInv

\* No view replaced.
LEMMA SameViews ==
    ASSUME TypeInv, UNCHANGED database, view' = view
    PROVE  ViewInv' /\ view' \in [Instances -> View]
  BY DEF TypeInv, TypeOK, ViewInv, SoundView, Remembers, Over, database

\* The other parts of a step that leaves the tables alone.
LEMMA OwnerParts ==
    ASSUME TypeInv, UNCHANGED database, RestTypes', view' \in [Instances -> View],
           ViewInv', Changes', AssignmentInv', ReadInv'
    PROVE  TypeInv'
  <1>1. DatabaseTypes' /\ HistoryInv'
    BY UntouchedStep DEF DatabaseStep
  <1> QED BY <1>1 DEF TypeInv, TypeOK, DatabaseTypes, RestTypes

\* Reads after a step that leaves the tables alone: the old ones keep what
\* they found, and every new one is the row as it is now.
LEMMA ReadsStay ==
    ASSUME TypeInv, UNCHANGED database
    PROVE  /\ \A row : Witnessed(row)' <=> Witnessed(row)
           /\ Over' <=> Over
  BY DEF Witnessed, Over, database

-----------------------------------------------------------------------------
(* Publications at an owner keep the type invariant.                         *)

\* What Prepare and the append make of a publication.
LEMMA PreparedUpdate ==
    ASSUME NEW q \in Request
    PROVE  /\ Appending(q) \in Request
           /\ Appending(q).stage = "append" /\ Appending(q).v = q.v
           /\ Appending(q).at = q.at /\ Appending(q).gen = q.gen
           /\ [q EXCEPT !.stage = "acked"] \in Request
           /\ [q EXCEPT !.stage = "acked"].stage = "acked" /\ [q EXCEPT !.stage = "acked"].v = q.v
           /\ [q EXCEPT !.stage = "acked"].at = q.at /\ [q EXCEPT !.stage = "acked"].gen = q.gen
  <1>1. [q EXCEPT !.stage = "append"] =
          [by |-> q.by, v |-> q.v, stage |-> "append", at |-> q.at, gen |-> q.gen,
           row |-> q.row, entry |-> q.entry]
    BY DEF Request
  <1>2. [[by |-> q.by, v |-> q.v, stage |-> "append", at |-> q.at, gen |-> q.gen,
          row |-> q.row, entry |-> q.entry] EXCEPT !.row = Absent] =
          [by |-> q.by, v |-> q.v, stage |-> "append", at |-> q.at, gen |-> q.gen,
           row |-> Absent, entry |-> q.entry]
    OBVIOUS
  <1>3. [[by |-> q.by, v |-> q.v, stage |-> "append", at |-> q.at, gen |-> q.gen,
          row |-> Absent, entry |-> q.entry] EXCEPT !.entry = 0] =
          [by |-> q.by, v |-> q.v, stage |-> "append", at |-> q.at, gen |-> q.gen,
           row |-> Absent, entry |-> 0]
    OBVIOUS
  <1>4. Appending(q) =
          [by |-> q.by, v |-> q.v, stage |-> "append", at |-> q.at, gen |-> q.gen,
           row |-> Absent, entry |-> 0]
    BY <1>1, <1>2, <1>3 DEF Appending
  <1>5. [q EXCEPT !.stage = "acked"] =
          [by |-> q.by, v |-> q.v, stage |-> "acked", at |-> q.at, gen |-> q.gen,
           row |-> q.row, entry |-> q.entry]
    BY DEF Request
  <1>6. [by |-> q.by, v |-> q.v, stage |-> "append", at |-> q.at, gen |-> q.gen,
         row |-> Absent, entry |-> 0] \in Request
    BY BindingAssumption DEF Request, Stages, Row, Absent
  <1>7. [by |-> q.by, v |-> q.v, stage |-> "acked", at |-> q.at, gen |-> q.gen,
         row |-> q.row, entry |-> q.entry] \in Request
    BY DEF Request, Stages
  <1> QED BY <1>4, <1>5, <1>6, <1>7

\* Accepting a change: its read holds the entry the map names.
LEMMA AcceptStep ==
    ASSUME TypeInv, NEW q \in requests, NEW i \in Instances, Accept(q, i)
    PROVE  /\ TypeInv'
           /\ view' = [view EXCEPT ![i] = WithEntry(@)]
           /\ \A p \in requests' : p \in requests \/ p = AtOwner(q, i, view'[i].slot)
           /\ status # "none"
  <1> DEFINE w == WithEntry(view[i])
             a == AtOwner(q, i, w.slot)
  <1>1. /\ DatabaseTypes /\ HistoryInv /\ RestTypes /\ view \in [Instances -> View]
        /\ ViewInv /\ Changes /\ AssignmentInv /\ ReadInv
    BY TypeParts
  <1>2. /\ UNCHANGED <<database, caller, broker, assigned, pos, consumer, faults>>
        /\ view' = [view EXCEPT ![i] = WithEntry(@)]
        /\ q.stage = "sent" /\ assigned[i] # 0 /\ view[i].ready
    BY DEF Accept, Accepting
  <1>3. GoodView(view[i]) /\ GoodView(w)
    BY <1>1, <1>2, WithEntryGood DEF ViewInv, GoodView
  <1>4. /\ w.slot \in 1..MaxEntries /\ w.slot # 0 /\ w.ready
        /\ view[i].slot # 0 => w = view[i]
    <2>1. w.slot \in DOMAIN w.entries /\ w.entries \in Seq(Entry) /\ Len(w.entries) <= MaxEntries
      BY <1>2, <1>3, WithEntryFacts DEF GoodView, SoundView
    <2> QED BY <1>2, <1>3, <2>1, WithEntryFacts, BindingAssumption DEF GoodView
  <1> HIDE DEF w
  <1>5. /\ ViewInv' /\ view' \in [Instances -> View]
        /\ view'[i] = w /\ \A k \in Instances : k # i => view'[k] = view[k]
    BY <1>2, <1>3, NewView DEF w
  <1>6. status # "none" /\ q.v \in DOMAIN outbox
    <2>1. q.v \in DOMAIN outbox /\ outbox # <<>>
      BY <1>1 DEF Changes
    <2> QED BY <1>1, <2>1 DEF HistoryInv
  <1>7. /\ Witnessed(CurrentRow) /\ CurrentRow \in Row
        /\ outbox[q.v].closed => CurrentRow.route # "open"
    BY <1>6, CurrentRowWitnessed, ClosedIsOver DEF Witnessed
  <1>8. requests' = (requests \ {q}) \cup {a}
    BY <1>5 DEF Accept, Advance
  <1>9. /\ a.v = q.v /\ a.stage = "read" /\ a.at = i /\ a.gen = assigned[i]
        /\ a.row = CurrentRow /\ a.entry = w.slot
        /\ a \in Request
    <2>1. /\ q.by \in Publishers \cup {Nobody} /\ q.v \in Versions
          /\ assigned[i] \in 0..MaxGeneration
      BY <1>1, BindingAssumption DEF RestTypes, Request
    <2> QED BY <1>4, <1>7, <2>1, BindingAssumption DEF AtOwner, Request, Stages
  <1> HIDE DEF a
  <1>10. RestTypes'
    BY <1>1, <1>2, <1>8, <1>9 DEF RestTypes, broker
  <1>11. Changes'
    BY <1>1, <1>2, <1>6, <1>8, <1>9 DEF Changes, broker, database
  <1>12. AssignmentInv'
    <2>1. \A k \in Instances : (assigned'[k] = generation' => k = holder')
                               /\ (assigned'[k] = 0 => ~view'[k].ready)
      BY <1>1, <1>2, <1>5 DEF AssignmentInv, broker
    <2>2. a.gen \in 1..generation
      BY <1>1, <1>2, <1>9 DEF RestTypes
    <2> QED BY <1>1, <1>2, <1>8, <1>9, <2>1, <2>2 DEF AssignmentInv, Current, broker
  <1>13. ReadInv'
    <2>1. ASSUME NEW p \in requests', p.stage = "read"
          PROVE  /\ Witnessed(p.row)'
                 /\ outbox'[p.v].closed => p.row.route # "open"
                 /\ Current(p)' => p.entry # 0 /\ p.entry = view'[p.at].slot
      <3>1. CASE p = a
        BY <1>2, <1>4, <1>5, <1>7, <1>9, <3>1, ReadsStay DEF database
      <3>2. CASE p \in requests
        <4>1. p.at \in Instances /\ Witnessed(p.row)
              /\ (outbox[p.v].closed => p.row.route # "open")
              /\ (Current(p) => p.entry # 0 /\ p.entry = view[p.at].slot)
          BY <1>1, <2>1, <3>2 DEF ReadInv, AssignmentInv
        <4>2. Current(p)' => Current(p) /\ view'[p.at].slot = view[p.at].slot
          BY <1>2, <1>4, <1>5, <4>1 DEF Current
        <4> QED BY <1>2, <4>1, <4>2, ReadsStay DEF database
      <3> QED BY <1>8, <3>1, <3>2
    <2>2. ASSUME NEW k \in Instances, consumer'[k].stage = "read"
          PROVE  /\ Witnessed(consumer[k].row)'
                 /\ consumer'[k].entry # 0 /\ consumer'[k].entry = view'[k].slot
      <3>1. PICK row : row = consumer[k].row
        OBVIOUS
      <3>2. Witnessed(row) /\ consumer[k].entry # 0 /\ consumer[k].entry = view[k].slot
        BY <1>1, <1>2, <2>2, <3>1 DEF ReadInv
      <3>3. Witnessed(consumer[k].row)'
        BY <1>2, <3>1, <3>2 DEF Witnessed, Over, database
      <3> QED BY <1>2, <1>4, <1>5, <3>2, <3>3
    <2> QED BY <2>1, <2>2 DEF ReadInv
  <1> QED BY <1>2, <1>5, <1>6, <1>8, <1>10, <1>11, <1>12, <1>13, OwnerParts DEF a, w

\* What the invariant keeps of the reads under way while tables, assignments
\* and the entries the maps name stay, and no read begins.
LEMMA ReadsKept ==
    ASSUME TypeInv, UNCHANGED database,
           \A k \in Instances : assigned'[k] = assigned[k] /\ view'[k].slot = view[k].slot,
           \A p \in requests' : p \in requests \/ p.stage # "read",
           \A k \in Instances : consumer'[k] = consumer[k] \/ consumer'[k].stage # "read"
    PROVE  ReadInv'
  <1>1. AssignmentInv /\ ReadInv
    BY DEF TypeInv
  <1>2. ASSUME NEW p \in requests', p.stage = "read"
        PROVE  /\ Witnessed(p.row)'
               /\ outbox'[p.v].closed => p.row.route # "open"
               /\ Current(p)' => p.entry # 0 /\ p.entry = view'[p.at].slot
    <2>1. /\ p \in requests /\ p.at \in Instances
          /\ Witnessed(p.row)
          /\ (outbox[p.v].closed => p.row.route # "open")
          /\ (Current(p) => p.entry # 0 /\ p.entry = view[p.at].slot)
      BY <1>1, <1>2 DEF ReadInv, AssignmentInv
    <2>2. Current(p)' => Current(p)
      BY <2>1 DEF Current
    <2> QED BY <2>1, <2>2, ReadsStay DEF database
  <1>3. ASSUME NEW k \in Instances, consumer'[k].stage = "read"
        PROVE  /\ Witnessed(consumer[k].row)'
               /\ consumer'[k].entry # 0 /\ consumer'[k].entry = view'[k].slot
    <2>1. PICK row : row = consumer[k].row
      OBVIOUS
    <2>2. /\ consumer'[k] = consumer[k]
          /\ Witnessed(row) /\ consumer[k].entry # 0 /\ consumer[k].entry = view[k].slot
      BY <1>1, <1>3, <2>1 DEF ReadInv
    <2>3. Witnessed(consumer[k].row)'
      BY <2>1, <2>2 DEF Witnessed, Over, database
    <2> QED BY <2>2, <2>3
  <1> QED BY <1>2, <1>3 DEF ReadInv

\* The view after a closure was installed before the append.
Installed(q) == Apply(view[q.at], q.entry, q.row, ReadVersion(q.row, q.v))

\* Preparing the append: a closure is in the view of the owner by then.
LEMMA PrepareStep ==
    ASSUME TypeInv, NEW q \in requests, Prepare(q)
    PROVE  /\ TypeInv' /\ q.at \in Instances
           /\ \A p \in requests' : p \in requests \/ (p = Appending(q) /\ p.stage = "append" /\ p.v = q.v /\ p.at = q.at)
           /\ \A k \in Instances : k # q.at => view'[k] = view[k]
           /\ view[q.at].slot # 0 /\ view'[q.at].slot = view[q.at].slot
           /\ \/ q.row.route = "open" /\ view'[q.at] = view[q.at]
              \/ /\ q.row.route # "open" /\ view[q.at].ready
                 /\ view'[q.at] = Installed(q)
                 /\ view'[q.at].entries[view[q.at].slot].closed
           /\ outbox[q.v].closed => q.row.route # "open"
  <1>1. /\ DatabaseTypes /\ HistoryInv /\ RestTypes /\ view \in [Instances -> View]
        /\ ViewInv /\ Changes /\ AssignmentInv /\ ReadInv
    BY TypeParts
  <1>2. PICK i \in Instances : i = q.at
    BY <1>1 DEF Prepare, AssignmentInv
  <1>3. /\ UNCHANGED <<database, caller, broker, assigned, pos, consumer, faults>>
        /\ q.stage = "read" /\ Current(q)
        /\ requests' = (requests \ {q}) \cup {Appending(q)}
        /\ view' = IF q.row.route = "open" THEN view ELSE [view EXCEPT ![q.at] = Installed(q)]
    BY DEF Prepare, Advance, Installed
  <1>4. /\ Witnessed(q.row) /\ q.entry = view[i].slot /\ view[i].slot # 0
        /\ outbox[q.v].closed => q.row.route # "open"
        /\ q.gen \in 1..generation /\ q.gen = assigned[i] /\ q.v \in DOMAIN outbox
    BY <1>1, <1>2, <1>3 DEF ReadInv, AssignmentInv, Current, Changes
  <1>5. GoodView(view[i]) /\ view[i].ready
    <2>1. GoodView(view[i])
      BY <1>1 DEF ViewInv, GoodView
    <2> QED BY <1>4, <2>1, EmptyViewGood DEF GoodView, SoundView
  <1>6. /\ ReadVersion(q.row, q.v) \in DOMAIN outbox
        /\ q.row.route # "absent" => ReadVersion(q.row, q.v) = q.row.revision
    BY <1>4, ReadVersionType
  <1> DEFINE w == Installed(q)
  <1>7. /\ GoodView(w) /\ w.slot = view[i].slot
        /\ q.row.route # "open" => w.entries[view[i].slot].closed
    <2> DEFINE v == ReadVersion(q.row, q.v)
    <2>1. w = Apply(view[i], view[i].slot, q.row, v)
      BY <1>2, <1>4 DEF Installed
    <2>2. v \in 0..MaxVersion /\ q.row \in Row
      BY <1>1, <1>4, ReadVersionType DEF Witnessed
    <2> HIDE DEF w, v
    <2>3. Apply(view[i], view[i].slot, q.row, v).slot = view[i].slot
      BY <1>4, <1>5, <2>2, ApplyFacts DEF GoodView
    <2>4. v \in DOMAIN outbox /\ (q.row.route # "absent" => v = q.row.revision)
      BY <1>6 DEF v
    <2> QED BY <1>4, <1>5, <2>1, <2>3, <2>4, ApplyGood
  <1> HIDE DEF w
  <1>8. /\ ViewInv' /\ view' \in [Instances -> View]
        /\ \A k \in Instances : k # i => view'[k] = view[k]
        /\ view'[i] = IF q.row.route = "open" THEN view[i] ELSE w
    <2>1. CASE q.row.route = "open"
      BY <1>3, <2>1, SameViews
    <2>2. CASE q.row.route # "open"
      BY <1>2, <1>3, <1>7, <2>2, NewView DEF w
    <2> QED BY <2>1, <2>2
  <1>9. /\ Appending(q) \in Request
        /\ Appending(q).stage = "append" /\ Appending(q).v = q.v
        /\ Appending(q).at = q.at /\ Appending(q).gen = q.gen
    BY <1>1, PreparedUpdate DEF RestTypes
  <1>10. RestTypes'
    BY <1>1, <1>3, <1>9 DEF RestTypes, broker
  <1>11. Changes'
    BY <1>1, <1>3, <1>4, <1>9 DEF Changes, broker, database
  <1>12. AssignmentInv'
    <2>1. \A k \in Instances : (assigned'[k] = generation' => k = holder')
                               /\ (assigned'[k] = 0 => ~view'[k].ready)
      <3>1. assigned[i] # 0
        BY <1>1, <1>4 DEF RestTypes
      <3> QED BY <1>1, <1>3, <1>8, <3>1 DEF AssignmentInv, broker
    <2> QED BY <1>1, <1>2, <1>3, <1>4, <1>9, <2>1 DEF AssignmentInv, Current, broker
  <1>13. ReadInv'
    <2>1. \A k \in Instances : assigned'[k] = assigned[k] /\ view'[k].slot = view[k].slot
      BY <1>3, <1>7, <1>8
    <2> QED BY <1>3, <1>9, <2>1, ReadsKept
  <1>14. TypeInv'
    BY <1>3, <1>8, <1>10, <1>11, <1>12, <1>13, OwnerParts
  <1> QED BY <1>2, <1>3, <1>4, <1>5, <1>7, <1>8, <1>9, <1>14 DEF w

\* The append of the current generation.
LEMMA AppendStep ==
    ASSUME TypeInv, NEW q \in requests, AppendRecord(q)
    PROVE  /\ TypeInv'
           /\ \A p \in requests' :
                p \in requests \/ (p.stage = "acked" /\ p.v = q.v /\ q.stage = "append")
           /\ q.at \in Instances /\ q.gen = generation /\ Current(q)
  <1>1. /\ DatabaseTypes /\ HistoryInv /\ RestTypes /\ view \in [Instances -> View]
        /\ ViewInv /\ Changes /\ AssignmentInv /\ ReadInv
    BY TypeParts
  <1>2. /\ UNCHANGED <<database, caller, generation, holder, delivered, owners, faults>>
        /\ q.stage = "append" /\ q.gen = generation
        /\ log' = Append(log, q.v)
        /\ requests' = (requests \ {q}) \cup {[q EXCEPT !.stage = "acked"]}
    BY DEF AppendRecord, Fenced, Advance
  <1> DEFINE a == [q EXCEPT !.stage = "acked"]
  <1>3. a \in Request /\ a.stage = "acked" /\ a.v = q.v /\ a.at = q.at /\ a.gen = q.gen
    BY <1>1, PreparedUpdate DEF RestTypes
  <1>4. q.at \in Instances /\ Current(q) /\ q.gen \in 1..generation /\ q.v \in DOMAIN outbox /\ q.v \in Versions
    BY <1>1, <1>2 DEF AssignmentInv, Changes, RestTypes, Request
  <1>5. requests' = (requests \ {q}) \cup {a}
    BY <1>2
  <1> HIDE DEF a
  <1>6. /\ log' \in Seq(Versions) /\ Len(log') = Len(log) + 1
        /\ \A n \in DOMAIN log' : log'[n] \in DOMAIN outbox
    <2>1. log \in Seq(Versions) /\ \A n \in DOMAIN log : log[n] \in DOMAIN outbox
      BY <1>1 DEF RestTypes, Changes
    <2> QED BY <1>2, <1>4, <2>1
  <1>7. RestTypes'
    <2>1. requests' \subseteq Request
      BY <1>1, <1>3, <1>5 DEF RestTypes
    <2>2. delivered \in 0..Len(log') /\ pos \in [Instances -> 0..Len(log')]
      BY <1>1, <1>6 DEF RestTypes
    <2> QED BY <1>1, <1>2, <1>6, <2>1, <2>2 DEF RestTypes, owners
  <1>8. Changes'
    BY <1>1, <1>2, <1>3, <1>4, <1>5, <1>6 DEF Changes, database
  <1>9. AssignmentInv'
    BY <1>1, <1>2, <1>3, <1>4, <1>5 DEF AssignmentInv, Current, owners
  <1>10. ReadInv'
    <2>1. \A p \in requests' : p \in requests \/ p.stage # "read"
      BY <1>3, <1>5
    <2>2. \A k \in Instances : assigned'[k] = assigned[k] /\ view'[k].slot = view[k].slot
                               /\ consumer'[k] = consumer[k]
      BY <1>2 DEF owners
    <2> QED BY <1>2, <2>1, <2>2, ReadsKept
  <1>11. ViewInv' /\ view' \in [Instances -> View]
    BY <1>2, SameViews DEF owners
  <1> QED BY <1>2, <1>3, <1>4, <1>5, <1>7, <1>8, <1>9, <1>10, <1>11, OwnerParts

-----------------------------------------------------------------------------
(* The group, the views' lives and the consumers keep the type invariant.    *)

\* A new generation, of which no member knows yet.
LEMMA RebalanceStep ==
    ASSUME TypeInv, NEW i \in Instances, Rebalance(i)
    PROVE  TypeInv' /\ view' = view /\ requests' = requests /\ \A k \in Instances : ~Owner(k)'
  <1>1. /\ DatabaseTypes /\ HistoryInv /\ RestTypes /\ view \in [Instances -> View]
        /\ ViewInv /\ Changes /\ AssignmentInv /\ ReadInv
    BY TypeParts
  <1>2. /\ UNCHANGED <<database, delivery, log, delivered, owners, faults>>
        /\ generation' = generation + 1 /\ holder' = i /\ generation < MaxGeneration
    BY DEF Rebalance
  <1>3. \A k \in Instances : assigned[k] \in 0..generation
    BY <1>1 DEF RestTypes
  <1>4. RestTypes'
    <2>1. generation' \in 1..MaxGeneration /\ generation \in Nat
      BY <1>1, <1>2, BindingAssumption DEF RestTypes
    <2>2. assigned' \in [Instances -> 0..generation']
      BY <1>1, <1>2, <2>1 DEF RestTypes, owners
    <2> QED BY <1>1, <1>2, <2>1, <2>2 DEF RestTypes, owners, delivery
  <1>5. Changes'
    BY <1>1, <1>2 DEF Changes, database, delivery
  <1>6. \A k \in Instances : assigned'[k] = assigned[k] /\ assigned[k] # generation'
    BY <1>1, <1>2, <1>3 DEF RestTypes, owners
  <1>7. AssignmentInv'
    <2>1. \A q \in requests : q.stage # "sent" =>
            q.at \in Instances /\ q.gen \in 1..generation' /\ q.gen # generation'
      BY <1>1, <1>2 DEF AssignmentInv, RestTypes
    <2> QED BY <1>1, <1>2, <1>6, <2>1 DEF AssignmentInv, delivery, owners
  <1>8. ReadInv'
    BY <1>2, ReadsKept DEF owners, delivery
  <1>9. ViewInv' /\ view' \in [Instances -> View]
    BY <1>2, SameViews DEF owners
  <1> QED BY <1>2, <1>4, <1>5, <1>6, <1>7, <1>8, <1>9, OwnerParts DEF Owner, owners, delivery

\* An assignment begins or ends: the reads of the one before are not applied.
LEMMA ForgetsStep ==
    ASSUME TypeInv, NEW i \in Instances, NEW gen \in 0..generation, NEW from \in 0..Len(log),
           UNCHANGED <<database, delivery, broker, faults>>,
           assigned[i] # generation, gen = 0 \/ (gen = generation /\ holder = i),
           Forgets(i, gen, from)
    PROVE  /\ TypeInv' /\ requests' = requests
           /\ view'[i] = EmptyView /\ \A k \in Instances : k # i => view'[k] = view[k]
  <1>1. /\ DatabaseTypes /\ HistoryInv /\ RestTypes /\ view \in [Instances -> View]
        /\ ViewInv /\ Changes /\ AssignmentInv /\ ReadInv
    BY TypeParts
  <1>2. /\ assigned' = [assigned EXCEPT ![i] = gen]
        /\ view' = [view EXCEPT ![i] = EmptyView]
        /\ pos' = [pos EXCEPT ![i] = from]
        /\ consumer' = [consumer EXCEPT ![i] = IdleConsumer]
        /\ UNCHANGED <<requests, caller, generation, holder, log, delivered, faults>>
    BY DEF Forgets, delivery, broker
  <1>3. /\ ViewInv' /\ view' \in [Instances -> View]
        /\ view'[i] = EmptyView /\ \A k \in Instances : k # i => view'[k] = view[k]
    BY <1>2, EmptyViewGood, NewView
  <1>4. /\ assigned'[i] = gen /\ \A k \in Instances : k # i => assigned'[k] = assigned[k]
        /\ consumer'[i] = IdleConsumer /\ IdleConsumer \in Consumer /\ IdleConsumer.stage = "idle"
        /\ \A k \in Instances : k # i => consumer'[k] = consumer[k]
    BY <1>1, <1>2, BindingAssumption DEF RestTypes, IdleConsumer, Consumer, Row, Absent
  <1>5. RestTypes'
    BY <1>1, <1>2, <1>4 DEF RestTypes
  <1>6. Changes'
    BY <1>1, <1>2 DEF Changes, database
  <1>7. \A q \in requests : q.stage # "sent" =>
          /\ q.at \in Instances /\ q.gen \in 1..generation
          /\ q.gen = generation => q.at # i
          /\ Current(q)' => q.at # i
    BY <1>1, <1>4 DEF AssignmentInv, Current, RestTypes
  <1>8. AssignmentInv'
    <2>1. \A k \in Instances : (assigned'[k] = generation' => k = holder')
                               /\ (assigned'[k] = 0 => ~view'[k].ready)
      <3>1. generation # 0
        BY <1>1 DEF RestTypes
      <3> QED BY <1>1, <1>2, <1>3, <1>4, <3>1, EmptyViewGood DEF AssignmentInv
    <2>2. \A q \in requests : q.stage # "sent" => (q.gen = generation => Current(q)')
      BY <1>1, <1>4, <1>7 DEF AssignmentInv, Current
    <2> QED BY <1>2, <1>7, <2>1, <2>2 DEF AssignmentInv
  <1>9. ReadInv'
    <2>1. ASSUME NEW p \in requests', p.stage = "read"
          PROVE  /\ Witnessed(p.row)'
                 /\ outbox'[p.v].closed => p.row.route # "open"
                 /\ Current(p)' => p.entry # 0 /\ p.entry = view'[p.at].slot
      <3>1. p \in requests
        BY <1>2, <2>1
      <3>2. /\ Witnessed(p.row) /\ p.at \in Instances
            /\ outbox[p.v].closed => p.row.route # "open"
            /\ Current(p) => p.entry # 0 /\ p.entry = view[p.at].slot
        BY <1>1, <2>1, <3>1 DEF ReadInv, AssignmentInv
      <3>3. Current(p)' => p.at # i /\ Current(p) /\ view'[p.at] = view[p.at]
        BY <1>3, <1>4, <1>7, <2>1, <3>1, <3>2 DEF Current
      <3> QED BY <3>2, <3>3, ReadsStay DEF database
    <2>2. ASSUME NEW k \in Instances, consumer'[k].stage = "read"
          PROVE  /\ Witnessed(consumer[k].row)'
                 /\ consumer'[k].entry # 0 /\ consumer'[k].entry = view'[k].slot
      <3>1. PICK row : row = consumer[k].row
        OBVIOUS
      <3>2. /\ k # i /\ consumer'[k] = consumer[k] /\ view'[k] = view[k]
            /\ Witnessed(row) /\ consumer[k].entry # 0 /\ consumer[k].entry = view[k].slot
        BY <1>1, <1>3, <1>4, <2>2, <3>1 DEF ReadInv
      <3>3. Witnessed(consumer[k].row)'
        BY <3>1, <3>2 DEF Witnessed, Over, database
      <3> QED BY <3>2, <3>3
    <2> QED BY <2>1, <2>2 DEF ReadInv
  <1> QED BY <1>2, <1>3, <1>5, <1>6, <1>8, <1>9, OwnerParts

\* Both.
LEMMA AssignmentStep ==
    ASSUME TypeInv, NEW i \in Instances, Revoked(i) \/ Assign(i)
    PROVE  /\ TypeInv' /\ requests' = requests
           /\ view'[i] = EmptyView /\ \A k \in Instances : k # i => view'[k] = view[k]
  <1>1. generation \in 1..MaxGeneration /\ log \in Seq(Versions) /\ delivered \in 0..Len(log)
    BY DEF TypeInv, TypeOK
  <1>2. CASE Revoked(i)
    <2>1. /\ Forgets(i, 0, 0) /\ assigned[i] # generation
          /\ UNCHANGED <<database, delivery, broker, faults>>
      BY <1>2 DEF Revoked
    <2>2. 0 \in 0..generation /\ 0 \in 0..Len(log)
      BY <1>1
    <2> QED BY <2>1, <2>2, ForgetsStep
  <1>3. CASE Assign(i)
    <2>1. /\ holder = i /\ assigned[i] # generation
          /\ UNCHANGED <<database, delivery, broker, faults>>
      BY <1>3 DEF Assign
    <2>2. PICK p \in 0..delivered : Forgets(i, generation, p)
      BY <1>3 DEF Assign
    <2>3. p \in 0..Len(log) /\ generation \in 0..generation
      BY <1>1
    <2> QED BY <2>1, <2>2, <2>3, ForgetsStep
  <1> QED BY <1>2, <1>3

\* The first row of a view.
Loaded(i) == [view[i] EXCEPT !.ready = TRUE]

\* Loading: a binding that is over is closed in the view, or not in it.
LEMMA LoadStep ==
    ASSUME TypeInv, NEW i \in Instances, Load(i)
    PROVE  /\ TypeInv' /\ requests' = requests
           /\ \A k \in Instances : k # i => view'[k] = view[k]
           /\ view'[i].slot # 0 =>
                /\ DOMAIN view'[i].entries = {view'[i].slot}
                /\ Over => view'[i].entries[view'[i].slot].closed
           /\ view'[i].slot = 0 => view'[i].entries = <<>>
           /\ view[i].slot = 0
  <1>1. /\ DatabaseTypes /\ HistoryInv /\ RestTypes /\ view \in [Instances -> View]
        /\ ViewInv /\ Changes /\ AssignmentInv /\ ReadInv
    BY TypeParts
  <1>2. /\ UNCHANGED <<database, delivery, broker, assigned, pos, consumer, faults>>
        /\ assigned[i] # 0 /\ ~view[i].ready
        /\ view' = [view EXCEPT ![i] =
             IF Exists THEN Apply(WithEntry(Loaded(i)), 1, CurrentRow, CurrentRow.revision)
             ELSE Loaded(i)]
    BY DEF Load, Loaded
  <1>3. view[i] = EmptyView
    BY <1>1, <1>2 DEF ViewInv, SoundView
  <1> DEFINE l == Loaded(i)
             u == WithEntry(l)
             w == IF Exists THEN Apply(u, 1, CurrentRow, CurrentRow.revision) ELSE l
  <1>4. l = [ready |-> TRUE, slot |-> 0, bound |-> 0, entries |-> <<>>]
    <2>1. ASSUME NEW old, NEW new, NEW none
          PROVE  [[ready |-> old, slot |-> 0, bound |-> 0, entries |-> none] EXCEPT !.ready = new] =
                   [ready |-> new, slot |-> 0, bound |-> 0, entries |-> none]
      OBVIOUS
    <2>2. l = [[ready |-> FALSE, slot |-> 0, bound |-> 0, entries |-> <<>>] EXCEPT !.ready = TRUE]
      BY <1>3, Zenon DEF Loaded, EmptyView
    <2> QED BY <2>1, <2>2, Zenon
  <1>5. GoodView(l) /\ l.ready /\ l.slot = 0 /\ l.entries = <<>>
    BY <1>4, BindingAssumption DEF GoodView, SoundView
  <1> HIDE DEF l
  <1>6. GoodView(u) /\ u.ready /\ u.slot = 1 /\ DOMAIN u.entries = {1}
    <2>1. GoodView(u) /\ u.ready
      BY <1>5, WithEntryGood, WithEntryFacts DEF GoodView
    <2>2. u.slot = 1
      <3>1. u = [l EXCEPT !.entries = Append(l.entries, FreshEntry), !.slot = Len(l.entries) + 1]
        BY <1>5 DEF WithEntry
      <3>2. [l EXCEPT !.entries = Append(l.entries, FreshEntry), !.slot = Len(l.entries) + 1].slot = 1
        <4>1. l \in [ready : BOOLEAN, slot : Nat, bound : Nat, entries : Seq(Entry)]
              /\ Len(l.entries) + 1 = 1
          BY <1>5 DEF GoodView, SoundView
        <4>2. [l EXCEPT !.entries = Append(l.entries, FreshEntry), !.slot = Len(l.entries) + 1] =
                [ready |-> l.ready, slot |-> Len(l.entries) + 1, bound |-> l.bound,
                 entries |-> Append(l.entries, FreshEntry)]
          BY <4>1, ViewUpdates, Zenon
        <4> QED BY <4>1, <4>2
      <3> QED BY <3>1, <3>2
    <2>3. \A n \in DOMAIN u.entries : n = u.slot \/ n \in DOMAIN l.entries
      BY <1>5, WithEntryFacts DEF GoodView
    <2>4. DOMAIN l.entries = {} /\ u.slot \in DOMAIN u.entries
      BY <1>5, WithEntryFacts DEF GoodView
    <2> QED BY <2>1, <2>2, <2>3, <2>4
  <1> HIDE DEF u
  <1>7. /\ GoodView(w)
        /\ w.slot # 0 => DOMAIN w.entries = {w.slot} /\ (Over => w.entries[w.slot].closed)
        /\ w.slot = 0 => w.entries = <<>>
    <2>1. CASE ~Exists
      BY <1>5, <2>1
    <2>2. CASE Exists
      <3> DEFINE v == CurrentRow.revision
      <3>1. status # "none"
        BY <2>2 DEF Exists
      <3>2. /\ Witnessed(CurrentRow) /\ CurrentRow.route # "absent"
            /\ Over => CurrentRow.route # "open"
        BY <2>2, <3>1, CurrentRowWitnessed
      <3>3. v \in DOMAIN outbox /\ v \in 0..MaxVersion /\ CurrentRow \in Row
        BY <1>1, <3>2, BindingAssumption DEF Witnessed, DatabaseTypes
      <3>4. w = Apply(u, u.slot, CurrentRow, v) /\ u.slot # 0
        BY <1>6, <2>2
      <3> HIDE DEF w
      <3>5. w.slot = u.slot /\ DOMAIN w.entries = DOMAIN u.entries
        BY <1>6, <3>3, <3>4, ApplyFacts DEF GoodView
      <3>6. GoodView(w) /\ (CurrentRow.route # "open" => w.entries[u.slot].closed)
        BY <1>6, <3>2, <3>3, <3>4, ApplyGood
      <3> QED BY <1>6, <3>2, <3>4, <3>5, <3>6
    <2> QED BY <2>1, <2>2
  <1> HIDE DEF w
  <1>8. /\ ViewInv' /\ view' \in [Instances -> View]
        /\ view'[i] = w /\ \A k \in Instances : k # i => view'[k] = view[k]
    <2>1. view' = [view EXCEPT ![i] = w]
      BY <1>2 DEF w, u, l
    <2> QED BY <1>2, <1>7, <2>1, NewView
  <1>9. RestTypes'
    BY <1>1, <1>2 DEF RestTypes, broker, delivery
  <1>10. Changes'
    BY <1>1, <1>2 DEF Changes, broker, database, delivery
  <1>11. AssignmentInv'
    BY <1>1, <1>2, <1>8 DEF AssignmentInv, Current, broker, delivery
  <1>12. view[i].slot = 0
    BY <1>3, EmptyViewGood
  <1>13. ReadInv'
    <2>1. ASSUME NEW p \in requests', p.stage = "read"
          PROVE  /\ Witnessed(p.row)'
                 /\ outbox'[p.v].closed => p.row.route # "open"
                 /\ Current(p)' => p.entry # 0 /\ p.entry = view'[p.at].slot
      <3>1. p \in requests
        BY <1>2, <2>1 DEF delivery
      <3>2. /\ Witnessed(p.row) /\ p.at \in Instances
            /\ outbox[p.v].closed => p.row.route # "open"
            /\ Current(p) => p.entry # 0 /\ p.entry = view[p.at].slot
        BY <1>1, <2>1, <3>1 DEF ReadInv, AssignmentInv
      <3>3. Current(p)' => p.at # i /\ Current(p) /\ view'[p.at] = view[p.at]
        BY <1>2, <1>8, <1>12, <3>2 DEF Current
      <3> QED BY <1>2, <3>2, <3>3, ReadsStay DEF database
    <2>2. ASSUME NEW k \in Instances, consumer'[k].stage = "read"
          PROVE  /\ Witnessed(consumer[k].row)'
                 /\ consumer'[k].entry # 0 /\ consumer'[k].entry = view'[k].slot
      <3>1. PICK row : row = consumer[k].row
        OBVIOUS
      <3>2. /\ consumer'[k] = consumer[k]
            /\ Witnessed(row) /\ consumer[k].entry # 0 /\ consumer[k].entry = view[k].slot
        BY <1>1, <1>2, <2>2, <3>1 DEF ReadInv
      <3>3. k # i /\ view'[k] = view[k]
        BY <1>8, <1>12, <3>2
      <3>4. Witnessed(consumer[k].row)'
        BY <1>2, <3>1, <3>2 DEF Witnessed, Over, database
      <3> QED BY <3>2, <3>3, <3>4
    <2> QED BY <2>1, <2>2 DEF ReadInv
  <1> QED BY <1>2, <1>7, <1>8, <1>9, <1>10, <1>11, <1>12, <1>13, OwnerParts DEF delivery

\* Forgetting an entry that holds no row and that nobody reads.
LEMMA EvictStep ==
    ASSUME TypeInv, NEW i \in Instances, Evict(i)
    PROVE  /\ TypeInv' /\ requests' = requests
           /\ view'[i].slot = 0 /\ view'[i].entries = view[i].entries
           /\ \A k \in Instances : k # i => view'[k] = view[k]
  <1>1. /\ DatabaseTypes /\ HistoryInv /\ RestTypes /\ view \in [Instances -> View]
        /\ ViewInv /\ Changes /\ AssignmentInv /\ ReadInv
    BY TypeParts
  <1>2. /\ UNCHANGED <<database, delivery, broker, assigned, pos, consumer, faults>>
        /\ view[i].ready /\ view[i].slot # 0 /\ Len(view[i].entries) < MaxEntries
        /\ view[i].entries[view[i].slot].row.route = "absent" /\ ~Reading(i, view[i].slot)
        /\ view' = [view EXCEPT ![i].slot = 0]
    BY DEF Evict, Disposable
  <1> DEFINE w == [view[i] EXCEPT !.slot = 0]
  <1>3. GoodView(view[i])
    BY <1>1 DEF ViewInv, GoodView
  <1>4. /\ w.slot = 0 /\ w.entries = view[i].entries /\ w.bound = view[i].bound
        /\ w.ready = view[i].ready
        /\ w \in [ready : BOOLEAN, slot : Nat, bound : Nat, entries : Seq(Entry)]
    BY <1>3 DEF GoodView, SoundView
  <1>5. view' = [view EXCEPT ![i] = w]
    BY <1>2
  <1> HIDE DEF w
  <1>6. GoodView(w)
    <2>1. \A n \in DOMAIN w.entries : w.entries[n].row.route = "absent"
      BY <1>2, <1>3, <1>4 DEF GoodView, SoundView
    <2>2. SoundView(w)
      BY <1>2, <1>3, <1>4, <2>1 DEF GoodView, SoundView
    <2> QED BY <1>3, <1>4, <2>2 DEF GoodView
  <1>7. /\ ViewInv' /\ view' \in [Instances -> View]
        /\ view'[i] = w /\ \A k \in Instances : k # i => view'[k] = view[k]
    BY <1>2, <1>5, <1>6, NewView
  <1>8. RestTypes'
    BY <1>1, <1>2 DEF RestTypes, broker, delivery
  <1>9. Changes'
    BY <1>1, <1>2 DEF Changes, broker, database, delivery
  <1>10. AssignmentInv'
    BY <1>1, <1>2, <1>4, <1>7 DEF AssignmentInv, Current, broker, delivery
  <1>11. ReadInv'
    <2>1. ASSUME NEW p \in requests', p.stage = "read"
          PROVE  /\ Witnessed(p.row)'
                 /\ outbox'[p.v].closed => p.row.route # "open"
                 /\ Current(p)' => p.entry # 0 /\ p.entry = view'[p.at].slot
      <3>1. p \in requests
        BY <1>2, <2>1 DEF delivery
      <3>2. /\ Witnessed(p.row) /\ p.at \in Instances
            /\ outbox[p.v].closed => p.row.route # "open"
            /\ Current(p) => p.entry # 0 /\ p.entry = view[p.at].slot
        BY <1>1, <2>1, <3>1 DEF ReadInv, AssignmentInv
      <3>3. Current(p)' => Current(p)
        BY <1>2 DEF Current
      <3>4. Current(p) => p.at # i
        BY <1>2, <2>1, <3>1, <3>2 DEF Reading
      <3> QED BY <1>2, <1>7, <3>2, <3>3, <3>4, ReadsStay DEF database
    <2>2. ASSUME NEW k \in Instances, consumer'[k].stage = "read"
          PROVE  /\ Witnessed(consumer[k].row)'
                 /\ consumer'[k].entry # 0 /\ consumer'[k].entry = view'[k].slot
      <3>1. PICK row : row = consumer[k].row
        OBVIOUS
      <3>2. /\ consumer'[k] = consumer[k]
            /\ Witnessed(row) /\ consumer[k].entry # 0 /\ consumer[k].entry = view[k].slot
        BY <1>1, <1>2, <2>2, <3>1 DEF ReadInv
      <3>3. k # i /\ view'[k] = view[k]
        BY <1>2, <1>7, <2>2, <3>2 DEF Reading
      <3>4. Witnessed(consumer[k].row)'
        BY <1>2, <3>1, <3>2 DEF Witnessed, Over, database
      <3> QED BY <3>2, <3>3, <3>4
    <2> QED BY <2>1, <2>2 DEF ReadInv
  <1> QED BY <1>2, <1>4, <1>7, <1>8, <1>9, <1>10, <1>11, OwnerParts DEF delivery

\* The positions after a record is consumed.
LEMMA ProcessedTypes ==
    ASSUME TypeInv, NEW i \in Instances, Deliverable(i), Processed(i)
    PROVE  /\ pos' \in [Instances -> 0..Len(log)] /\ delivered' \in 0..Len(log)
           /\ consumer' \in [Instances -> Consumer]
           /\ consumer' = [consumer EXCEPT ![i] = IdleConsumer]
           /\ Next1(i) \in DOMAIN outbox /\ status # "none"
  <1>1. /\ pos \in [Instances -> 0..Len(log)] /\ log \in Seq(Versions)
        /\ delivered \in 0..Len(log) /\ consumer \in [Instances -> Consumer]
        /\ \A n \in DOMAIN log : log[n] \in DOMAIN outbox
    BY DEF TypeInv, TypeOK, Changes
  <1>2. pos[i] < Len(log) /\ pos' = [pos EXCEPT ![i] = pos[i] + 1]
        /\ delivered' = (IF pos'[i] > delivered THEN pos'[i] ELSE delivered)
        /\ consumer' = [consumer EXCEPT ![i] = IdleConsumer]
    BY DEF Deliverable, Processed
  <1>3. pos[i] + 1 \in 0..Len(log) /\ pos[i] + 1 \in DOMAIN log
    BY <1>1, <1>2
  <1>4. pos'[i] = pos[i] + 1 /\ pos' \in [Instances -> 0..Len(log)]
    BY <1>1, <1>2, <1>3
  <1>5. IdleConsumer \in Consumer
    BY BindingAssumption DEF IdleConsumer, Consumer, Row, Absent
  <1>6. Next1(i) \in DOMAIN outbox
    BY <1>1, <1>3 DEF Next1
  <1>7. status # "none"
    BY <1>6 DEF TypeInv, HistoryInv
  <1> QED BY <1>1, <1>2, <1>3, <1>4, <1>5, <1>6, <1>7

\* A version the entry has is skipped.
LEMMA ConsumeKnownStep ==
    ASSUME TypeInv, NEW i \in Instances, ConsumeKnown(i)
    PROVE  TypeInv' /\ view' = view /\ requests' = requests
  <1>1. /\ DatabaseTypes /\ HistoryInv /\ RestTypes /\ view \in [Instances -> View]
        /\ ViewInv /\ Changes /\ AssignmentInv /\ ReadInv
    BY TypeParts
  <1>2. /\ UNCHANGED <<database, requests, caller, generation, holder, log, assigned, view, faults>>
        /\ Deliverable(i) /\ Processed(i)
    BY DEF ConsumeKnown, delivery
  <1>3. /\ pos' \in [Instances -> 0..Len(log)] /\ delivered' \in 0..Len(log)
        /\ consumer' \in [Instances -> Consumer]
        /\ consumer' = [consumer EXCEPT ![i] = IdleConsumer]
    BY <1>2, ProcessedTypes
  <1>4. RestTypes'
    BY <1>1, <1>2, <1>3 DEF RestTypes
  <1>5. Changes'
    BY <1>1, <1>2 DEF Changes, database
  <1>6. AssignmentInv'
    BY <1>1, <1>2 DEF AssignmentInv, Current
  <1>7. ReadInv'
    <2>1. \A k \in Instances : consumer'[k] = consumer[k] \/ consumer'[k].stage # "read"
      BY <1>1, <1>3 DEF RestTypes, IdleConsumer
    <2> QED BY <1>2, <2>1, ReadsKept
  <1>8. ViewInv' /\ view' \in [Instances -> View]
    BY <1>2, SameViews
  <1> QED BY <1>2, <1>4, <1>5, <1>6, <1>7, <1>8, OwnerParts

\* The consumer's read.
LEMMA ConsumeReadStep ==
    ASSUME TypeInv, NEW i \in Instances, ConsumeRead(i)
    PROVE  /\ TypeInv' /\ requests' = requests /\ view[i].ready
           /\ view' = [view EXCEPT ![i] = WithEntry(@)]
           /\ consumer'[i].row = CurrentRow /\ status # "none"
           /\ \A k \in Instances : k # i => consumer'[k] = consumer[k]
  <1> DEFINE w == WithEntry(view[i])
             r == [stage |-> "read", row |-> CurrentRow, entry |-> w.slot]
  <1>1. /\ DatabaseTypes /\ HistoryInv /\ RestTypes /\ view \in [Instances -> View]
        /\ ViewInv /\ Changes /\ AssignmentInv /\ ReadInv
    BY TypeParts
  <1>2. /\ UNCHANGED <<database, delivery, broker, assigned, pos, faults>>
        /\ view' = [view EXCEPT ![i] = w]
        /\ Deliverable(i) /\ view[i].ready /\ consumer[i].stage = "idle"
    BY DEF ConsumeRead, Deliverable, Owner
  <1>3. GoodView(view[i]) /\ GoodView(w)
    BY <1>1, <1>2, WithEntryGood DEF ViewInv, GoodView
  <1>4. w.slot \in 1..MaxEntries /\ w.slot # 0 /\ (view[i].slot # 0 => w = view[i])
    <2>1. w.slot \in DOMAIN w.entries /\ w.entries \in Seq(Entry) /\ Len(w.entries) <= MaxEntries
      BY <1>2, <1>3, WithEntryFacts DEF GoodView, SoundView
    <2> QED BY <1>2, <1>3, <2>1, WithEntryFacts, BindingAssumption DEF GoodView
  <1> HIDE DEF w
  <1>5. /\ ViewInv' /\ view' \in [Instances -> View]
        /\ view'[i] = w /\ \A k \in Instances : k # i => view'[k] = view[k]
    BY <1>2, <1>3, NewView
  <1>6. status # "none"
    <2>1. log \in Seq(Versions) /\ pos[i] \in 0..Len(log) /\ pos[i] < Len(log)
      BY <1>1, <1>2 DEF RestTypes, Deliverable
    <2>2. log[pos[i] + 1] \in DOMAIN outbox
      BY <1>1, <2>1 DEF Changes
    <2> QED BY <1>1, <2>2 DEF HistoryInv
  <1>7. Witnessed(CurrentRow) /\ CurrentRow \in Row
    BY <1>6, CurrentRowWitnessed DEF Witnessed
  <1>8. /\ consumer' = [consumer EXCEPT ![i] = r]
        /\ consumer'[i] = r /\ \A k \in Instances : k # i => consumer'[k] = consumer[k]
    <2>1. consumer' = [consumer EXCEPT ![i] = r]
      BY <1>5 DEF ConsumeRead
    <2> HIDE DEF r
    <2> QED BY <1>1, <2>1 DEF RestTypes
  <1>9. r \in Consumer
    BY <1>4, <1>7, BindingAssumption DEF Consumer
  <1>10. RestTypes'
    <2> HIDE DEF r
    <2> QED BY <1>1, <1>2, <1>8, <1>9 DEF RestTypes, broker, delivery
  <1>11. Changes'
    BY <1>1, <1>2 DEF Changes, broker, database, delivery
  <1>12. AssignmentInv'
    <2>1. assigned[i] # 0
      BY <1>1, <1>2 DEF AssignmentInv
    <2> QED BY <1>1, <1>2, <1>5, <2>1 DEF AssignmentInv, Current, broker, delivery
  <1>13. ReadInv'
    <2>1. ASSUME NEW p \in requests', p.stage = "read"
          PROVE  /\ Witnessed(p.row)'
                 /\ outbox'[p.v].closed => p.row.route # "open"
                 /\ Current(p)' => p.entry # 0 /\ p.entry = view'[p.at].slot
      <3>1. p \in requests
        BY <1>2, <2>1 DEF delivery
      <3>2. /\ Witnessed(p.row) /\ p.at \in Instances
            /\ outbox[p.v].closed => p.row.route # "open"
            /\ Current(p) => p.entry # 0 /\ p.entry = view[p.at].slot
        BY <1>1, <2>1, <3>1 DEF ReadInv, AssignmentInv
      <3>3. Current(p)' => Current(p)
        BY <1>2 DEF Current
      <3> QED BY <1>2, <1>4, <1>5, <3>2, <3>3, ReadsStay DEF database
    <2>2. ASSUME NEW k \in Instances, consumer'[k].stage = "read"
          PROVE  /\ Witnessed(consumer[k].row)'
                 /\ consumer'[k].entry # 0 /\ consumer'[k].entry = view'[k].slot
      <3>1. PICK row : row = consumer'[k].row
        OBVIOUS
      <3>2. Witnessed(row) /\ consumer'[k].entry # 0 /\ consumer'[k].entry = view'[k].slot
        <4>1. CASE k = i
          BY <1>4, <1>5, <1>7, <1>8, <3>1, <4>1
        <4>2. CASE k # i
          BY <1>1, <1>5, <1>8, <2>2, <3>1, <4>2 DEF ReadInv
        <4> QED BY <4>1, <4>2
      <3>3. Witnessed(consumer[k].row)'
        BY <1>2, <3>1, <3>2 DEF Witnessed, Over, database
      <3> QED BY <3>2, <3>3
    <2> QED BY <2>1, <2>2 DEF ReadInv
  <1> QED BY <1>2, <1>5, <1>6, <1>8, <1>10, <1>11, <1>12, <1>13, OwnerParts DEF delivery, w

\* The consumer applies what it read.
LEMMA ConsumeApplyStep ==
    ASSUME TypeInv, NEW i \in Instances, ConsumeApply(i)
    PROVE  /\ TypeInv' /\ requests' = requests /\ view[i].ready
           /\ view' = [view EXCEPT ![i] = Consumed(i)]
           /\ consumer[i].stage = "read" /\ view[i].slot # 0
           /\ Witnessed(consumer[i].row) /\ consumer[i].entry = view[i].slot
           /\ Next1(i) \in DOMAIN outbox
           /\ \A k \in Instances : consumer'[k] = consumer[k] \/ consumer'[k].stage # "read"
  <1>1. /\ DatabaseTypes /\ HistoryInv /\ RestTypes /\ view \in [Instances -> View]
        /\ ViewInv /\ Changes /\ AssignmentInv /\ ReadInv
    BY TypeParts
  <1>2. /\ UNCHANGED <<database, requests, caller, generation, holder, log, assigned, faults>>
        /\ Deliverable(i) /\ Processed(i) /\ view[i].ready
        /\ consumer[i].stage = "read"
        /\ view' = [view EXCEPT ![i] = Consumed(i)]
    BY DEF ConsumeApply, Deliverable, Owner, delivery
  <1>3. /\ pos' \in [Instances -> 0..Len(log)] /\ delivered' \in 0..Len(log)
        /\ consumer' \in [Instances -> Consumer]
        /\ consumer' = [consumer EXCEPT ![i] = IdleConsumer]
        /\ Next1(i) \in DOMAIN outbox
    BY <1>2, ProcessedTypes
  <1> DEFINE row == consumer[i].row
             v == ReadVersion(row, Next1(i))
             w == Consumed(i)
  <1>4. Witnessed(row) /\ consumer[i].entry = view[i].slot /\ view[i].slot # 0
    BY <1>1, <1>2 DEF ReadInv
  <1>5. /\ v \in DOMAIN outbox /\ v \in 0..MaxVersion /\ row \in Row
        /\ row.route # "absent" => v = row.revision
    BY <1>3, <1>4, ReadVersionType DEF Witnessed
  <1>6. w = Apply(view[i], view[i].slot, row, v)
    BY <1>4 DEF Consumed
  <1>7. GoodView(view[i])
    BY <1>1 DEF ViewInv, GoodView
  <1> HIDE DEF row, v, w
  <1>8. GoodView(w) /\ w.slot = view[i].slot
    <2>1. Apply(view[i], view[i].slot, row, v).slot = view[i].slot
      BY <1>2, <1>4, <1>5, <1>7, ApplyFacts DEF GoodView
    <2> QED BY <1>2, <1>4, <1>5, <1>6, <1>7, <2>1, ApplyGood
  <1>9. /\ ViewInv' /\ view' \in [Instances -> View]
        /\ view'[i] = w /\ \A k \in Instances : k # i => view'[k] = view[k]
    BY <1>2, <1>8, NewView DEF w
  <1>10. RestTypes'
    BY <1>1, <1>2, <1>3 DEF RestTypes
  <1>11. Changes'
    BY <1>1, <1>2 DEF Changes, database
  <1>12. AssignmentInv'
    <2>1. assigned[i] # 0
      BY <1>1, <1>2 DEF AssignmentInv
    <2> QED BY <1>1, <1>2, <1>9, <2>1 DEF AssignmentInv, Current
  <1>13. \A k \in Instances : consumer'[k] = consumer[k] \/ consumer'[k].stage # "read"
    BY <1>1, <1>3 DEF RestTypes, IdleConsumer
  <1>14. ReadInv'
    <2>1. \A k \in Instances : assigned'[k] = assigned[k] /\ view'[k].slot = view[k].slot
      BY <1>2, <1>8, <1>9
    <2> QED BY <1>2, <1>13, <2>1, ReadsKept
  <1> QED BY <1>2, <1>3, <1>4, <1>9, <1>10, <1>11, <1>12, <1>13, <1>14, OwnerParts DEF row, w

-----------------------------------------------------------------------------
(* A view in which a binding that is over is shut stays that way, and the    *)
(* views of new owners are.                                                  *)

ShutMove(i) ==
    /\ Over /\ Shut(i) => Shut(i)'
    /\ Over /\ Owner(i)' => Owner(i) \/ Shut(i)'
    /\ SawClosure(view'[i]) => SawClosure(view[i]) \/ Shut(i)'

\* A step that leaves a view alone and begins no read of it.
LEMMA ViewAlone ==
    ASSUME TypeInv, NEW i \in Instances, view'[i] = view[i], assigned'[i] = assigned[i],
           generation' = generation,
           \A q \in requests' : q.stage = "read" /\ q.at = i =>
               \E p \in requests : p.stage = "read" /\ p.at = i /\ p.gen = q.gen /\ p.row = q.row,
           consumer'[i] = consumer[i] \/ consumer'[i].stage # "read"
    PROVE  ShutMove(i)
  <1>1. OpenRead(i)' => OpenRead(i)
    BY DEF OpenRead, LiveRead, Current
  <1> QED BY <1>1 DEF ShutMove, Shut, Owner

\* Steps outside the owners.
LEMMA OutsideShut ==
    ASSUME TypeInv, Outside, NEW i \in Instances
    PROVE  ShutMove(i)
  <1>1. ASSUME NEW q \in requests', q.stage = "read", q.at = i
        PROVE  \E p \in requests : p.stage = "read" /\ p.at = i /\ p.gen = q.gen /\ p.row = q.row
    <2>1. CASE q \in requests
      BY <1>1, <2>1
    <2>2. CASE Begins(q)
      BY <1>1, <2>2 DEF Begins, Sending
    <2>3. ASSUME NEW p \in requests, Abandons(q, p)
          PROVE  p.stage = "read" /\ p.at = i /\ p.gen = q.gen /\ p.row = q.row
      <3>1. p \in Request
        BY DEF TypeInv, TypeOK
      <3> QED BY <1>1, <2>3, <3>1, AbandonedType DEF Abandons
    <2> QED BY <2>1, <2>2, <2>3 DEF Outside
  <1> QED BY <1>1, ViewAlone DEF Outside, owners

\* A read of a binding that is over opens nothing: neither the publication's
\* nor the consumer's.
LEMMA ReadingShut ==
    ASSUME TypeInv, NEW i \in Instances, view[i].ready, status # "none",
           UNCHANGED <<assigned, generation>>,
           view' = [view EXCEPT ![i] = WithEntry(@)],
           \A p \in requests' : p \in requests \/ p.row = CurrentRow,
           \A k \in Instances : consumer'[k] = consumer[k] \/ consumer'[k].row = CurrentRow
    PROVE  \A k \in Instances : k = i => ShutMove(k)
  <1>1. /\ ViewInv /\ ReadInv /\ AssignmentInv /\ view \in [Instances -> View]
    BY DEF TypeInv, TypeOK
  <1>2. view'[i] = WithEntry(view[i]) /\ GoodView(view[i])
    BY <1>1 DEF ViewInv, GoodView
  <1> DEFINE w == WithEntry(view[i])
  <1>3. /\ w.slot \in DOMAIN w.entries /\ w.slot # 0 /\ w.ready
        /\ view[i].slot # 0 => w = view[i]
        /\ view[i].slot = 0 => w.entries[w.slot] = FreshEntry
        /\ \A n \in DOMAIN w.entries :
             n = w.slot \/ (n \in DOMAIN view[i].entries /\ w.entries[n] = view[i].entries[n])
    BY <1>2, WithEntryFacts DEF GoodView
  <1> HIDE DEF w
  <1>4. FreshEntry.row.route # "open" /\ ~FreshEntry.closed
    BY DEF FreshEntry, Absent
  <1>5. Over => CurrentRow.route # "open"
    BY CurrentRowWitnessed
  <1>6. Over /\ OpenRead(i)' => OpenRead(i)
    <2> SUFFICES ASSUME Over, OpenRead(i)'
                 PROVE  OpenRead(i)
      OBVIOUS
    <2>1. CASE \E q \in requests' : LiveRead(q)' /\ q.at = i /\ q.row.route = "open"
      <3>1. PICK q \in requests' : LiveRead(q)' /\ q.at = i /\ q.row.route = "open"
        BY <2>1
      <3>2. q \in requests /\ LiveRead(q)
        BY <1>5, <3>1 DEF LiveRead, Current
      <3> QED BY <3>1, <3>2 DEF OpenRead
    <2>2. CASE consumer'[i].stage = "read" /\ consumer'[i].row.route = "open"
      BY <1>5, <2>2 DEF OpenRead
    <2> QED BY <2>1, <2>2 DEF OpenRead
  <1>7. view[i].slot = 0 => ~OpenRead(i)
    BY <1>1 DEF OpenRead, LiveRead, ReadInv
  <1>8. Over /\ Shut(i) => Shut(i)'
    <2>1. CASE view[i].slot # 0
      BY <1>2, <1>3, <1>6, <2>1 DEF Shut, w
    <2>2. CASE view[i].slot = 0
      <3>1. view'[i].entries[view'[i].slot].row.route # "open"
        BY <1>2, <1>3, <1>4, <2>2 DEF w
      <3> QED BY <1>6, <1>7, <2>2, <3>1 DEF Shut
    <2> QED BY <2>1, <2>2
  <1>9. Owner(i)' => Owner(i)
    BY DEF Owner
  <1>10. SawClosure(view'[i]) => SawClosure(view[i])
    <2> SUFFICES ASSUME NEW n \in DOMAIN w.entries, w.entries[n].closed
                 PROVE  SawClosure(view[i])
      BY <1>2 DEF SawClosure, w
    <2>1. CASE n \in DOMAIN view[i].entries /\ w.entries[n] = view[i].entries[n]
      BY <2>1 DEF SawClosure
    <2>2. CASE n = w.slot
      <3>1. view[i].slot # 0
        BY <1>3, <1>4, <2>2
      <3>2. w = view[i]
        BY <1>3, <3>1
      <3> QED BY <3>2 DEF SawClosure
    <2> QED BY <1>3, <2>1, <2>2
  <1> QED BY <1>8, <1>9, <1>10 DEF ShutMove

\* A row applied to the entry the map names.
LEMMA ApplyShut ==
    ASSUME TypeInv, NEW i \in Instances, view[i].ready, view[i].slot # 0,
           UNCHANGED <<assigned, generation>>,
           NEW row, Witnessed(row), NEW v \in DOMAIN outbox,
           row.route # "absent" => v = row.revision,
           view'[i] = Apply(view[i], view[i].slot, row, v),
           row.route = "open" => OpenRead(i)
    PROVE  ShutMove(i)
  <1> DEFINE w == Apply(view[i], view[i].slot, row, v)
             n == view[i].slot
  <1>1. GoodView(view[i]) /\ v \in 0..MaxVersion /\ row \in Row
    BY BindingAssumption DEF TypeInv, TypeOK, ViewInv, GoodView, Witnessed
  <1>2. /\ w.slot = n /\ w.ready /\ DOMAIN w.entries = DOMAIN view[i].entries
        /\ \A m \in DOMAIN view[i].entries : m # n => w.entries[m] = view[i].entries[m]
        /\ n \in DOMAIN view[i].entries
    BY <1>1, ApplyFacts DEF GoodView
  <1>3. /\ row.route # "open" => w.entries[n].closed
        /\ view[i].entries[n].closed => w.entries[n].closed
        /\ w.entries[n].closed => view[i].entries[n].closed \/ row.route # "open"
    BY <1>1, ApplyGood
  <1>4. view'[i] = w
    OBVIOUS
  <1> HIDE DEF w
  <1>5. w.entries[n].closed => Shut(i)'
    BY <1>2, <1>4 DEF Shut
  <1>6. Shut(i) => Shut(i)'
    <2>1. Shut(i) => view[i].entries[n].closed \/ ~OpenRead(i)
      BY DEF Shut
    <2> QED BY <1>3, <1>5, <2>1
  <1>7. SawClosure(view'[i]) => SawClosure(view[i]) \/ Shut(i)'
    <2> SUFFICES ASSUME NEW m \in DOMAIN w.entries, w.entries[m].closed
                 PROVE  SawClosure(view[i]) \/ Shut(i)'
      BY <1>4 DEF SawClosure
    <2>1. CASE m = n
      BY <1>5, <2>1
    <2>2. CASE m # n
      BY <1>2, <2>2 DEF SawClosure
    <2> QED BY <2>1, <2>2
  <1>8. Owner(i)' => Owner(i)
    BY DEF Owner
  <1> QED BY <1>6, <1>7, <1>8 DEF ShutMove

\* The move of the view a publication is prepared in.
LEMMA PrepareShut ==
    ASSUME TypeInv, NEW q \in requests, Prepare(q), NEW k \in Instances
    PROVE  ShutMove(k)
  <1> DEFINE i == q.at
  <1>1. /\ i \in Instances
        /\ \A p \in requests' : p \in requests \/ p.stage # "read"
        /\ \A j \in Instances : j # i => view'[j] = view[j]
        /\ view[i].slot # 0
        /\ \/ q.row.route = "open" /\ view'[i] = view[i]
           \/ q.row.route # "open" /\ view[i].ready /\ view'[i] = Installed(q)
    BY PrepareStep
  <1>2. /\ UNCHANGED <<assigned, generation, consumer>>
        /\ q.stage = "read" /\ Current(q)
    BY DEF Prepare, broker
  <1>3. CASE view'[k] = view[k]
    BY <1>1, <1>2, <1>3, ViewAlone
  <1>4. CASE k = i /\ q.row.route # "open" /\ view[i].ready /\ view'[i] = Installed(q)
    <2>1. Witnessed(q.row) /\ q.entry = view[i].slot
      BY <1>2 DEF TypeInv, ReadInv
    <2>2. q.v \in DOMAIN outbox
      BY DEF TypeInv, Changes
    <2> DEFINE v == ReadVersion(q.row, q.v)
               row == q.row
    <2>3. v \in DOMAIN outbox /\ (row.route # "absent" => v = row.revision)
      BY <2>1, <2>2, ReadVersionType
    <2>4. view'[i] = Apply(view[i], view[i].slot, row, v)
      BY <1>4, <2>1 DEF Installed
    <2> HIDE DEF v, row
    <2>5. Witnessed(row) /\ row.route # "open"
      BY <1>4, <2>1 DEF row
    <2> QED BY <1>1, <1>2, <1>4, <2>3, <2>4, <2>5, ApplyShut
  <1> QED BY <1>1, <1>3, <1>4

\* The moves of the views a read begins in, and of the others.
LEMMA ReadShut ==
    ASSUME TypeInv, NEW i \in Instances, NEW k \in Instances,
           (\E q \in requests : Accept(q, i)) \/ ConsumeRead(i)
    PROVE  ShutMove(k)
  <1>1. CASE \E q \in requests : Accept(q, i)
    <2>1. PICK q \in requests : Accept(q, i)
      BY <1>1
    <2>2. /\ view' = [view EXCEPT ![i] = WithEntry(@)] /\ status # "none"
          /\ \A p \in requests' : p \in requests \/ p = AtOwner(q, i, view'[i].slot)
      BY <2>1, AcceptStep
    <2>3. view[i].ready /\ UNCHANGED <<assigned, generation, consumer>>
      BY <2>1 DEF Accept, Accepting, broker
    <2>4. \A n : AtOwner(q, i, n).row = CurrentRow /\ AtOwner(q, i, n).at = i
      BY DEF AtOwner
    <2>5. CASE k = i
      <3>1. \A p \in requests' : p \in requests \/ p.row = CurrentRow
        BY <2>2, <2>4
      <3> QED BY <2>2, <2>3, <2>5, <3>1, ReadingShut
    <2>6. CASE k # i
      <3>1. view'[k] = view[k]
        BY <2>2, <2>6 DEF TypeInv, TypeOK
      <3>2. \A p \in requests' : p.at = k => p \in requests
        BY <2>2, <2>4, <2>6
      <3> QED BY <2>3, <3>1, <3>2, ViewAlone
    <2> QED BY <2>5, <2>6
  <1>2. CASE ConsumeRead(i)
    <2>1. /\ requests' = requests /\ view[i].ready /\ status # "none"
          /\ view' = [view EXCEPT ![i] = WithEntry(@)]
          /\ consumer'[i].row = CurrentRow
          /\ \A j \in Instances : j # i => consumer'[j] = consumer[j]
      BY <1>2, ConsumeReadStep
    <2>2. UNCHANGED <<assigned, generation>>
      BY <1>2 DEF ConsumeRead, broker
    <2>3. CASE k = i
      <3>1. \A j \in Instances : consumer'[j] = consumer[j] \/ consumer'[j].row = CurrentRow
        BY <2>1
      <3> QED BY <2>1, <2>2, <2>3, <3>1, ReadingShut
    <2>4. CASE k # i
      <3>1. view'[k] = view[k]
        BY <2>1, <2>4 DEF TypeInv, TypeOK
      <3> QED BY <2>1, <2>2, <2>4, <3>1, ViewAlone
    <2> QED BY <2>3, <2>4
  <1> QED BY <1>1, <1>2

\* The moves of the views when one instance's view begins or ends.
LEMMA LifeShut ==
    ASSUME TypeInv, NEW i \in Instances, NEW k \in Instances,
           Revoked(i) \/ Assign(i) \/ Load(i) \/ Evict(i)
    PROVE  ShutMove(k)
  <1>1. requests' = requests /\ \A j \in Instances : j # i => view'[j] = view[j]
    BY AssignmentStep, LoadStep, EvictStep
  <1>2. /\ generation' = generation
        /\ \A j \in Instances : j # i => assigned'[j] = assigned[j] /\ consumer'[j] = consumer[j]
    BY DEF Revoked, Assign, Load, Evict, Forgets, broker, TypeInv, TypeOK
  <1>3. CASE k # i
    BY <1>1, <1>2, <1>3, ViewAlone
  <1>4. CASE k = i /\ (Revoked(i) \/ Assign(i))
    <2>1. view'[i].slot = 0 /\ view'[i].entries = <<>> /\ ~view'[i].ready
      BY <1>4, AssignmentStep, EmptyViewGood
    <2> QED BY <1>4, <2>1 DEF ShutMove, Shut, Owner, SawClosure
  <1>5. CASE k = i /\ Load(i)
    <2>1. /\ view'[i].slot # 0 =>
               /\ DOMAIN view'[i].entries = {view'[i].slot}
               /\ Over => view'[i].entries[view'[i].slot].closed
          /\ view'[i].slot = 0 => view'[i].entries = <<>>
      BY <1>5, LoadStep
    <2>2. Over => Shut(i)'
      BY <2>1 DEF Shut
    <2>3. SawClosure(view'[i]) => Shut(i)'
      BY <2>1 DEF SawClosure, Shut
    <2> QED BY <1>5, <2>2, <2>3 DEF ShutMove
  <1>6. CASE k = i /\ Evict(i)
    <2>1. view'[i].slot = 0 /\ view'[i].entries = view[i].entries
      BY <1>6, EvictStep
    <2>2. Shut(i)'
      BY <2>1 DEF Shut
    <2> QED BY <1>6, <2>2 DEF ShutMove
  <1> QED BY <1>3, <1>4, <1>5, <1>6

\* The moves of the views when a consumer applies its read.
LEMMA ConsumeApplyShut ==
    ASSUME TypeInv, NEW i \in Instances, NEW k \in Instances, ConsumeApply(i)
    PROVE  ShutMove(k)
  <1>1. /\ requests' = requests /\ view[i].ready
        /\ view' = [view EXCEPT ![i] = Consumed(i)]
        /\ consumer[i].stage = "read" /\ view[i].slot # 0
        /\ Witnessed(consumer[i].row) /\ consumer[i].entry = view[i].slot
        /\ Next1(i) \in DOMAIN outbox
        /\ \A j \in Instances : consumer'[j] = consumer[j] \/ consumer'[j].stage # "read"
    BY ConsumeApplyStep
  <1>2. UNCHANGED <<assigned, generation>>
    BY DEF ConsumeApply
  <1>3. CASE k # i
    <2>1. view'[k] = view[k]
      BY <1>1, <1>3 DEF TypeInv, TypeOK
    <2> QED BY <1>1, <1>2, <2>1, ViewAlone
  <1>4. CASE k = i
    <2> DEFINE row == consumer[i].row
               v == ReadVersion(row, Next1(i))
    <2>1. v \in DOMAIN outbox /\ (row.route # "absent" => v = row.revision)
      BY <1>1, ReadVersionType
    <2>2. view'[i] = Apply(view[i], view[i].slot, row, v)
      BY <1>1 DEF Consumed, TypeInv, TypeOK
    <2>3. Witnessed(row) /\ (row.route = "open" => OpenRead(i))
      BY <1>1 DEF OpenRead
    <2> HIDE DEF v, row
    <2> QED BY <1>1, <1>2, <1>4, <2>1, <2>2, <2>3, ApplyShut
  <1> QED BY <1>3, <1>4

-----------------------------------------------------------------------------
(* Every step: the type invariant, and the move of every view.               *)

\* A step of the owners, by the action it is.
OwnerAction ==
    \/ \E q \in requests, i \in Instances : Accept(q, i)
    \/ \E q \in requests : Prepare(q) \/ AppendRecord(q)
    \/ \E i \in Instances :
         \/ Rebalance(i) \/ Revoked(i) \/ Assign(i) \/ Load(i) \/ Evict(i)
         \/ ConsumeKnown(i) \/ ConsumeRead(i) \/ ConsumeApply(i)

\* There are no other steps.
LEMMA StepKinds ==
    ASSUME [Next]_vars
    PROVE  OutsideAction \/ OwnerAction \/ UNCHANGED vars
  <1>1. CASE Transactions
    BY <1>1 DEF OutsideAction
  <1>2. CASE Publication
    BY <1>2 DEF Publication, OutsideAction, OwnerAction
  <1>3. CASE Ownership
    BY <1>3 DEF Ownership, OwnerAction
  <1> QED BY <1>1, <1>2, <1>3 DEF Next

\* A stuttering step is one outside the owners.
LEMMA StutterOutside ==
    ASSUME TypeInv, UNCHANGED vars
    PROVE  Outside
  BY DEF Outside, vars, database, delivery, broker, owners, TypeInv, TypeOK, Changes

\* Every step keeps the type invariant.
LEMMA TypeStep ==
    ASSUME TypeInv, [Next]_vars
    PROVE  TypeInv'
  <1>1. DatabaseStep
    BY DatabaseSteps
  <1>2. CASE OutsideAction
    BY <1>1, <1>2, OutsideActions, OutsideStep
  <1>3. CASE UNCHANGED vars
    BY <1>1, <1>3, StutterOutside, OutsideStep
  <1>4. CASE OwnerAction
    <2>1. ASSUME NEW q \in requests, NEW i \in Instances, Accept(q, i)
          PROVE  TypeInv'
      BY <2>1, AcceptStep
    <2>2. ASSUME NEW q \in requests, Prepare(q)
          PROVE  TypeInv'
      BY <2>2, PrepareStep
    <2>3. ASSUME NEW q \in requests, AppendRecord(q)
          PROVE  TypeInv'
      BY <2>3, AppendStep
    <2>4. ASSUME NEW i \in Instances, Rebalance(i)
          PROVE  TypeInv'
      BY <2>4, RebalanceStep
    <2>5. ASSUME NEW i \in Instances, Revoked(i) \/ Assign(i)
          PROVE  TypeInv'
      BY <2>5, AssignmentStep
    <2>6. ASSUME NEW i \in Instances, Load(i)
          PROVE  TypeInv'
      BY <2>6, LoadStep
    <2>7. ASSUME NEW i \in Instances, Evict(i)
          PROVE  TypeInv'
      BY <2>7, EvictStep
    <2>8. ASSUME NEW i \in Instances, ConsumeKnown(i)
          PROVE  TypeInv'
      BY <2>8, ConsumeKnownStep
    <2>9. ASSUME NEW i \in Instances, ConsumeRead(i)
          PROVE  TypeInv'
      BY <2>9, ConsumeReadStep
    <2>10. ASSUME NEW i \in Instances, ConsumeApply(i)
           PROVE  TypeInv'
      BY <2>10, ConsumeApplyStep
    <2> QED BY <1>4, <2>1, <2>2, <2>3, <2>4, <2>5, <2>6, <2>7, <2>8, <2>9, <2>10 DEF OwnerAction
  <1> QED BY <1>2, <1>3, <1>4, StepKinds

\* A new generation has no owner yet.
LEMMA RebalanceShut ==
    ASSUME TypeInv, NEW i \in Instances, Rebalance(i), NEW k \in Instances
    PROVE  ShutMove(k)
  <1>1. view' = view /\ requests' = requests /\ ~Owner(k)'
    BY RebalanceStep
  <1>2. UNCHANGED <<assigned, consumer>>
    BY DEF Rebalance, owners
  <1>3. OpenRead(k)' => OpenRead(k)
    BY <1>1, <1>2 DEF OpenRead, LiveRead, Current
  <1> QED BY <1>1, <1>3 DEF ShutMove, Shut

\* An append, and a record that is skipped, touch no view.
LEMMA SkippedShut ==
    ASSUME TypeInv, NEW k \in Instances,
           (\E q \in requests : AppendRecord(q)) \/ (\E i \in Instances : ConsumeKnown(i))
    PROVE  ShutMove(k)
  <1>1. CASE \E q \in requests : AppendRecord(q)
    <2>1. PICK q \in requests : AppendRecord(q)
      BY <1>1
    <2>2. \A p \in requests' : p \in requests \/ p.stage # "read"
      BY <2>1, AppendStep
    <2>3. UNCHANGED <<view, assigned, consumer, generation>>
      BY <2>1 DEF AppendRecord, owners
    <2> QED BY <2>2, <2>3, ViewAlone
  <1>2. CASE \E i \in Instances : ConsumeKnown(i)
    <2>1. PICK i \in Instances : ConsumeKnown(i)
      BY <1>2
    <2>2. view' = view /\ requests' = requests
      BY <2>1, ConsumeKnownStep
    <2>3. UNCHANGED <<assigned, generation>> /\ Processed(i)
      BY <2>1 DEF ConsumeKnown
    <2>4. consumer'[k] = consumer[k] \/ consumer'[k].stage # "read"
      BY <2>3 DEF Processed, IdleConsumer, TypeInv, TypeOK
    <2> QED BY <2>2, <2>3, <2>4, ViewAlone
  <1> QED BY <1>1, <1>2

\* Every step of every view is such a move.
LEMMA ShutMoves ==
    ASSUME TypeInv, [Next]_vars, NEW k \in Instances
    PROVE  ShutMove(k)
  <1>1. CASE OutsideAction
    BY <1>1, DatabaseSteps, OutsideActions, OutsideShut
  <1>2. CASE UNCHANGED vars
    BY <1>2, StutterOutside, OutsideShut
  <1>3. CASE OwnerAction
    <2>1. ASSUME NEW q \in requests, NEW i \in Instances, Accept(q, i)
          PROVE  ShutMove(k)
      BY <2>1, ReadShut
    <2>2. ASSUME NEW q \in requests, Prepare(q)
          PROVE  ShutMove(k)
      BY <2>2, PrepareShut
    <2>3. ASSUME NEW q \in requests, AppendRecord(q)
          PROVE  ShutMove(k)
      BY <2>3, SkippedShut
    <2>4. ASSUME NEW i \in Instances, Rebalance(i)
          PROVE  ShutMove(k)
      BY <2>4, RebalanceShut
    <2>5. ASSUME NEW i \in Instances, Revoked(i) \/ Assign(i) \/ Load(i) \/ Evict(i)
          PROVE  ShutMove(k)
      BY <2>5, LifeShut
    <2>6. ASSUME NEW i \in Instances, ConsumeKnown(i)
          PROVE  ShutMove(k)
      BY <2>6, SkippedShut
    <2>7. ASSUME NEW i \in Instances, ConsumeRead(i)
          PROVE  ShutMove(k)
      BY <2>7, ReadShut
    <2>8. ASSUME NEW i \in Instances, ConsumeApply(i)
          PROVE  ShutMove(k)
      BY <2>8, ConsumeApplyShut
    <2> QED BY <1>3, <2>1, <2>2, <2>3, <2>4, <2>5, <2>6, <2>7, <2>8 DEF OwnerAction
  <1> QED BY <1>1, <1>2, <1>3, StepKinds

-----------------------------------------------------------------------------
(* Publications and calls.                                                   *)

\* The publications that may be appended, and those that were: they are old,
\* or prepared by this step, or appended by it.
LEMMA RequestMoves ==
    ASSUME TypeInv, [Next]_vars, NEW p \in requests'
    PROVE  /\ p.stage = "append" =>
                \/ \E o \in requests : o.stage = "append" /\ o.v = p.v /\ o.at = p.at /\ o.gen = p.gen
                \/ \E q \in requests : Prepare(q) /\ p = Appending(q)
           /\ p.stage = "acked" =>
                p \in requests \/ \E q \in requests : AppendRecord(q) /\ p.v = q.v
  <1>1. CASE p \in requests
    BY <1>1
  <1>2. ASSUME Outside
        PROVE  \/ p \in requests
               \/ /\ p.stage # "acked"
                  /\ p.stage = "append" => \E o \in requests :
                       o.stage = "append" /\ o.v = p.v /\ o.at = p.at /\ o.gen = p.gen
    <2>1. CASE Begins(p)
      BY <2>1 DEF Begins, Sending
    <2>2. ASSUME NEW o \in requests, Abandons(p, o)
          PROVE  p.stage # "acked" /\ p.stage = o.stage /\ o.v = p.v /\ o.at = p.at /\ o.gen = p.gen
      <3>1. o \in Request
        BY DEF TypeInv, TypeOK
      <3> QED BY <2>2, <3>1, AbandonedType DEF Abandons
    <2> QED BY <1>2, <2>1, <2>2 DEF Outside
  <1>3. CASE OutsideAction \/ UNCHANGED vars
    BY <1>2, <1>3, DatabaseSteps, OutsideActions, StutterOutside
  <1>4. CASE OwnerAction /\ p \notin requests
    <2>1. ASSUME NEW q \in requests, NEW i \in Instances, Accept(q, i)
          PROVE  p.stage = "read"
      <3>1. p = AtOwner(q, i, view'[i].slot)
        BY <1>4, <2>1, AcceptStep
      <3> QED BY <3>1 DEF AtOwner
    <2>2. ASSUME NEW q \in requests, Prepare(q)
          PROVE  p = Appending(q) /\ p.stage = "append"
      BY <1>4, <2>2, PrepareStep
    <2>3. ASSUME NEW q \in requests, AppendRecord(q)
          PROVE  p.stage = "acked" /\ p.v = q.v
      BY <1>4, <2>3, AppendStep
    <2>4. ASSUME NEW i \in Instances,
                 \/ Rebalance(i) \/ Revoked(i) \/ Assign(i) \/ Load(i) \/ Evict(i)
                 \/ ConsumeKnown(i) \/ ConsumeRead(i) \/ ConsumeApply(i)
          PROVE  requests' = requests
      BY <2>4, RebalanceStep, AssignmentStep, LoadStep, EvictStep, ConsumeKnownStep,
         ConsumeReadStep, ConsumeApplyStep
    <2> QED BY <1>4, <2>1, <2>2, <2>3, <2>4 DEF OwnerAction
  <1> QED BY <1>1, <1>3, <1>4, StepKinds

\* An assignment that changes ends, or belongs to the current generation.
LEMMA AssignmentMoves ==
    ASSUME TypeInv, [Next]_vars, NEW i \in Instances
    PROVE  assigned'[i] \in {assigned[i], 0, generation}
  <1>1. CASE OutsideAction \/ UNCHANGED vars
    <2>1. Outside
      BY <1>1, DatabaseSteps, OutsideActions, StutterOutside
    <2> QED BY <2>1 DEF Outside, owners
  <1>2. CASE OwnerAction
    <2>1. ASSUME NEW q \in requests,
                 (\E k \in Instances : Accept(q, k)) \/ Prepare(q) \/ AppendRecord(q)
          PROVE  assigned' = assigned
      BY <2>1 DEF Accept, Prepare, AppendRecord, owners
    <2>2. ASSUME NEW k \in Instances,
                 \/ Rebalance(k) \/ Load(k) \/ Evict(k)
                 \/ ConsumeKnown(k) \/ ConsumeRead(k) \/ ConsumeApply(k)
          PROVE  assigned' = assigned
      BY <2>2 DEF Rebalance, Load, Evict, ConsumeKnown, ConsumeRead, ConsumeApply, owners
    <2>3. ASSUME NEW k \in Instances, Revoked(k) \/ Assign(k)
          PROVE  assigned'[i] \in {assigned[i], 0, generation}
      <3>1. assigned \in [Instances -> 0..generation]
        BY DEF TypeInv, TypeOK
      <3> QED BY <2>3, <3>1 DEF Revoked, Assign, Forgets
    <2> QED BY <1>2, <2>1, <2>2, <2>3 DEF OwnerAction
  <1> QED BY <1>1, <1>2, StepKinds

\* What a step may do to a call: a call to close is new and the binding over,
\* goes on, or returns because nothing is left to publish.
CallMove(c) ==
    \/ caller'[c] = caller[c]
    \/ caller'[c].call # "close"
    \/ caller'[c].call = caller[c].call /\ caller'[c].pc # "idle"
    \/ caller'[c].pc = "select" /\ Over'
    \/ FlushSelect(c) /\ Pending = {} /\ caller'[c].call = caller[c].call

\* Transactions.
LEMMA TransactionCalls ==
    ASSUME TypeInv, Transactions, NEW c \in Callers
    PROVE  CallMove(c)
  <1>1. caller \in [Callers -> Caller]
    BY DEF TypeInv, TypeOK
  <1>2. ASSUME NEW d \in Callers, Register(d)
        PROVE  CallMove(c)
    <2>1. caller' = [caller EXCEPT ![d] = Calling("register")] /\ Calling("register").call # "close"
      BY <1>2, CallTypes DEF Register
    <2> QED BY <1>1, <2>1 DEF CallMove
  <1>3. ASSUME NEW d \in Callers, NEW cancelOutstanding \in BOOLEAN, Close(d, cancelOutstanding)
        PROVE  CallMove(c)
    <2>1. caller' = [caller EXCEPT ![d] = Calling("close")] /\ Calling("close").pc = "select"
      BY <1>3, CallTypes DEF Close
    <2>2. status' = Closed(cancelOutstanding)
      BY <1>3 DEF Close, Change, database
    <2>3. Over'
      BY <2>2 DEF Over, Closed
    <2> QED BY <1>1, <2>1, <2>3 DEF CallMove
  <1>4. CASE Adopt \/ RevokeAllocation \/ ReleaseAfterPhysicalAbsence
    BY <1>4 DEF Adopt, RevokeAllocation, ReleaseAfterPhysicalAbsence, delivery, CallMove
  <1> QED BY <1>2, <1>3, <1>4 DEF Transactions

\* Every step.
LEMMA CallMoves ==
    ASSUME TypeInv, [Next]_vars, NEW c \in Callers
    PROVE  CallMove(c)
  <1>1. caller \in [Callers -> Caller]
    BY DEF TypeInv, TypeOK
  <1>2. CASE Transactions
    BY <1>2, TransactionCalls
  <1>3. CASE Ownership \/ UNCHANGED vars
    BY <1>3 DEF Ownership, Rebalance, Revoked, Assign, Load, Evict, ConsumeKnown, ConsumeRead,
       ConsumeApply, delivery, vars, CallMove
  <1>4. CASE Publication
    <2>1. ASSUME NEW q \in requests, NEW receipt \in BOOLEAN, Settles(q, receipt)
          PROVE  CallMove(c)
      <3>1. \/ caller'[c] = caller[c]
            \/ caller'[c] = Idle
            \/ caller'[c].pc \in {"select", "publish"} /\ caller'[c].call = caller[c].call
        BY <2>1, DatabaseSteps, SettlesCaller
      <3> QED BY <3>1, CallTypes DEF CallMove
    <2>2. ASSUME NEW q \in requests,
                 \/ Reject(q) \/ PrepareRefused(q) \/ AppendFenced(q) \/ AppendInDoubt(q)
                 \/ Confirmed(q)
          PROVE  CallMove(c)
      BY <2>1, <2>2 DEF Reject, PrepareRefused, AppendFenced, AppendInDoubt, Confirmed, Refused
    <2>3. ASSUME NEW q \in requests, Abandon(q)
          PROVE  CallMove(c)
      <3>1. Settles(q, FALSE) \/ caller' = caller
        BY <2>3 DEF Abandon
      <3> QED BY <2>1, <3>1 DEF CallMove
    <2>4. ASSUME NEW q \in requests,
                 \/ \E i \in Instances : Accept(q, i)
                 \/ Prepare(q) \/ Rerouted(q) \/ AppendRecord(q)
          PROVE  CallMove(c)
      BY <2>4 DEF Accept, Prepare, Rerouted, AppendRecord, CallMove
    <2>5. ASSUME NEW v \in Versions,
                 (\E i \in Instances : Claim(i, v)) \/ ClaimLapses(v) \/ ClaimOvertaken(v)
          PROVE  CallMove(c)
      BY <2>5 DEF Claim, ClaimLapses, ClaimOvertaken, Lapses, delivery, CallMove
    <2>6. ASSUME NEW d \in Callers, FlushSend(d)
          PROVE  CallMove(c)
      BY <2>6 DEF FlushSend, CallMove
    <2>7. ASSUME NEW d \in Callers, FlushSelect(d)
          PROVE  CallMove(c)
      <3> DEFINE pc == IF Pending = {} THEN "idle" ELSE "publish"
      <3>1. caller' = [caller EXCEPT ![d] = [@ EXCEPT !.pc = pc, !.todo = Pending]]
        BY <2>7 DEF FlushSelect
      <3>2. Pending \in SUBSET Versions /\ pc \in {"idle", "select", "publish"}
        <4>1. unpublished \in Seq(DOMAIN outbox) /\ DOMAIN outbox \subseteq Versions
          BY BindingAssumption DEF TypeInv, TypeOK, Versions
        <4> QED BY <4>1 DEF Pending, ToSet
      <3>3. Pending # {} => pc # "idle"
        OBVIOUS
      <3>4. caller[d] \in Caller
        BY <1>1
      <3> HIDE DEF pc
      <3>5. [caller[d] EXCEPT !.pc = pc, !.todo = Pending] =
              [call |-> caller[d].call, pc |-> pc, todo |-> Pending]
        BY <3>2, <3>4, CallerUpdates, Zenon
      <3>6. caller'[d] = [call |-> caller[d].call, pc |-> pc, todo |-> Pending]
        BY <1>1, <3>1, <3>5
      <3>7. CASE d = c
        BY <2>7, <3>3, <3>6, <3>7 DEF CallMove
      <3>8. CASE d # c
        BY <1>1, <3>1, <3>8 DEF CallMove
      <3> QED BY <3>7, <3>8
    <2> QED BY <1>4, <2>2, <2>3, <2>4, <2>5, <2>6, <2>7 DEF Publication
  <1> QED BY <1>2, <1>3, <1>4 DEF Next

-----------------------------------------------------------------------------
(* The inductive invariant.                                                  *)

\* It holds before anything has happened.
LEMMA RevocationInit ==
    ASSUME Init
    PROVE  RevocationInv
  <1>1. /\ status = "none" /\ outbox = <<>> /\ unpublished = <<>> /\ requests = {}
        /\ caller = [c \in Callers |-> Idle]
        /\ generation = 1 /\ holder \in Instances /\ log = <<>> /\ delivered = 0
        /\ assigned = [i \in Instances |-> 0] /\ view = [i \in Instances |-> EmptyView]
        /\ pos = [i \in Instances |-> 0]
        /\ consumer = [i \in Instances |-> IdleConsumer] /\ faults = 0
    BY DEF Init
  <1>2. EmptyView \in View /\ SoundView(EmptyView) /\ EmptyView.entries = <<>>
        /\ EmptyView.slot = 0 /\ ~EmptyView.ready
    BY EmptyViewGood, SoundViewType DEF GoodView
  <1>3. IdleConsumer \in Consumer /\ IdleConsumer.stage = "idle"
    BY BindingAssumption DEF IdleConsumer, Consumer, Row, Absent
  <1>4. Idle \in Caller /\ Idle.todo = {} /\ Idle.call = "none"
    BY CallTypes
  <1>5. DatabaseTypes
    BY <1>1, BindingAssumption DEF DatabaseTypes, IsInjective
  <1>6. HistoryInv
    BY <1>1 DEF HistoryInv
  <1>7. RestTypes
    BY <1>1, <1>3, <1>4, BindingAssumption DEF RestTypes
  <1>8. view \in [Instances -> View] /\ ViewInv
    BY <1>1, <1>2 DEF ViewInv
  <1>9. Changes /\ AssignmentInv /\ ReadInv
    BY <1>1, <1>2, <1>3, <1>4 DEF Changes, AssignmentInv, ReadInv
  <1>10. TypeInv
    BY <1>5, <1>6, <1>7, <1>8, <1>9, TypeParts
  <1>11. ClosureInv
    <2>1. \A i \in Instances : Shut(i)
      BY <1>1, <1>2 DEF Shut
    <2> QED BY <1>1, <1>4, <2>1 DEF ClosureInv
  <1> QED BY <1>10, <1>11 DEF RevocationInv

\* Once the binding is over, the owners stay shut.
LEMMA OwnersStayShut ==
    ASSUME TypeInv, [Next]_vars, Over, OwnersShut
    PROVE  OwnersShut'
  <1>1. \A i \in Instances : ShutMove(i)
    BY ShutMoves
  <1> QED BY <1>1 DEF OwnersShut, ShutMove

\* A view that saw the closure.
LEMMA SawClosureStep ==
    ASSUME RevocationInv, [Next]_vars, NEW i \in Instances, SawClosure(view'[i])
    PROVE  Shut(i)'
  <1>1. ShutMove(i)
    BY ShutMoves DEF RevocationInv
  <1>2. SawClosure(view[i]) => Over /\ Shut(i)
    BY DEF RevocationInv, ClosureInv, TypeInv, ViewInv, SawClosure, Remembers
  <1> QED BY <1>1, <1>2 DEF ShutMove

\* A closing change that may be appended under its assignment.
LEMMA AppendInstalled ==
    ASSUME RevocationInv, [Next]_vars, NEW p \in requests',
           p.stage = "append", outbox'[p.v].closed, Current(p)'
    PROVE  Shut(p.at)'
  <1>1. CASE \E o \in requests : o.stage = "append" /\ o.v = p.v /\ o.at = p.at /\ o.gen = p.gen
    <2>1. PICK o \in requests : o.stage = "append" /\ o.v = p.v /\ o.at = p.at /\ o.gen = p.gen
      BY <1>1
    <2>2. /\ o.v \in DOMAIN outbox /\ o.at \in Instances /\ o.gen \in 1..generation
          /\ o.gen = generation => Current(o)
      BY <2>1 DEF RevocationInv, TypeInv, Changes, AssignmentInv
    <2>3. outbox[o.v].closed
      BY <2>1, <2>2, DatabaseSteps DEF RevocationInv, DatabaseStep, Grows
    <2>4. Current(o)
      <3>1. assigned'[o.at] \in {assigned[o.at], 0, generation} /\ assigned'[o.at] = o.gen
        BY <2>1, <2>2, AssignmentMoves DEF RevocationInv, Current
      <3> QED BY <2>2, <3>1 DEF Current
    <2>5. Shut(o.at) /\ Over
      BY <2>1, <2>2, <2>3, <2>4, ClosedIsOver DEF RevocationInv, ClosureInv
    <2>6. ShutMove(o.at)
      BY <2>2, ShutMoves DEF RevocationInv
    <2> QED BY <2>1, <2>5, <2>6 DEF ShutMove
  <1>2. CASE \E q \in requests : Prepare(q) /\ p = Appending(q)
    <2>1. PICK q \in requests : Prepare(q) /\ p = Appending(q)
      BY <1>2
    <2>2. p.v = q.v /\ p.at = q.at
      BY <2>1, PreparedUpdate DEF RevocationInv, TypeInv, TypeOK
    <2>3. outbox[q.v].closed
      BY <2>1, <2>2 DEF Prepare, database
    <2>4. /\ q.row.route # "open" /\ view'[q.at].slot = view[q.at].slot
          /\ q.row.route # "open" => view'[q.at].entries[view[q.at].slot].closed
      BY <2>1, <2>3, PrepareStep DEF RevocationInv
    <2> QED BY <2>2, <2>4 DEF Shut
  <1> QED BY <1>1, <1>2, RequestMoves DEF RevocationInv

\* A closing change that was appended.
LEMMA AppendedInstalled ==
    ASSUME RevocationInv, [Next]_vars, NEW p \in requests',
           p.stage = "acked", outbox'[p.v].closed
    PROVE  OwnersShut'
  <1>1. ASSUME NEW q \in requests, q.v = p.v
        PROVE  q.v \in DOMAIN outbox /\ outbox[q.v].closed /\ Over
    <2>1. q.v \in DOMAIN outbox
      BY DEF RevocationInv, TypeInv, Changes
    <2>2. outbox[q.v].closed
      BY <1>1, <2>1, DatabaseSteps DEF RevocationInv, DatabaseStep, Grows
    <2> QED BY <2>1, <2>2, ClosedIsOver DEF RevocationInv
  <1>2. CASE p \in requests
    <2>1. Over /\ OwnersShut
      BY <1>1, <1>2 DEF RevocationInv, ClosureInv
    <2> QED BY <2>1, OwnersStayShut DEF RevocationInv
  <1>3. CASE \E q \in requests : AppendRecord(q) /\ p.v = q.v
    <2>1. PICK q \in requests : AppendRecord(q) /\ p.v = q.v
      BY <1>3
    <2>2. q.at \in Instances /\ q.gen = generation /\ Current(q) /\ q.stage = "append"
      BY <2>1, AppendStep DEF RevocationInv, AppendRecord
    <2>3. Shut(q.at) /\ Over
      BY <1>1, <2>1, <2>2 DEF RevocationInv, ClosureInv
    <2>4. \A i \in Instances : Owner(i) => i = q.at
      BY <2>2 DEF Owner, Current, RevocationInv, TypeInv, AssignmentInv
    <2>5. OwnersShut
      BY <2>3, <2>4 DEF OwnersShut
    <2> QED BY <2>3, <2>5, OwnersStayShut DEF RevocationInv
  <1> QED BY <1>2, <1>3, RequestMoves DEF RevocationInv

\* A closing change that counts as published.
LEMMA PublishedInstalled ==
    ASSUME RevocationInv, [Next]_vars, NEW v \in DOMAIN outbox',
           outbox'[v].closed, Published(v)'
    PROVE  OwnersShut'
  <1>1. /\ v \in DOMAIN outbox
        /\ Published(v) \/ \E q \in requests : q.stage = "acked" /\ q.v = v
        /\ outbox[v].closed
    BY DatabaseSteps DEF RevocationInv, DatabaseStep, Grows, PublishedByAnswer
  <1>2. Over
    BY <1>1, ClosedIsOver DEF RevocationInv
  <1>3. OwnersShut
    BY <1>1 DEF RevocationInv, ClosureInv
  <1> QED BY <1>2, <1>3, OwnersStayShut DEF RevocationInv

\* A call to close.
LEMMA CloseInstalled ==
    ASSUME RevocationInv, [Next]_vars, NEW c \in Callers, caller'[c].call = "close"
    PROVE  Over' /\ (caller'[c].pc = "idle" => OwnersShut')
  <1>1. TypeInv /\ ClosureInv
    BY DEF RevocationInv
  <1>2. CallMove(c)
    BY <1>1, CallMoves
  <1>3. Over => Over'
    BY <1>1, DatabaseSteps DEF DatabaseStep, Grows
  <1>4. caller[c].call = "close" => Over
    BY <1>1 DEF ClosureInv
  <1>5. CASE caller'[c] = caller[c]
    <2>1. Over /\ (caller[c].pc = "idle" => OwnersShut)
      BY <1>1, <1>5 DEF ClosureInv
    <2> QED BY <1>1, <1>3, <1>5, <2>1, OwnersStayShut
  <1>6. CASE caller'[c].call = caller[c].call /\ caller'[c].pc # "idle"
    BY <1>3, <1>4, <1>6
  <1>7. CASE caller'[c].pc = "select" /\ Over'
    BY <1>7
  <1>8. CASE FlushSelect(c) /\ Pending = {} /\ caller'[c].call = caller[c].call
    <2>1. Over
      BY <1>4, <1>8
    <2> DEFINE n == Len(outbox)
    <2>2. n \in DOMAIN outbox /\ outbox[n].closed
      BY <1>1, <2>1 DEF TypeInv, TypeOK, HistoryInv, Over
    <2>3. Published(n)
      <3>1. ~Contains(unpublished, n)
        <4>1. unpublished \in Seq(DOMAIN outbox)
          BY <1>1 DEF TypeInv, TypeOK
        <4> QED BY <1>8, <4>1 DEF Pending, ToSet, Contains
      <3> QED BY <2>2, <3>1 DEF Published
    <2>4. OwnersShut
      BY <1>1, <2>2, <2>3 DEF ClosureInv
    <2> QED BY <1>1, <1>3, <2>1, <2>4, OwnersStayShut
  <1> QED BY <1>2, <1>5, <1>6, <1>7, <1>8 DEF CallMove

\* Every step keeps it.
LEMMA RevocationStep ==
    ASSUME RevocationInv, [Next]_vars
    PROVE  RevocationInv'
  <1>1. TypeInv'
    BY TypeStep DEF RevocationInv
  <1>2. ClosureInv'
    <2>1. \A i \in Instances : SawClosure(view[i])' => Shut(i)'
      BY SawClosureStep DEF SawClosure
    <2>2. \A q \in requests' : q.stage = "append" /\ outbox'[q.v].closed /\ Current(q)' => Shut(q.at)'
      BY AppendInstalled
    <2>3. \A q \in requests' : q.stage = "acked" /\ outbox'[q.v].closed => OwnersShut'
      BY AppendedInstalled
    <2>4. \A v \in DOMAIN outbox' : outbox'[v].closed /\ Published(v)' => OwnersShut'
      BY PublishedInstalled
    <2>5. \A c \in Callers : caller'[c].call = "close" =>
            Over' /\ (caller'[c].pc = "idle" => OwnersShut')
      BY CloseInstalled
    <2> QED BY <2>1, <2>2, <2>3, <2>4, <2>5 DEF ClosureInv
  <1> QED BY <1>1, <1>2 DEF RevocationInv

\* The invariant holds in every reachable state: tables, reads and views agree,
\* and closures are installed before they count as published.
THEOREM RevocationInvHolds ==
    Spec => [](TypeOK /\ RevocationInv)
  <1>1. Init => RevocationInv
    BY RevocationInit
  <1>2. RevocationInv /\ [Next]_vars => RevocationInv'
    BY RevocationStep
  <1>3. RevocationInv => TypeOK
    BY DEF RevocationInv, TypeInv
  <1> QED BY <1>1, <1>2, <1>3, PTL DEF Spec

\* A view in which the route is shut hands out none.
LEMMA ShutRoutesNothing ==
    ASSUME TypeInv, NEW i \in Instances, Shut(i)
    PROVE  ~Routes(view[i])
  <1>1. SoundView(view[i])
    BY DEF TypeInv, ViewInv
  <1>2. SUFFICES ASSUME NEW n \in {view[i].slot, view[i].bound} \ {0}
                 PROVE  view[i].entries[n].row.route # "open"
    BY DEF Routes
  <1>3. n \in DOMAIN view[i].entries
    BY <1>1 DEF SoundView
  <1>4. CASE n = view[i].slot
    BY <1>1, <1>3, <1>4 DEF Shut, SoundView
  <1>5. CASE n # view[i].slot
    BY <1>1, <1>3, <1>5 DEF SoundView
  <1> QED BY <1>4, <1>5

\* Whatever the number of owners, relays, callers, changes and reads: a closing
\* change that counts as published is installed at the owner (controlPublisher).
THEOREM RevocationInstalledHolds ==
    Spec => []RevocationInstalled
  <1>1. RevocationInv => RevocationInstalled
    BY ShutRoutesNothing DEF RevocationInv, ClosureInv, OwnersShut, RevocationInstalled
  <1> QED BY <1>1, RevocationInvHolds, PTL

\* closeBinding and closeWriter return without an error only behind it.
THEOREM CloseConfirmedHolds ==
    Spec => []CloseConfirmed
  <1>1. RevocationInv => CloseConfirmed
    BY ShutRoutesNothing DEF RevocationInv, ClosureInv, OwnersShut, CloseConfirmed
  <1> QED BY <1>1, RevocationInvHolds, PTL

\* A view that has seen the closure hands the route out never again.
THEOREM RevokedForGoodHolds ==
    Spec => []RevokedForGood
  <1>1. RevocationInv => RevokedForGood
    BY ShutRoutesNothing DEF RevocationInv, ClosureInv, RevokedForGood
  <1> QED BY <1>1, RevocationInvHolds, PTL
=============================================================================
