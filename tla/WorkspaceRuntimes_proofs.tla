---------------------- MODULE WorkspaceRuntimes_proofs -----------------------
(* What TLAPS proves of WorkspaceRuntimes for any number of controllers,    *)
(* allocations and faults: its types, and that the Workspace has one        *)
(* machine, none of a released allocation, and no way back from closure.    *)
EXTENDS WorkspaceRuntimes, FiniteSetTheorems, TLAPS

-----------------------------------------------------------------------------
(* The parts of a step.                                                      *)

\* An operation that has the turn names an allocation.
LEMMA JobRead ==
    ASSUME TypeOK, NEW c \in Controllers
    PROVE  /\ job[c] \in Job /\ mem[c] \in Memory
           /\ job[c].pc \in Steps <=> job[c].op \in {"create", "recover", "retire"}
           /\ job[c].pc \in Steps => job[c].a \in Allocations /\ row[job[c].a] \in Row
           /\ job[c].pc \notin Steps => job[c] = Idle
  BY DEF TypeOK, Job, Idle, Steps

\* Goto moves one operation and changes only where it is.
LEMMA GotoMeans ==
    ASSUME TypeOK, NEW c \in Controllers, job[c].pc \in Steps, NEW pc \in Steps, Goto(c, pc)
    PROVE  /\ job' \in [Controllers -> Job]
           /\ job'[c].op = job[c].op /\ job'[c].a = job[c].a /\ job'[c].pc = pc
           /\ \A d \in Controllers : d # c => job'[d] = job[d]
  <1>1. job[c] \in [op : {"create", "recover", "retire"}, a : Allocations, pc : Steps]
    BY JobRead DEF Job, Steps
  <1>2. [job[c] EXCEPT !.pc = pc] \in Job
    BY <1>1 DEF Job
  <1>3. job \in [Controllers -> Job]
    BY DEF TypeOK
  <1>4. job' = [job EXCEPT ![c] = [job[c] EXCEPT !.pc = pc]]
    BY <1>3 DEF Goto
  <1> QED BY <1>1, <1>2, <1>3, <1>4

\* An operation ends, and what the process holds is settled.
LEMMA FinishMeans ==
    ASSUME TypeOK, NEW c \in Controllers, NEW m \in Memory, Finish(c, m)
    PROVE  /\ job' \in [Controllers -> Job] /\ mem' \in [Controllers -> Memory]
           /\ job'[c] = Idle /\ mem'[c] = Settled(m)
           /\ \A d \in Controllers : d # c => job'[d] = job[d] /\ mem'[d] = mem[d]
  <1>1. Idle \in Job /\ Empty \in Memory /\ Settled(m) \in Memory
    BY DEF Idle, Job, Empty, Memory, Settled
  <1> QED BY <1>1 DEF TypeOK, Finish

\* A fault is counted.
LEMMA FaultMeans ==
    ASSUME TypeOK, Fault \/ NoFault
    PROVE  faults' \in 0..MaxFaults
  <1>1. faults \in 0..MaxFaults /\ MaxFaults \in Nat
    BY BoundAssumption DEF TypeOK
  <1> QED BY <1>1 DEF Fault, NoFault

\* An owned write is made or not, and goes on only when it was made.
LEMMA OwnedMeans ==
    ASSUME TypeOK, NEW c \in Controllers, job[c].pc \in Steps, NEW rows,
           NEW next \in Steps, NEW failed \in Steps, Owned(c, rows, next, failed)
    PROVE  /\ row' \in {row, rows} /\ faults' \in 0..MaxFaults
           /\ job' \in [Controllers -> Job]
           /\ job'[c].op = job[c].op /\ job'[c].a = job[c].a
           /\ (job'[c].pc = next /\ row' = rows) \/ job'[c].pc = failed
           /\ \A d \in Controllers : d # c => job'[d] = job[d]
  BY GotoMeans, FaultMeans DEF Owned

\* A guarded write is made, if at all, where its guard holds.
LEMMA ChangeMeans ==
    ASSUME TypeOK, NEW c \in Controllers, job[c].pc \in Steps, NEW guard, NEW rows,
           NEW next \in Steps, NEW failed \in Steps, Change(c, guard, rows, next, failed)
    PROVE  /\ (row' = row \/ (guard /\ row' = rows))
           /\ faults' \in 0..MaxFaults
           /\ job' \in [Controllers -> Job]
           /\ job'[c].op = job[c].op /\ job'[c].a = job[c].a
           /\ (job'[c].pc = next /\ guard /\ row' = rows) \/ job'[c].pc = failed
           /\ \A d \in Controllers : d # c => job'[d] = job[d]
  <1>1. CASE guard /\ Owned(c, rows, next, failed)
    BY <1>1, OwnedMeans
  <1>2. CASE ~guard /\ Goto(c, failed) /\ UNCHANGED row /\ NoFault
    BY <1>2, GotoMeans, FaultMeans
  <1> QED BY <1>1, <1>2 DEF Change

-----------------------------------------------------------------------------
(* The writes of a row.                                                      *)

\* rows is the table with only the row of a written.
Writes(rows, a) ==
    /\ rows \in [Allocations -> Row]
    /\ \A b \in Allocations : b # a => rows[b] = row[b]

\* The fields each write of a row leaves.
LEMMA WriteFields ==
    ASSUME TypeOK, NEW a \in Allocations
    PROVE  /\ \A s \in RowStates :
                LET rows == [row EXCEPT ![a].state = s] IN
                /\ Writes(rows, a) /\ rows[a].state = s /\ rows[a].owner = row[a].owner
                /\ rows[a].issued = row[a].issued /\ rows[a].closed = row[a].closed
                /\ rows[a].capsule = row[a].capsule
           /\ \A s \in RowStates : \A u \in BOOLEAN :
                LET rows == [row EXCEPT ![a].state = s, ![a].unconfirmed = u] IN
                /\ Writes(rows, a) /\ rows[a].state = s /\ rows[a].owner = row[a].owner
                /\ rows[a].issued = row[a].issued /\ rows[a].closed = row[a].closed
                /\ rows[a].capsule = row[a].capsule
           /\ LET rows == [row EXCEPT ![a].issued = TRUE] IN
                /\ Writes(rows, a) /\ rows[a].state = row[a].state /\ rows[a].owner = row[a].owner
                /\ rows[a].issued /\ rows[a].closed = row[a].closed
                /\ rows[a].capsule = row[a].capsule
  <1>1. row \in [Allocations -> Row] /\ row[a] \in Row
    BY DEF TypeOK
  <1>2. ASSUME NEW s \in RowStates
        PROVE  LET rows == [row EXCEPT ![a].state = s] IN
               /\ Writes(rows, a) /\ rows[a].state = s /\ rows[a].owner = row[a].owner
               /\ rows[a].issued = row[a].issued /\ rows[a].closed = row[a].closed
               /\ rows[a].capsule = row[a].capsule
    BY <1>1 DEF Row, Writes
  <1>3. ASSUME NEW s \in RowStates, NEW u \in BOOLEAN
        PROVE  LET rows == [row EXCEPT ![a].state = s, ![a].unconfirmed = u] IN
               /\ Writes(rows, a) /\ rows[a].state = s /\ rows[a].owner = row[a].owner
               /\ rows[a].issued = row[a].issued /\ rows[a].closed = row[a].closed
               /\ rows[a].capsule = row[a].capsule
    BY <1>1 DEF Row, Writes
  <1>4. LET rows == [row EXCEPT ![a].issued = TRUE] IN
        /\ Writes(rows, a) /\ rows[a].state = row[a].state /\ rows[a].owner = row[a].owner
        /\ rows[a].issued /\ rows[a].closed = row[a].closed
        /\ rows[a].capsule = row[a].capsule
    BY <1>1 DEF Row, Writes
  <1> QED BY <1>2, <1>3, <1>4

\* The fields the named writes leave.
LEMMA NamedWrites ==
    ASSUME TypeOK, NEW a \in Allocations, NEW c \in Controllers
    PROVE  /\ /\ Writes(Reserved(c, a), a) /\ Reserved(c, a)[a].state = "reserved"
              /\ ~Reserved(c, a)[a].issued /\ ~Reserved(c, a)[a].closed
              /\ ~Reserved(c, a)[a].capsule /\ Reserved(c, a)[a].owner = c
           /\ /\ Writes(Allocated(a), a) /\ Allocated(a)[a].state = "allocated"
              /\ Allocated(a)[a].issued = row[a].issued /\ Allocated(a)[a].closed = row[a].closed
              /\ Allocated(a)[a].owner = row[a].owner
           /\ /\ Writes(Closing(a), a) /\ Closing(a)[a].closed
              /\ Closing(a)[a].state = IF row[a].state = "released" THEN "released" ELSE "cleaning"
              /\ Closing(a)[a].issued = row[a].issued /\ Closing(a)[a].capsule = row[a].capsule
              /\ Closing(a)[a].owner = row[a].owner
           /\ /\ Writes(Released(a), a) /\ Released(a)[a].state = "released"
              /\ Released(a)[a].issued = row[a].issued /\ Released(a)[a].closed = row[a].closed
              /\ ~Released(a)[a].capsule /\ Released(a)[a].owner = row[a].owner
  <1>1. row \in [Allocations -> Row] /\ row[a] \in Row
    BY DEF TypeOK
  <1>2. /\ Writes(Reserved(c, a), a) /\ Reserved(c, a)[a].state = "reserved"
        /\ ~Reserved(c, a)[a].issued /\ ~Reserved(c, a)[a].closed
        /\ ~Reserved(c, a)[a].capsule /\ Reserved(c, a)[a].owner = c
    <2>1. Unused \in Row
      BY DEF Unused, Row, RowStates
    <2> DEFINE r == [Unused EXCEPT !.state = "reserved", !.owner = c]
    <2>2. /\ r \in Row /\ r.state = "reserved" /\ ~r.issued /\ ~r.closed /\ ~r.capsule
          /\ r.owner = c
      BY DEF Unused, Row, RowStates
    <2>3. Reserved(c, a) = [row EXCEPT ![a] = r]
      BY DEF Reserved
    <2> HIDE DEF r
    <2> QED BY <1>1, <2>2, <2>3 DEF Writes
  <1>3. /\ Writes(Allocated(a), a) /\ Allocated(a)[a].state = "allocated"
        /\ Allocated(a)[a].issued = row[a].issued /\ Allocated(a)[a].closed = row[a].closed
        /\ Allocated(a)[a].owner = row[a].owner
    BY <1>1 DEF Allocated, Row, RowStates, Writes
  <1>4. /\ Writes(Closing(a), a) /\ Closing(a)[a].closed
        /\ Closing(a)[a].state = IF row[a].state = "released" THEN "released" ELSE "cleaning"
        /\ Closing(a)[a].issued = row[a].issued /\ Closing(a)[a].capsule = row[a].capsule
        /\ Closing(a)[a].owner = row[a].owner
    BY <1>1 DEF Closing, Row, RowStates, Writes
  <1>5. /\ Writes(Released(a), a) /\ Released(a)[a].state = "released"
        /\ Released(a)[a].issued = row[a].issued /\ Released(a)[a].closed = row[a].closed
        /\ ~Released(a)[a].capsule /\ Released(a)[a].owner = row[a].owner
    BY <1>1 DEF Released, Row, RowStates, Writes
  <1> QED BY <1>2, <1>3, <1>4, <1>5
-----------------------------------------------------------------------------
(* The invariant.                                                            *)

Issued(a) == row[a].issued

\* A row that was never used is blank; only what was issued is at Cube; what was
\* released is gone there, or was never issued.
RowInv ==
    \A a \in Allocations :
      /\ row[a].state = "none" => row[a] = Unused
      /\ row[a].capsule => Issued(a)
      /\ row[a].closed => row[a].state \in {"cleaning", "unknown", "released"}
      /\ cube[a] = "alive" \/ a \in posts => Issued(a)
      /\ row[a].state = "released" => cube[a] = "gone" \/ ~Issued(a)

\* What a process holds is issued, and held for a reason.
Holding(c) ==
    /\ mem[c].handle => mem[c].a \in Allocations /\ Issued(mem[c].a)
    /\ mem[c].a = Nothing => ~mem[c].bound /\ ~mem[c].warm
    /\ job[c].op # "create" /\ mem[c].a # Nothing => mem[c].handle
    /\ job[c].op = "create" => mem[c].a = job[c].a

\* What an operation knows where it is: before a creation is issued nobody
\* issues it, and an allocation is released when it is gone or never comes.
Working(c) ==
    LET a == job[c].a IN
    /\ job[c].op = "recover" \/ job[c].pc \in {"post", "creating", "store", "restore"} => Issued(a)
    /\ job[c].pc = "reserve" => mem[c].handle \/ (~Issued(a) /\ ~mem[c].bound /\ ~mem[c].warm)
    /\ job[c].pc \in {"materialize", "begin"} /\ job[c].op = "create" => ~Issued(a)
    /\ job[c].pc \in {"store", "register"} => mem[c].handle
    /\ job[c].pc = "seal" => cube[a] = "gone"
    /\ job[c].pc = "unbind" => cube[a] = "gone" \/ (~Issued(a) /\ row[a].closed)
    /\ job[c].pc = "release" =>
         cube[a] = "gone" \/ (~Issued(a) /\ (row[a].closed \/ job[c].op = "create"))
    /\ job[c].pc \in {"reserve", "materialize", "store", "register"} => job[c].op = "create"
    /\ job[c].pc \in {"begin", "post", "creating"} => job[c].op # "retire"
    /\ job[c].pc \in {"adopt", "restore"} => job[c].op = "recover"

\* A recovery is claimed only of what was issued.
Claimed(c) == \A k \in DOMAIN queue[c] : queue[c][k].op = "recover" => Issued(queue[c][k].a)

ProcessInv == \A c \in Controllers : Holding(c) /\ Working(c) /\ Claimed(c)

\* Before it is issued an allocation belongs to one creation.
AloneInv ==
    \A c, d \in Controllers :
      /\ job[c].op = "create" /\ job[d].op = "create" /\ job[c].a = job[d].a
      /\ ~Issued(job[c].a)
      => c = d

LiveInv == \A a, b \in Live : a = b

MachineInv == TypeOK /\ RowInv /\ ProcessInv /\ AloneInv /\ LiveInv

-----------------------------------------------------------------------------
(* What a step does to a row.                                                *)

\* c is at the transaction that issues a's creation.
Issues(c, a) == job[c].pc = "begin" /\ job[c].a = a /\ job'[c].pc \in {"post", "unsure"}

Reserves(a) ==
    /\ row[a].state = "none" /\ Live = {}
    /\ row'[a].state = "reserved" /\ ~row'[a].issued /\ ~row'[a].closed /\ ~row'[a].capsule
    /\ \A b \in Allocations : b # a => row'[b] = row[b]

Keeps(a) ==
    /\ row[a].state # "none" /\ row'[a].state # "none"
    /\ row[a].state = "released" => row'[a].state = "released"
    /\ row[a].closed => row'[a].closed
    /\ row'[a].closed => row'[a].state \in {"cleaning", "unknown", "released"}
    /\ row[a].issued => row'[a].issued
    /\ row'[a].capsule => row'[a].issued
    /\ row'[a].issued /\ ~row[a].issued =>
         /\ row'[a].state = row[a].state /\ ~row[a].closed /\ row[a].state # "released"
         /\ \E c \in Controllers : Issues(c, a)
    /\ row'[a].state = "released" /\ row[a].state # "released" =>
         /\ cube' = cube
         /\ \E c \in Controllers : job[c].pc = "release" /\ job[c].a = a

RowMove(a) == row'[a] = row[a] \/ Reserves(a) \/ Keeps(a)

RowMoves == row' \in [Allocations -> Row] /\ \A a \in Allocations : RowMove(a)

\* A write of one row is a move when that row moves.
LEMMA WrittenRow ==
    ASSUME TypeOK, NEW a \in Allocations, NEW rows, Writes(rows, a), row' \in {row, rows},
           row' = rows => RowMove(a)
    PROVE  RowMoves
  <1>1. row \in [Allocations -> Row]
    BY DEF TypeOK
  <1>2. CASE row' = row
    BY <1>1, <1>2 DEF RowMoves, RowMove
  <1>3. CASE row' = rows
    BY <1>3 DEF RowMoves, RowMove, Writes
  <1> QED BY <1>2, <1>3

\* No row is written.
LEMMA SameRow ==
    ASSUME TypeOK, row' = row
    PROVE  RowMoves
  BY DEF RowMoves, RowMove, TypeOK

\* An owned row is in use.
LEMMA OwnedRow ==
    ASSUME TypeOK, RowInv, NEW a \in Allocations, NEW c \in Controllers, Owns(c, a)
    PROVE  row[a].state # "none"
  BY NothingAssumption DEF RowInv, Owns, Unused

\* Reserve admits an unused row when nothing lives, or leaves the row.
LEMMA ReserveRow ==
    ASSUME TypeOK, NEW c \in Controllers, Reserve(c)
    PROVE  RowMoves
  <1> DEFINE a == job[c].a
  <1>1. a \in Allocations /\ job[c].pc \in Steps
    BY JobRead DEF Reserve, At, Steps
  <1>2. CASE row' = row
    BY <1>2, SameRow
  <1>3. CASE row' # row
    <2>1. Admitted(c, a) /\ row[a].state = "none" /\ row' = Reserved(c, a)
      BY <1>3 DEF Reserve
    <2>2. Live = {}
      BY <1>1, <2>1 DEF Admitted
    <2>3. Writes(Reserved(c, a), a) /\ Reserves(a)
      BY <1>1, <2>1, <2>2, NamedWrites DEF Reserves, Writes
    <2> QED BY <1>1, <2>1, <2>3, WrittenRow DEF RowMove
  <1> QED BY <1>2, <1>3

\* The writes of a creation under way.
LEMMA CreationRows ==
    ASSUME TypeOK, RowInv, ProcessInv, NEW c \in Controllers,
           SetMaterializing(c) \/ BeginCreation(c) \/ StoreAllocated(c)
    PROVE  RowMoves
  <1> DEFINE a == job[c].a
  <1>1. a \in Allocations /\ job[c].pc \in Steps /\ row[a] \in Row
        /\ {"materialize", "begin", "post", "store", "register", "unsure", "fail", "release"}
             \subseteq Steps
    BY JobRead DEF SetMaterializing, BeginCreation, StoreAllocated, At, Steps
  <1>2. CASE SetMaterializing(c)
    <2> DEFINE rows == [row EXCEPT ![a].state = "materializing"]
    <2>1. row' = row \/ (Settable(c, a, "materializing") /\ row' = rows)
      BY <1>1, <1>2, ChangeMeans DEF SetMaterializing, Set
    <2>2. CASE row' = row
      BY <2>2, SameRow
    <2>3. CASE Settable(c, a, "materializing") /\ row' = rows
      <3>1. Writes(rows, a) /\ rows[a].state = "materializing" /\ rows[a].issued = row[a].issued
            /\ rows[a].closed = row[a].closed /\ rows[a].capsule = row[a].capsule
        <4>1. "materializing" \in RowStates
          BY DEF RowStates
        <4> QED BY <1>1, <4>1, WriteFields
      <3> HIDE DEF rows
      <3>2. row[a].state # "none" /\ row[a].state # "released" /\ ~row[a].closed
        BY <1>1, <2>3, OwnedRow DEF Settable
      <3>3. Keeps(a)
        BY <1>1, <2>3, <3>1, <3>2 DEF Keeps, RowInv, Issued
      <3> QED BY <1>1, <2>3, <3>1, <3>3, WrittenRow DEF RowMove
    <2> QED BY <2>1, <2>2, <2>3
  <1>3. CASE BeginCreation(c)
    <2> DEFINE rows == [row EXCEPT ![a].issued = TRUE]
    <2>1. CASE row' = row
      BY <2>1, SameRow
    <2>2. CASE row' # row
      <3>1. /\ ~row[a].closed /\ row[a].state \in {"reserved", "materializing", "unknown"}
            /\ Owned(c, rows, "post", "unsure")
        BY <1>3, <2>2 DEF BeginCreation
      <3>2. row' = rows /\ job'[c].pc \in {"post", "unsure"}
        <4> HIDE DEF rows
        <4>0. "post" \in Steps /\ "unsure" \in Steps
          BY DEF Steps
        <4>1. row' \in {row, rows} /\ (job'[c].pc = "post" \/ job'[c].pc = "unsure")
          <5>1. Owned(c, rows, "post", "unsure") /\ job[c].pc \in Steps
            BY <1>1, <3>1
          <5> QED BY <4>0, <5>1, OwnedMeans, ZenonT(40)
        <4> QED BY <2>2, <4>1
      <3>3. Issues(c, a)
        BY <1>3, <3>2 DEF Issues, BeginCreation, At
      <3>4. /\ Writes(rows, a) /\ rows[a].state = row[a].state /\ rows[a].issued
            /\ rows[a].closed = row[a].closed /\ rows[a].capsule = row[a].capsule
        BY <1>1, WriteFields
      <3> HIDE DEF rows
      <3>5. Keeps(a)
        BY <1>1, <3>1, <3>2, <3>3, <3>4 DEF Keeps
      <3> QED BY <1>1, <3>2, <3>4, <3>5, WrittenRow DEF RowMove
    <2> QED BY <2>1, <2>2
  <1>4. CASE StoreAllocated(c)
    <2> DEFINE rows == Allocated(a)
    <2>1. row' = row \/ (Settable(c, a, "allocated") /\ row' = rows)
      BY <1>1, <1>4, ChangeMeans DEF StoreAllocated, Set
    <2>2. CASE row' = row
      BY <2>2, SameRow
    <2>3. CASE Settable(c, a, "allocated") /\ row' = rows
      <3>1. Writes(rows, a) /\ rows[a].state = "allocated" /\ rows[a].issued = row[a].issued
            /\ rows[a].closed = row[a].closed
        BY <1>1, NamedWrites
      <3> HIDE DEF rows
      <3>2. row[a].state # "none" /\ row[a].state # "released" /\ ~row[a].closed
        BY <1>1, <2>3, OwnedRow DEF Settable
      <3>3. row[a].issued
        BY <1>4 DEF StoreAllocated, At, ProcessInv, Working, Issued
      <3>4. Keeps(a)
        BY <1>1, <2>3, <3>1, <3>2, <3>3 DEF Keeps
      <3> QED BY <1>1, <2>3, <3>1, <3>4, WrittenRow DEF RowMove
    <2> QED BY <2>1, <2>2, <2>3
  <1> QED BY <1>2, <1>3, <1>4

\* A row that is in use and whose allocation is neither issued nor released by
\* the write.
LEMMA KeptRow ==
    ASSUME TypeOK, RowInv, NEW a \in Allocations, NEW rows, Writes(rows, a), row' \in {row, rows},
           row[a].state \notin {"none", "released"}, rows[a].state \notin {"none", "released"},
           rows[a].issued = row[a].issued,
           rows[a].capsule => row[a].capsule \/ row[a].issued,
           rows[a].closed => row[a].closed /\ rows[a].state \in {"cleaning", "unknown"},
           row[a].closed => rows[a].closed
    PROVE  RowMoves
  <1>1. row' = rows => Keeps(a)
    BY DEF Keeps, RowInv, Issued
  <1> QED BY <1>1, WrittenRow DEF RowMove

\* The claims of the maintenance loops.
LEMMA ClaimRows ==
    ASSUME TypeOK, RowInv, NEW c \in Controllers, NEW a \in Allocations, Claims(c, a)
    PROVE  RowMoves
  <1>1. row \in [Allocations -> Row] /\ row[a] \in Row
    BY DEF TypeOK
  <1>2. CASE ClaimRecoverable(c, a)
    <2> DEFINE r == [row[a] EXCEPT !.owner = c]
               rows == [row EXCEPT ![a] = r]
    <2>1. row' = rows /\ row[a].state \in {"allocated", "unknown", "materializing"} /\ ~row[a].closed
      BY <1>2 DEF ClaimRecoverable, Claim, Recoverable
    <2>2. /\ Writes(rows, a) /\ rows[a].state = row[a].state /\ rows[a].issued = row[a].issued
          /\ rows[a].closed = row[a].closed /\ rows[a].capsule = row[a].capsule
      BY <1>1 DEF Row, Writes
    <2> HIDE DEF rows
    <2> QED BY <2>1, <2>2, KeptRow
  <1>3. CASE ClaimOrphaned(c, a)
    <2> DEFINE r == [row[a] EXCEPT !.owner = c, !.state = "cleaning"]
               rows == [row EXCEPT ![a] = r]
    <2>1. row' = rows /\ row[a].state \in {"unknown", "cleaning"}
      BY <1>3 DEF ClaimOrphaned, Claim
    <2>2. /\ Writes(rows, a) /\ rows[a].state = "cleaning" /\ rows[a].issued = row[a].issued
          /\ rows[a].closed = row[a].closed /\ rows[a].capsule = row[a].capsule
      BY <1>1 DEF Row, RowStates, Writes
    <2> HIDE DEF rows
    <2> QED BY <2>1, <2>2, KeptRow
  <1>4. CASE ClaimUnbound(c, a)
    <2> DEFINE r == [row[a] EXCEPT !.state = "cleaning", !.unconfirmed = FALSE]
               rows == [row EXCEPT ![a] = r]
    <2>1. row' = rows /\ row[a].state \in {"reserved", "materializing", "allocated"}
      BY <1>4 DEF ClaimUnbound, Claim
    <2>2. /\ Writes(rows, a) /\ rows[a].state = "cleaning" /\ rows[a].issued = row[a].issued
          /\ rows[a].closed = row[a].closed /\ rows[a].capsule = row[a].capsule
      BY <1>1 DEF Row, RowStates, Writes
    <2> HIDE DEF rows
    <2> QED BY <2>1, <2>2, KeptRow
  <1> QED BY <1>2, <1>3, <1>4 DEF Claims

\* A dead controller's allocation becomes doubtful.
LEMMA ReconcileRow ==
    ASSUME TypeOK, RowInv, NEW a \in Allocations, ReconcileOwner(a)
    PROVE  RowMoves
  <1> DEFINE rows == [row EXCEPT ![a].state = "unknown", ![a].unconfirmed = FALSE]
  <1>1. row' = rows /\ row[a].state \in {"reserved", "materializing", "allocated"}
    BY DEF ReconcileOwner
  <1>2. /\ Writes(rows, a) /\ rows[a].state = "unknown" /\ rows[a].issued = row[a].issued
        /\ rows[a].closed = row[a].closed /\ rows[a].capsule = row[a].capsule
    <2>1. "unknown" \in RowStates /\ FALSE \in BOOLEAN
      BY DEF RowStates
    <2> QED BY <2>1, WriteFields
  <1> HIDE DEF rows
  <1> QED BY <1>1, <1>2, KeptRow

\* A recovery that restored its runtime.
LEMMA RestoreRow ==
    ASSUME TypeOK, RowInv, ProcessInv, NEW c \in Controllers, Restore(c)
    PROVE  RowMoves
  <1> DEFINE a == job[c].a
  <1>1. a \in Allocations /\ job[c].pc = "restore"
    BY JobRead DEF Restore, At, Steps
  <1>2. row' = row \/ (Settable(c, a, "allocated") /\ row' = Allocated(a))
    BY DEF Restore
  <1>3. CASE row' = row
    BY <1>3, SameRow
  <1>4. CASE Settable(c, a, "allocated") /\ row' = Allocated(a)
    <2>1. row[a].state \notin {"none", "released"} /\ ~row[a].closed
      BY <1>1, <1>4, OwnedRow DEF Settable
    <2>2. row[a].issued
      BY <1>1 DEF ProcessInv, Working, Issued
    <2>3. Writes(Allocated(a), a) /\ Allocated(a)[a].state = "allocated"
          /\ Allocated(a)[a].issued = row[a].issued /\ Allocated(a)[a].closed = row[a].closed
      BY <1>1, NamedWrites
    <2> QED BY <1>1, <1>4, <2>1, <2>2, <2>3, KeptRow
  <1> QED BY <1>2, <1>3, <1>4

\* An allocation is closed; a released one stays released.
LEMMA CloseRow ==
    ASSUME TypeOK, RowInv, NEW c \in Controllers, CloseAllocation(c)
    PROVE  RowMoves
  <1> DEFINE a == job[c].a
             rows == Closing(a)
  <1>1. a \in Allocations /\ job[c].pc \in Steps
    BY JobRead DEF CloseAllocation, At, Steps
  <1>2. row' = row \/ (Owns(c, a) /\ row' = rows)
    <2>1. PICK next \in Steps, failed \in Steps : Change(c, Owns(c, a), rows, next, failed)
      BY DEF CloseAllocation, Steps
    <2> HIDE DEF rows
    <2> QED BY <1>1, <2>1, ChangeMeans
  <1>3. CASE row' = row
    BY <1>3, SameRow
  <1>4. CASE Owns(c, a) /\ row' = rows
    <2>1. row[a].state # "none"
      BY <1>1, <1>4, OwnedRow
    <2>2. /\ Writes(rows, a) /\ rows[a].closed
          /\ rows[a].state = IF row[a].state = "released" THEN "released" ELSE "cleaning"
          /\ rows[a].issued = row[a].issued /\ rows[a].capsule = row[a].capsule
      BY <1>1, NamedWrites
    <2> HIDE DEF rows
    <2>3. Keeps(a)
      BY <1>1, <1>4, <2>1, <2>2 DEF Keeps, RowInv, Issued
    <2> QED BY <1>1, <1>4, <2>2, <2>3, WrittenRow DEF RowMove
  <1> QED BY <1>2, <1>3, <1>4

\* A release.
LEMMA ReleaseRow ==
    ASSUME TypeOK, RowInv, NEW c \in Controllers, Release(c)
    PROVE  RowMoves
  <1> DEFINE a == job[c].a
             rows == Released(a)
  <1>1. a \in Allocations /\ job[c].pc = "release" /\ job[c].pc \in Steps /\ cube' = cube
    BY JobRead DEF Release, At, Steps, physical
  <1>2. row' = row \/ (Settable(c, a, "released") /\ row' = rows)
    <2>1. PICK next \in Steps, failed \in Steps :
            Change(c, Settable(c, a, "released"), rows, next, failed)
      BY DEF Release, Set, Steps
    <2> HIDE DEF rows
    <2> QED BY <1>1, <2>1, ChangeMeans
  <1>3. CASE row' = row
    BY <1>3, SameRow
  <1>4. CASE Settable(c, a, "released") /\ row' = rows
    <2>1. row[a].state \notin {"none", "released"}
      BY <1>1, <1>4, OwnedRow DEF Settable
    <2>2. /\ Writes(rows, a) /\ rows[a].state = "released" /\ ~rows[a].capsule
          /\ rows[a].issued = row[a].issued /\ rows[a].closed = row[a].closed
      BY <1>1, NamedWrites
    <2> HIDE DEF rows
    <2>3. Keeps(a)
      BY <1>1, <1>4, <2>1, <2>2 DEF Keeps
    <2> QED BY <1>1, <1>4, <2>2, <2>3, WrittenRow DEF RowMove
  <1> QED BY <1>2, <1>3, <1>4

\* A doubtful operation, and a runtime that was lost.
LEMMA UnknownRows ==
    ASSUME TypeOK, RowInv, NEW c \in Controllers, SetUnknown(c) \/ RuntimeLost(c)
    PROVE  RowMoves
  <1>1. ASSUME NEW a \in Allocations, NEW u \in BOOLEAN, Settable(c, a, "unknown"),
               row' = [row EXCEPT ![a].state = "unknown", ![a].unconfirmed = u]
        PROVE  RowMoves
    <2> DEFINE rows == [row EXCEPT ![a].state = "unknown", ![a].unconfirmed = u]
    <2>1. row[a].state \notin {"none", "released"}
      BY <1>1, OwnedRow DEF Settable
    <2>2. /\ Writes(rows, a) /\ rows[a].state = "unknown" /\ rows[a].issued = row[a].issued
          /\ rows[a].closed = row[a].closed /\ rows[a].capsule = row[a].capsule
      <3>1. "unknown" \in RowStates
        BY DEF RowStates
      <3> QED BY <3>1, WriteFields, ZenonT(40)
    <2>3. row' = rows
      BY <1>1
    <2> HIDE DEF rows
    <2> QED BY <2>1, <2>2, <2>3, KeptRow
  <1>2. CASE SetUnknown(c)
    <2> DEFINE a == job[c].a
    <2>1. a \in Allocations /\ job[c].pc \in Steps
      BY <1>2, JobRead DEF SetUnknown, At, Steps
    <2>2. PICK u \in BOOLEAN : u = (job[c].op = "recover")
      OBVIOUS
    <2> DEFINE rows == [row EXCEPT ![a].state = "unknown", ![a].unconfirmed = u]
    <2>3. row' = row \/ (Settable(c, a, "unknown") /\ row' = rows)
      <3>1. Change(c, Settable(c, a, "unknown"), rows, "fail", "fail") /\ "fail" \in Steps
        BY <1>2, <2>2 DEF SetUnknown, Set, Steps
      <3> HIDE DEF rows
      <3> QED BY <2>1, <3>1, ChangeMeans
    <2> QED BY <1>1, <2>1, <2>3, SameRow
  <1>3. CASE RuntimeLost(c)
    <2> DEFINE a == mem[c].a
    <2>1. CASE row' = row
      BY <2>1, SameRow
    <2>2. CASE Settable(c, a, "unknown") /\ row' = Lost(a)
      <3>1. CASE a \in Allocations
        BY <1>1, <2>2, <3>1 DEF Lost
      <3>2. CASE a \notin Allocations
        <4>1. row' = row
          BY <2>2, <3>2 DEF Lost, TypeOK
        <4> QED BY <4>1, SameRow
      <3> QED BY <3>1, <3>2
    <2> QED BY <1>3, <2>1, <2>2 DEF RuntimeLost
  <1> QED BY <1>2, <1>3

\* Every step moves the rows so.
LEMMA RowSteps ==
    ASSUME TypeOK, RowInv, ProcessInv, [Next]_vars
    PROVE  RowMoves
  <1>1. CASE row' = row
    BY <1>1, SameRow
  <1>2. ASSUME NEW c \in Controllers,
               \/ Creation(c) \/ Maintenance(c) \/ Request(c) \/ ReleaseBinding(c) \/ RuntimeLost(c)
               \/ LeaseExpires(c) \/ Crash(c) \/ \E a \in Allocations : Claims(c, a)
        PROVE  RowMoves
    BY <1>1, <1>2, ReserveRow, CreationRows, ClaimRows, RestoreRow, CloseRow, ReleaseRow,
       UnknownRows
       DEF Creation, Maintenance, Request, StartCreate, PostCreate, Created, Register, EndFailed,
           ReleaseBinding, StartRecover, StartRetire, Adopt, Destroy, Unbind, LeaseExpires, Crash,
           database
  <1>3. ASSUME NEW a \in Allocations, ReconcileOwner(a) \/ CubeCreates(a) \/ CubeRetires(a)
        PROVE  RowMoves
    BY <1>1, <1>3, ReconcileRow DEF CubeCreates, CubeRetires, database
  <1>4. CASE RunStarts \/ RunEnds \/ LastConversationEnds \/ UNCHANGED vars
    BY <1>1, <1>4 DEF RunStarts, RunEnds, LastConversationEnds, database, vars
  <1> QED BY <1>2, <1>3, <1>4 DEF Next

-----------------------------------------------------------------------------
(* What stays true of an allocation.                                         *)

\* Facts every step keeps: an issued creation, a closure, a machine that is gone;
\* a machine comes only from a request on its way, a request only from an
\* operation at "post".
LEMMA Monotone ==
    ASSUME TypeOK, RowInv, ProcessInv, [Next]_vars, NEW a \in Allocations
    PROVE  /\ Issued(a) => Issued(a)'
           /\ row[a].closed => row'[a].closed
           /\ cube[a] = "gone" => cube'[a] = "gone"
           /\ cube'[a] = "alive" => cube[a] = "alive" \/ a \in posts
           /\ a \in posts' => a \in posts \/ \E c \in Controllers : job[c].pc = "post"
                                                                  /\ job[c].a = a
  <1>1. /\ Issued(a) => Issued(a)'
        /\ row[a].closed => row'[a].closed
    <2>1. RowMove(a)
      BY RowSteps DEF RowMoves
    <2>2. row[a].state = "none" => ~row[a].issued /\ ~row[a].closed
      BY DEF RowInv, Unused
    <2> QED BY <2>1, <2>2 DEF RowMove, Reserves, Keeps, Issued
  <1> DEFINE Goal == /\ cube[a] = "gone" => cube'[a] = "gone"
                     /\ cube'[a] = "alive" => cube[a] = "alive" \/ a \in posts
                     /\ a \in posts' => a \in posts \/ \E c \in Controllers :
                                          job[c].pc = "post" /\ job[c].a = a
  <1>2. CASE UNCHANGED physical
    BY <1>1, <1>2 DEF physical
  <1>3. ASSUME NEW c \in Controllers, PostCreate(c) PROVE Goal
    BY <1>3 DEF PostCreate, At
  <1>4. ASSUME NEW c \in Controllers, Destroy(c) PROVE Goal
    BY <1>4 DEF Destroy, TypeOK
  <1>5. ASSUME NEW b \in Allocations, CubeCreates(b) PROVE Goal
    BY <1>5 DEF CubeCreates, TypeOK
  <1>6. ASSUME NEW b \in Allocations, CubeRetires(b) PROVE Goal
    BY <1>6 DEF CubeRetires, TypeOK
  <1>7. ASSUME NEW c \in Controllers,
               \/ Creation(c) /\ ~PostCreate(c)
               \/ Maintenance(c) /\ ~Destroy(c)
               \/ Request(c) \/ ReleaseBinding(c) \/ RuntimeLost(c) \/ LeaseExpires(c) \/ Crash(c)
               \/ \E b \in Allocations : Claims(c, b)
        PROVE  UNCHANGED physical
    BY <1>7 DEF Creation, Maintenance, Request, StartCreate, Reserve, SetMaterializing,
                BeginCreation, Created, StoreAllocated, Register, EndFailed, ReleaseBinding,
                StartRecover, StartRetire, Adopt, Restore, CloseAllocation, Unbind, Release,
                SetUnknown, RuntimeLost, LeaseExpires, Crash, Claims, ClaimRecoverable,
                ClaimOrphaned, ClaimUnbound, physical
  <1>8. ASSUME NEW b \in Allocations, ReconcileOwner(b) PROVE UNCHANGED physical
    BY <1>8 DEF ReconcileOwner
  <1>9. CASE RunStarts \/ RunEnds \/ LastConversationEnds \/ UNCHANGED vars
    BY <1>2, <1>9 DEF RunStarts, RunEnds, LastConversationEnds, vars
  <1> QED BY <1>1, <1>2, <1>3, <1>4, <1>5, <1>6, <1>7, <1>8, <1>9 DEF Next

\* Nothing is issued that is closed or released, nor the allocation of a creation
\* that is not at the transaction that issues it.
LEMMA NotIssuedStays ==
    ASSUME MachineInv, [Next]_vars, NEW a \in Allocations, ~Issued(a),
           \/ row[a].closed \/ row[a].state = "released"
           \/ \E d \in Controllers : job[d].op = "create" /\ job[d].a = a /\ ~Issues(d, a)
    PROVE  ~Issued(a)'
  <1> SUFFICES ASSUME Issued(a)' PROVE FALSE
    OBVIOUS
  <1>0. TypeOK /\ RowInv /\ ProcessInv /\ AloneInv
    BY DEF MachineInv
  <1>1. Keeps(a)
    BY <1>0, RowSteps DEF RowMoves, RowMove, Reserves, Issued
  <1>2. ~row[a].closed /\ row[a].state # "released"
    BY <1>1 DEF Keeps, Issued
  <1>3. PICK c \in Controllers : Issues(c, a)
    BY <1>1 DEF Keeps, Issued
  <1>4. PICK d \in Controllers : job[d].op = "create" /\ job[d].a = a /\ ~Issues(d, a)
    BY <1>2
  <1>5. job[c].op = "create" /\ job[c].a = a
    <2>1. job[c].pc = "begin" /\ job[c].a = a
      BY <1>3 DEF Issues
    <2>2. job[c].op \in {"create", "recover", "retire"}
      BY <1>0, <2>1, JobRead DEF Steps
    <2>3. job[c].op # "retire" /\ job[c].op # "recover"
      BY <1>0, <2>1 DEF ProcessInv, Working
    <2> QED BY <2>1, <2>2, <2>3
  <1>6. c = d
    BY <1>0, <1>4, <1>5 DEF AloneInv
  <1> QED BY <1>3, <1>4, <1>6

\* What a process holds stays issued as long as it holds the same.
LEMMA HoldingStays ==
    ASSUME MachineInv, [Next]_vars, NEW d \in Controllers, mem'[d] = mem[d],
           job'[d].op = job[d].op, job'[d].a = job[d].a
    PROVE  Holding(d)'
  <1>1. TypeOK /\ RowInv /\ ProcessInv /\ Holding(d)
    BY DEF MachineInv, ProcessInv
  <1>2. mem[d].handle => mem[d].a \in Allocations /\ Issued(mem[d].a)
    BY <1>1 DEF Holding
  <1>3. mem'[d].handle => mem'[d].a \in Allocations /\ row'[mem'[d].a].issued
    BY <1>1, <1>2, Monotone DEF Issued
  <1> QED BY <1>1, <1>3 DEF Holding, Issued

\* What an operation knows stays true as long as it stays where it is.
LEMMA WorkingStays ==
    ASSUME MachineInv, [Next]_vars, NEW d \in Controllers, job'[d] = job[d],
           mem'[d].handle = mem[d].handle,
           mem'[d].bound => mem[d].bound \/ mem[d].handle,
           mem'[d].warm => mem[d].warm \/ mem[d].handle
    PROVE  Working(d)'
  <1>1. TypeOK /\ RowInv /\ ProcessInv /\ Working(d)
    BY DEF MachineInv, ProcessInv
  <1>2. CASE job[d] = Idle
    BY <1>2 DEF Working, Idle
  <1>3. CASE job[d] # Idle
    <2> DEFINE a == job[d].a
    <2>1. a \in Allocations /\ job[d].pc \in Steps
      BY <1>1, <1>3, JobRead
    <2>2. ~Issues(d, a)
      BY DEF Issues
    <2>3. /\ Issued(a) => row'[a].issued
          /\ row[a].closed => row'[a].closed
          /\ cube[a] = "gone" => cube'[a] = "gone"
      BY <1>1, <2>1, Monotone DEF Issued
    <2>4. ~Issued(a) /\ (row[a].closed \/ job[d].op = "create") => ~row'[a].issued
      BY <2>1, <2>2, NotIssuedStays DEF Issued
    <2> QED BY <1>1, <2>3, <2>4 DEF Working, Issued
  <1> QED BY <1>2, <1>3

\* A claim stays one of an issued allocation.
LEMMA ClaimedStays ==
    ASSUME MachineInv, [Next]_vars, NEW d \in Controllers, queue'[d] = queue[d]
    PROVE  Claimed(d)'
  <1>1. TypeOK /\ RowInv /\ ProcessInv /\ Claimed(d)
    BY DEF MachineInv, ProcessInv
  <1>2. \A k \in DOMAIN queue[d] : queue[d][k].op = "recover" => queue[d][k].a \in Allocations
    BY <1>1 DEF TypeOK, Ticket
  <1>3. \A k \in DOMAIN queue[d] : queue[d][k].op = "recover" => row'[queue[d][k].a].issued
    BY <1>1, <1>2, Monotone DEF Claimed, Issued
  <1> QED BY <1>3 DEF Claimed, Issued

-----------------------------------------------------------------------------
(* What a step does in a process.                                            *)

Typed ==
    /\ job' \in [Controllers -> Job] /\ mem' \in [Controllers -> Memory]
    /\ queue' \in [Controllers -> Seq(Ticket)]

Others(c) ==
    \A d \in Controllers : d # c => job'[d] = job[d] /\ mem'[d] = mem[d] /\ queue'[d] = queue[d]

\* A creation takes up an allocation that no other one has, or an issued one.
Alone(c) ==
    job'[c].op = "create" => \/ job[c].op = "create" /\ job'[c].a = job[c].a
                             \/ row'[job'[c].a].issued
                             \/ \A d \in Controllers : d # c => job[d].a # job'[c].a

ProcessStep(c) ==
    Typed /\ Others(c) /\ Holding(c)' /\ Working(c)' /\ Claimed(c)' /\ Alone(c)

\* The step of an operation that goes on and leaves what the process holds.
LEMMA GoingStep ==
    ASSUME MachineInv, [Next]_vars, NEW c \in Controllers, UNCHANGED <<mem, queue>>,
           job' \in [Controllers -> Job], job'[c].op = job[c].op, job'[c].a = job[c].a,
           \A d \in Controllers : d # c => job'[d] = job[d],
           Working(c)'
    PROVE  ProcessStep(c)
  <1>1. Holding(c)' /\ Claimed(c)'
    BY HoldingStays, ClaimedStays
  <1>2. Typed /\ Others(c)
    BY DEF Typed, Others, MachineInv, TypeOK
  <1> QED BY <1>1, <1>2 DEF ProcessStep, Alone

\* Where an operation that gives up, or closes its allocation, goes.
LEMMA PlainWorking ==
    ASSUME MachineInv, [Next]_vars, NEW c \in Controllers, job[c].pc \in Steps,
           job'[c].op = job[c].op, job'[c].a = job[c].a,
           job'[c].pc \in {"unsure", "fail", "close", "destroy"}
    PROVE  Working(c)'
  <1>1. TypeOK /\ RowInv /\ ProcessInv /\ Working(c) /\ job[c].a \in Allocations
    BY JobRead DEF MachineInv, ProcessInv
  <1>2. job[c].op = "recover" => row'[job[c].a].issued
    BY <1>1, Monotone DEF Working, Issued
  <1> QED BY <1>2 DEF Working, Issued

\* An operation that ends leaves a runtime the process has a use for, or none.
LEMMA EndingStep ==
    ASSUME MachineInv, [Next]_vars, NEW c \in Controllers, NEW m \in Memory, Finish(c, m),
           queue' = queue,
           m.handle => m.a \in Allocations /\ Issued(m.a),
           m.a = Nothing => ~m.bound /\ ~m.warm,
           m.bound \/ m.warm => m.handle
    PROVE  ProcessStep(c)
  <1>1. TypeOK /\ RowInv /\ ProcessInv
    BY DEF MachineInv
  <1>2. /\ job' \in [Controllers -> Job] /\ mem' \in [Controllers -> Memory]
        /\ job'[c] = Idle /\ mem'[c] = Settled(m)
        /\ \A d \in Controllers : d # c => job'[d] = job[d] /\ mem'[d] = mem[d]
    BY <1>1, FinishMeans
  <1>3. m.handle => row'[m.a].issued
    BY <1>1, Monotone DEF Issued
  <1>4. Holding(c)'
    <2>1. CASE m.bound \/ m.warm
      BY <1>2, <1>3, <2>1 DEF Holding, Settled, Idle, Issued
    <2>2. CASE ~(m.bound \/ m.warm)
      <3>1. mem'[c] = Empty
        BY <1>2, <2>2 DEF Settled
      <3> QED BY <1>2, <3>1 DEF Holding, Empty, Idle
    <2> QED BY <2>1, <2>2
  <1>5. Working(c)' /\ Alone(c)
    BY <1>2 DEF Working, Alone, Idle
  <1>6. Claimed(c)'
    BY ClaimedStays
  <1>7. Typed /\ Others(c)
    BY <1>1, <1>2 DEF Typed, Others, TypeOK
  <1> QED BY <1>4, <1>5, <1>6, <1>7 DEF ProcessStep

\* The first operation of the queue gets the turn.
LEMMA TurnMeans ==
    ASSUME MachineInv, [Next]_vars, NEW c \in Controllers, NEW op, Turn(c, op)
    PROVE  /\ queue' \in [Controllers -> Seq(Ticket)]
           /\ \A d \in Controllers : d # c => queue'[d] = queue[d]
           /\ Claimed(c)' /\ job[c] = Idle
           /\ Head(queue[c]) \in Ticket /\ Head(queue[c]).op = op
           /\ op = "recover" => Issued(Head(queue[c]).a)
  <1>1. TypeOK /\ RowInv /\ ProcessInv /\ Claimed(c)
    BY DEF MachineInv, ProcessInv
  <1>2. queue[c] \in Seq(Ticket) /\ queue[c] # <<>> /\ queue \in [Controllers -> Seq(Ticket)]
    BY <1>1 DEF TypeOK, Turn
  <1>3. /\ Head(queue[c]) = queue[c][1] /\ 1 \in DOMAIN queue[c] /\ queue[c][1] \in Ticket
        /\ Tail(queue[c]) \in Seq(Ticket)
        /\ \A k \in DOMAIN Tail(queue[c]) :
             k + 1 \in DOMAIN queue[c] /\ Tail(queue[c])[k] = queue[c][k + 1]
    BY <1>2
  <1>4. queue' = [queue EXCEPT ![c] = Tail(queue[c])] /\ Head(queue[c]).op = op
    BY DEF Turn
  <1>5. queue'[c] = Tail(queue[c])
    BY <1>2, <1>4
  <1>6. Claimed(c)'
    <2> SUFFICES ASSUME NEW k \in DOMAIN Tail(queue[c]), Tail(queue[c])[k].op = "recover"
                 PROVE  row'[Tail(queue[c])[k].a].issued
      BY <1>5 DEF Claimed, Issued
    <2>1. PICK t \in Ticket : t = Tail(queue[c])[k]
      BY <1>3
    <2>2. t = queue[c][k + 1] /\ k + 1 \in DOMAIN queue[c]
      BY <1>3, <2>1
    <2>3. t.a \in Allocations /\ Issued(t.a)
      BY <1>1, <2>1, <2>2 DEF Ticket, Claimed
    <2> QED BY <1>1, <2>1, <2>3, Monotone DEF Issued
  <1>7. op = "recover" => Issued(Head(queue[c]).a)
    BY <1>1, <1>3, <1>4 DEF Claimed
  <1> QED BY <1>2, <1>3, <1>4, <1>6, <1>7 DEF Turn

\* An operation joins the queue.
LEMMA JoinMeans ==
    ASSUME MachineInv, [Next]_vars, NEW c \in Controllers, NEW t \in Ticket,
           queue' = [queue EXCEPT ![c] = Append(@, t)],
           t.op = "recover" => Issued(t.a)
    PROVE  /\ queue' \in [Controllers -> Seq(Ticket)]
           /\ \A d \in Controllers : d # c => queue'[d] = queue[d]
           /\ Claimed(c)'
  <1>1. TypeOK /\ RowInv /\ ProcessInv /\ Claimed(c)
    BY DEF MachineInv, ProcessInv
  <1>2. queue[c] \in Seq(Ticket) /\ queue \in [Controllers -> Seq(Ticket)]
    BY <1>1 DEF TypeOK
  <1>3. queue'[c] = Append(queue[c], t) /\ Append(queue[c], t) \in Seq(Ticket)
    BY <1>2
  <1>4. \A k \in DOMAIN queue'[c] :
          \/ k \in DOMAIN queue[c] /\ queue'[c][k] = queue[c][k]
          \/ queue'[c][k] = t
    BY <1>2, <1>3
  <1>5. \A k \in DOMAIN queue[c] : queue[c][k].op = "recover" =>
          queue[c][k].a \in Allocations /\ Issued(queue[c][k].a)
    BY <1>1, <1>2 DEF Ticket, Claimed
  <1>6. t.op = "recover" => t.a \in Allocations
    BY DEF Ticket
  <1>7. \A k \in DOMAIN queue'[c] : queue'[c][k].op = "recover" => row'[queue'[c][k].a].issued
    BY <1>1, <1>4, <1>5, <1>6, Monotone DEF Issued
  <1> QED BY <1>2, <1>3, <1>7 DEF Claimed, Issued


-----------------------------------------------------------------------------
(* The steps of a creation.                                                  *)

\* A row about to materialize is not issued.
LEMMA SetMaterializingStep ==
    ASSUME MachineInv, [Next]_vars, NEW c \in Controllers, SetMaterializing(c)
    PROVE  ProcessStep(c) /\ faults' \in 0..MaxFaults
  <1> DEFINE a == job[c].a
  <1>1. TypeOK /\ RowInv /\ ProcessInv /\ Working(c)
    BY DEF MachineInv, ProcessInv
  <1>2. job[c].pc = "materialize" /\ job[c].op = "create" /\ UNCHANGED <<mem, queue>>
    BY <1>1 DEF SetMaterializing, At, Working
  <1>3. a \in Allocations /\ job[c].pc \in Steps
    BY <1>1, <1>2, JobRead DEF Steps
  <1>4. /\ job' \in [Controllers -> Job] /\ job'[c].op = job[c].op /\ job'[c].a = job[c].a
        /\ job'[c].pc \in {"begin", "fail"} /\ faults' \in 0..MaxFaults
        /\ \A d \in Controllers : d # c => job'[d] = job[d]
    <2> DEFINE rows == [row EXCEPT ![a].state = "materializing"]
    <2>1. Change(c, Settable(c, a, "materializing"), rows, "begin", "fail")
      BY DEF SetMaterializing, Set
    <2>2. "begin" \in Steps /\ "fail" \in Steps
      BY DEF Steps
    <2> HIDE DEF rows
    <2> QED BY <1>1, <1>3, <2>1, <2>2, ChangeMeans
  <1>5. Working(c)'
    <2>1. CASE job'[c].pc = "fail"
      BY <1>3, <1>4, <2>1, PlainWorking
    <2>2. CASE job'[c].pc = "begin"
      <3>1. ~Issued(a) /\ ~Issues(c, a)
        BY <1>1, <1>2 DEF Working, Issues
      <3>2. ~row'[a].issued
        BY <1>2, <1>3, <3>1, NotIssuedStays DEF Issued
      <3> QED BY <1>2, <1>4, <2>2, <3>2 DEF Working, Issued
    <2> QED BY <1>4, <2>1, <2>2
  <1> QED BY <1>2, <1>4, <1>5, GoingStep

\* A creation is issued before its request leaves, or was turned away unissued.
LEMMA BeginCreationStep ==
    ASSUME MachineInv, [Next]_vars, NEW c \in Controllers, BeginCreation(c)
    PROVE  ProcessStep(c) /\ faults' \in 0..MaxFaults
  <1> DEFINE a == job[c].a
             rows == [row EXCEPT ![a].issued = TRUE]
  <1>1. TypeOK /\ RowInv /\ ProcessInv /\ Working(c)
    BY DEF MachineInv, ProcessInv
  <1>2. job[c].pc = "begin" /\ UNCHANGED <<mem, queue>>
    BY DEF BeginCreation, At
  <1>3. a \in Allocations /\ job[c].pc \in Steps
    BY <1>1, <1>2, JobRead DEF Steps
  <1>4. "post" \in Steps /\ "unsure" \in Steps /\ "release" \in Steps
    BY DEF Steps
  <1>5. rows[a].issued
    BY <1>1, <1>3 DEF TypeOK, Row
  <1>6. /\ job' \in [Controllers -> Job] /\ job'[c].op = job[c].op /\ job'[c].a = job[c].a
        /\ \/ job'[c].pc = "post" /\ row' = rows
           \/ job'[c].pc = "unsure"
           \/ job'[c].pc = "release" /\ row' = row /\ job[c].op = "create"
        /\ faults' \in 0..MaxFaults
        /\ \A d \in Controllers : d # c => job'[d] = job[d]
    <2> HIDE DEF rows
    <2>1. CASE Owned(c, rows, "post", "unsure")
      BY <1>1, <1>3, <1>4, <2>1, OwnedMeans
    <2>2. CASE Goto(c, "unsure") /\ NoFault
      BY <1>1, <1>3, <1>4, <2>2, GotoMeans, FaultMeans
    <2>3. CASE job[c].op = "create" /\ Fault /\ Goto(c, "release") /\ UNCHANGED row
      BY <1>1, <1>3, <1>4, <2>3, GotoMeans, FaultMeans
    <2> QED BY <2>1, <2>2, <2>3 DEF BeginCreation, rows
  <1> HIDE DEF rows
  <1>7. Working(c)'
    <2>1. CASE job'[c].pc = "post" /\ row' = rows
      <3>1. job[c].op # "retire"
        BY <1>1, <1>2 DEF Working
      <3> QED BY <1>5, <1>6, <2>1, <3>1 DEF Working, Issued
    <2>2. CASE job'[c].pc = "unsure"
      BY <1>3, <1>6, <2>2, PlainWorking
    <2>3. CASE job'[c].pc = "release" /\ row' = row /\ job[c].op = "create"
      <3>1. ~Issued(a)
        BY <1>1, <1>2, <2>3 DEF Working
      <3> QED BY <1>6, <2>3, <3>1 DEF Working, Issued
    <2> QED BY <1>6, <2>1, <2>2, <2>3
  <1> QED BY <1>2, <1>6, <1>7, GoingStep

\* The request of an issued creation.
LEMMA PostCreateStep ==
    ASSUME MachineInv, [Next]_vars, NEW c \in Controllers, PostCreate(c)
    PROVE  ProcessStep(c) /\ posts' \subseteq Allocations
  <1>1. TypeOK /\ RowInv /\ ProcessInv /\ Working(c)
    BY DEF MachineInv, ProcessInv
  <1>2. job[c].pc = "post" /\ UNCHANGED <<row, mem, queue>> /\ Goto(c, "creating")
        /\ posts' = posts \cup {job[c].a}
    BY DEF PostCreate, At, database
  <1>3. job[c].a \in Allocations /\ job[c].pc \in Steps /\ "creating" \in Steps
    BY <1>1, <1>2, JobRead DEF Steps
  <1>4. /\ job' \in [Controllers -> Job] /\ job'[c].op = job[c].op /\ job'[c].a = job[c].a
        /\ job'[c].pc = "creating" /\ \A d \in Controllers : d # c => job'[d] = job[d]
    BY <1>1, <1>2, <1>3, GotoMeans
  <1>5. Working(c)'
    BY <1>1, <1>2, <1>4 DEF Working, Issued
  <1>6. posts' \subseteq Allocations
    BY <1>1, <1>2, <1>3 DEF TypeOK
  <1> QED BY <1>2, <1>4, <1>5, <1>6, GoingStep

\* The answer to a creation gives the process its handle, and a recovery its
\* machine.
LEMMA CreatedStep ==
    ASSUME MachineInv, [Next]_vars, NEW c \in Controllers, Created(c)
    PROVE  ProcessStep(c) /\ faults' \in 0..MaxFaults
  <1> DEFINE a == job[c].a
  <1>1. TypeOK /\ RowInv /\ ProcessInv /\ Working(c) /\ Holding(c)
    BY DEF MachineInv, ProcessInv
  <1>2. job[c].pc = "creating" /\ UNCHANGED <<row, queue>>
    BY DEF Created, At, database
  <1>3. a \in Allocations /\ job[c].pc \in Steps /\ Issued(a)
        /\ job[c].op \in {"create", "recover"}
    BY <1>1, <1>2, JobRead DEF Steps, Working
  <1>4. "store" \in Steps /\ "restore" \in Steps /\ "close" \in Steps /\ "unsure" \in Steps
    BY DEF Steps
  <1>5. CASE /\ NoFault /\ Goto(c, IF job[c].op = "create" THEN "store" ELSE "restore")
             /\ mem' = IF job[c].op = "create" THEN [mem EXCEPT ![c].handle = TRUE] ELSE mem
    <2>1. CASE job[c].op = "create"
      <3>1. Goto(c, "store") /\ mem' = [mem EXCEPT ![c].handle = TRUE]
        BY <1>5, <2>1
      <3>2. /\ job' \in [Controllers -> Job] /\ job'[c].op = job[c].op /\ job'[c].a = job[c].a
            /\ job'[c].pc = "store" /\ \A d \in Controllers : d # c => job'[d] = job[d]
        BY <1>1, <1>3, <1>4, <3>1, GotoMeans
      <3>3. /\ mem' \in [Controllers -> Memory] /\ mem'[c].handle /\ mem'[c].a = mem[c].a
            /\ mem'[c].bound = mem[c].bound /\ mem'[c].warm = mem[c].warm
            /\ \A d \in Controllers : d # c => mem'[d] = mem[d]
        BY <1>1, <3>1 DEF TypeOK, Memory
      <3>4. Working(c)'
        BY <1>2, <1>3, <2>1, <3>2, <3>3 DEF Working, Issued
      <3>5. Holding(c)'
        BY <1>1, <1>2, <1>3, <2>1, <3>2, <3>3 DEF Holding, Issued
      <3>6. Claimed(c)'
        BY <1>2, ClaimedStays
      <3>7. Typed /\ Others(c)
        BY <1>1, <1>2, <3>2, <3>3 DEF Typed, Others, TypeOK
      <3>8. Alone(c)
        BY <2>1, <3>2 DEF Alone
      <3>9. faults' \in 0..MaxFaults
        BY <1>1, <1>5, FaultMeans
      <3> QED BY <3>4, <3>5, <3>6, <3>7, <3>8, <3>9 DEF ProcessStep
    <2>2. CASE job[c].op # "create"
      <3>1. Goto(c, "restore") /\ mem' = mem /\ job[c].op = "recover"
        BY <1>3, <1>5, <2>2
      <3>2. /\ job' \in [Controllers -> Job] /\ job'[c].op = job[c].op /\ job'[c].a = job[c].a
            /\ job'[c].pc = "restore" /\ \A d \in Controllers : d # c => job'[d] = job[d]
        BY <1>1, <1>3, <1>4, <3>1, GotoMeans
      <3>3. Working(c)'
        BY <1>2, <1>3, <3>1, <3>2 DEF Working, Issued
      <3> QED BY <1>1, <1>2, <1>5, <3>1, <3>2, <3>3, GoingStep, FaultMeans
    <2> QED BY <2>1, <2>2
  <1>6. CASE (Goto(c, "close") \/ Goto(c, "unsure")) /\ mem' = mem /\ (Fault \/ NoFault)
    <2>1. /\ job' \in [Controllers -> Job] /\ job'[c].op = job[c].op /\ job'[c].a = job[c].a
          /\ job'[c].pc \in {"close", "unsure"}
          /\ \A d \in Controllers : d # c => job'[d] = job[d]
      BY <1>1, <1>3, <1>4, <1>6, GotoMeans
    <2>2. Working(c)'
      BY <1>3, <2>1, PlainWorking
    <2> QED BY <1>1, <1>2, <1>6, <2>1, <2>2, GoingStep, FaultMeans
  <1> QED BY <1>5, <1>6 DEF Created

\* A stored allocation, whose runtime the process holds.
LEMMA StoreAllocatedStep ==
    ASSUME MachineInv, [Next]_vars, NEW c \in Controllers, StoreAllocated(c)
    PROVE  ProcessStep(c) /\ faults' \in 0..MaxFaults
  <1> DEFINE a == job[c].a
             rows == Allocated(a)
  <1>1. TypeOK /\ RowInv /\ ProcessInv /\ Working(c)
    BY DEF MachineInv, ProcessInv
  <1>2. job[c].pc = "store" /\ job[c].op = "create" /\ mem[c].handle /\ UNCHANGED <<mem, queue>>
    BY <1>1 DEF StoreAllocated, At, Working
  <1>3. a \in Allocations /\ job[c].pc \in Steps
    BY <1>1, <1>2, JobRead DEF Steps
  <1>4. /\ job' \in [Controllers -> Job] /\ job'[c].op = job[c].op /\ job'[c].a = job[c].a
        /\ job'[c].pc \in {"register", "unsure"} /\ faults' \in 0..MaxFaults
        /\ \A d \in Controllers : d # c => job'[d] = job[d]
    <2>1. Change(c, Settable(c, a, "allocated"), rows, "register", "unsure")
      BY DEF StoreAllocated, Set
    <2>2. "register" \in Steps /\ "unsure" \in Steps
      BY DEF Steps
    <2> HIDE DEF rows
    <2> QED BY <1>1, <1>3, <2>1, <2>2, ChangeMeans
  <1>5. Working(c)'
    <2>1. CASE job'[c].pc = "unsure"
      BY <1>3, <1>4, <2>1, PlainWorking
    <2>2. CASE job'[c].pc = "register"
      BY <1>2, <1>4, <2>2 DEF Working, Issued
    <2> QED BY <1>4, <2>1, <2>2
  <1> QED BY <1>2, <1>4, <1>5, GoingStep

\* An admitted reservation goes on with what the process holds, or with a new
\* row; a refused one ends.
LEMMA ReserveStep ==
    ASSUME MachineInv, [Next]_vars, NEW c \in Controllers, Reserve(c)
    PROVE  ProcessStep(c) /\ faults' \in 0..MaxFaults
  <1> DEFINE a == job[c].a
  <1>1. TypeOK /\ RowInv /\ ProcessInv /\ Working(c) /\ Holding(c)
    BY DEF MachineInv, ProcessInv
  <1>2. job[c].pc = "reserve" /\ job[c].op = "create" /\ queue' = queue
    BY <1>1 DEF Reserve, At, Working
  <1>3. a \in Allocations /\ job[c].pc \in Steps /\ mem[c] \in Memory
    BY <1>1, <1>2, JobRead DEF Steps
  <1>4. /\ mem[c].handle => mem[c].a \in Allocations /\ Issued(mem[c].a)
        /\ mem[c].handle \/ (~Issued(a) /\ ~mem[c].bound /\ ~mem[c].warm)
        /\ mem[c].a = a
    BY <1>1, <1>2 DEF Working, Holding
  <1>5. CASE Finish(c, mem[c]) /\ (Fault \/ NoFault)
    <2>1. mem[c].a = Nothing => ~mem[c].bound /\ ~mem[c].warm
      BY <1>1 DEF Holding
    <2> QED BY <1>1, <1>2, <1>3, <1>4, <1>5, <2>1, EndingStep, FaultMeans
  <1>6. CASE /\ Goto(c, CASE mem[c].failed -> "fail"
                          [] mem[c].handle -> "register" [] OTHER -> "materialize")
             /\ mem' = [mem EXCEPT ![c].bound = TRUE] /\ NoFault
    <2>1. PICK pc \in {"fail", "register", "materialize"} :
            /\ Goto(c, pc)
            /\ pc = "register" => mem[c].handle
            /\ pc = "materialize" => ~mem[c].handle
      <3>1. CASE mem[c].failed
        BY <1>6, <3>1
      <3>2. CASE ~mem[c].failed /\ mem[c].handle
        BY <1>6, <3>2
      <3>3. CASE ~mem[c].failed /\ ~mem[c].handle
        BY <1>6, <3>3
      <3> QED BY <3>1, <3>2, <3>3
    <2>2. pc \in Steps
      BY <2>1 DEF Steps
    <2>3. /\ job' \in [Controllers -> Job] /\ job'[c].op = job[c].op /\ job'[c].a = job[c].a
          /\ job'[c].pc = pc /\ \A d \in Controllers : d # c => job'[d] = job[d]
      BY <1>1, <1>3, <2>1, <2>2, GotoMeans
    <2>4. /\ mem' \in [Controllers -> Memory] /\ mem'[c].handle = mem[c].handle
          /\ mem'[c].a = mem[c].a /\ mem'[c].warm = mem[c].warm
          /\ \A d \in Controllers : d # c => mem'[d] = mem[d]
      BY <1>1, <1>6 DEF TypeOK, Memory
    <2>5. Working(c)'
      <3>1. CASE pc = "fail"
        BY <1>3, <2>3, <3>1, PlainWorking
      <3>2. CASE pc = "register"
        BY <1>2, <2>1, <2>3, <2>4, <3>2 DEF Working, Issued
      <3>3. CASE pc = "materialize"
        <4>1. ~Issued(a) /\ ~Issues(c, a)
          BY <1>2, <1>4, <2>1, <3>3 DEF Issues
        <4>2. ~row'[a].issued
          BY <1>2, <1>3, <4>1, NotIssuedStays DEF Issued
        <4> QED BY <1>2, <2>3, <3>3, <4>2 DEF Working, Issued
      <3> QED BY <2>1, <3>1, <3>2, <3>3
    <2>6. Holding(c)'
      <3>1. mem[c].handle => row'[mem[c].a].issued
        BY <1>1, <1>4, Monotone DEF Issued
      <3>2. a # Nothing
        BY <1>3, NothingAssumption
      <3> QED BY <1>2, <1>4, <2>3, <2>4, <3>1, <3>2 DEF Holding, Issued
    <2>7. Claimed(c)'
      BY <1>2, ClaimedStays
    <2>8. Typed /\ Others(c)
      BY <1>1, <1>2, <2>3, <2>4 DEF Typed, Others, TypeOK
    <2>9. Alone(c) /\ faults' \in 0..MaxFaults
      BY <1>1, <1>2, <1>6, <2>3, FaultMeans DEF Alone
    <2> QED BY <2>5, <2>6, <2>7, <2>8, <2>9 DEF ProcessStep
  <1> QED BY <1>5, <1>6 DEF Reserve

\* The insert of a binding ends a creation, with the runtime in use, or fails it.
LEMMA RegisterStep ==
    ASSUME MachineInv, [Next]_vars, NEW c \in Controllers, Register(c)
    PROVE  ProcessStep(c) /\ faults' \in 0..MaxFaults /\ routes' \subseteq Allocations
  <1>1. TypeOK /\ RowInv /\ ProcessInv /\ Working(c) /\ Holding(c)
    BY DEF MachineInv, ProcessInv
  <1>2. job[c].pc = "register" /\ job[c].op = "create" /\ mem[c].handle /\ queue' = queue
    BY <1>1 DEF Register, At, Working
  <1>3. job[c].a \in Allocations /\ job[c].pc \in Steps /\ mem[c] \in Memory /\ "fail" \in Steps
    BY <1>1, <1>2, JobRead DEF Steps
  <1>4. routes' \subseteq Allocations /\ (Fault \/ NoFault)
    BY <1>1, <1>3 DEF Register, TypeOK
  <1>5. CASE Finish(c, mem[c])
    <2>1. /\ mem[c].a \in Allocations /\ Issued(mem[c].a)
          /\ mem[c].a = Nothing => ~mem[c].bound /\ ~mem[c].warm
      BY <1>1, <1>2 DEF Holding
    <2> QED BY <1>1, <1>2, <1>3, <1>4, <1>5, <2>1, EndingStep, FaultMeans
  <1>6. CASE Goto(c, "fail") /\ mem' = mem
    <2>1. /\ job' \in [Controllers -> Job] /\ job'[c].op = job[c].op /\ job'[c].a = job[c].a
          /\ job'[c].pc = "fail" /\ \A d \in Controllers : d # c => job'[d] = job[d]
      BY <1>1, <1>3, <1>6, GotoMeans
    <2>2. Working(c)'
      BY <1>3, <2>1, PlainWorking
    <2> QED BY <1>1, <1>2, <1>4, <1>6, <2>1, <2>2, GoingStep, FaultMeans
  <1> QED BY <1>5, <1>6 DEF Register

\* A failed operation keeps a runtime with a handle warm, and forgets another.
LEMMA EndFailedStep ==
    ASSUME MachineInv, [Next]_vars, NEW c \in Controllers, EndFailed(c)
    PROVE  ProcessStep(c)
  <1>1. TypeOK /\ ProcessInv /\ Holding(c) /\ mem[c] \in Memory
    BY JobRead DEF MachineInv, ProcessInv
  <1> DEFINE m == [mem[c] EXCEPT !.bound = FALSE, !.warm = mem[c].handle]
  <1>2. /\ m \in Memory /\ m.handle = mem[c].handle /\ m.a = mem[c].a /\ ~m.bound
        /\ m.warm = mem[c].handle
    BY <1>1 DEF Memory
  <1>3. Finish(c, m) /\ queue' = queue
    BY DEF EndFailed
  <1>4. /\ mem[c].handle => mem[c].a \in Allocations /\ Issued(mem[c].a)
        /\ mem[c].a = Nothing => ~mem[c].handle
    BY <1>1, NothingAssumption DEF Holding
  <1> HIDE DEF m
  <1> QED BY <1>2, <1>3, <1>4, EndingStep

-----------------------------------------------------------------------------
(* The steps of recovery, retirement and release.                            *)

\* A probe tells a recovery whether its machine is there.
LEMMA AdoptStep ==
    ASSUME MachineInv, [Next]_vars, NEW c \in Controllers, Adopt(c)
    PROVE  ProcessStep(c) /\ faults' \in 0..MaxFaults
  <1> DEFINE a == job[c].a
  <1>1. TypeOK /\ RowInv /\ ProcessInv /\ Working(c)
    BY DEF MachineInv, ProcessInv
  <1>2. job[c].pc = "adopt" /\ job[c].op = "recover" /\ UNCHANGED <<row, cube, mem, queue>>
    BY <1>1 DEF Adopt, At, Working, database, physical
  <1>3. a \in Allocations /\ job[c].pc \in Steps /\ Issued(a)
    BY <1>1, <1>2, JobRead DEF Steps, Working
  <1>4. PICK pc \in {"restore", "seal", "unsure"} :
          Goto(c, pc) /\ (pc = "seal" => cube[a] = "gone") /\ (Fault \/ NoFault)
    BY DEF Adopt
  <1>5. pc \in Steps
    BY DEF Steps
  <1>6. /\ job' \in [Controllers -> Job] /\ job'[c].op = job[c].op /\ job'[c].a = job[c].a
        /\ job'[c].pc = pc /\ \A d \in Controllers : d # c => job'[d] = job[d]
    BY <1>1, <1>3, <1>4, <1>5, GotoMeans
  <1>7. Working(c)'
    BY <1>2, <1>3, <1>4, <1>6 DEF Working, Issued
  <1> QED BY <1>1, <1>2, <1>4, <1>6, <1>7, GoingStep, FaultMeans

\* A recovery ends with the runtime it restored, or with what the process held.
LEMMA RestoreStep ==
    ASSUME MachineInv, [Next]_vars, NEW c \in Controllers, Restore(c)
    PROVE  ProcessStep(c) /\ faults' \in 0..MaxFaults
  <1> DEFINE a == job[c].a
             m == [a |-> a, handle |-> TRUE, failed |-> FALSE,
                   bound |-> a \in routes, warm |-> a \notin routes]
  <1>1. TypeOK /\ RowInv /\ ProcessInv /\ Working(c) /\ Holding(c)
    BY DEF MachineInv, ProcessInv
  <1>2. job[c].pc = "restore" /\ job[c].op = "recover" /\ queue' = queue
    BY <1>1 DEF Restore, At, Working
  <1>3. a \in Allocations /\ Issued(a) /\ mem[c] \in Memory
    BY <1>1, <1>2, JobRead DEF Steps, Working
  <1>4. PICK n \in {m, mem[c]} : Finish(c, n) /\ (Fault \/ NoFault)
    BY DEF Restore
  <1>5. /\ n \in Memory
        /\ n.handle => n.a \in Allocations /\ Issued(n.a)
        /\ n.a = Nothing => ~n.bound /\ ~n.warm
        /\ n.bound \/ n.warm => n.handle
    <2>1. CASE n = m
      <3>1. m \in Memory /\ m.a # Nothing
        BY <1>3, NothingAssumption DEF Memory
      <3> QED BY <1>3, <2>1, <3>1
    <2>2. CASE n = mem[c]
      <3>1. /\ mem[c].handle => mem[c].a \in Allocations /\ Issued(mem[c].a)
            /\ mem[c].a = Nothing => ~mem[c].bound /\ ~mem[c].warm
            /\ mem[c].a # Nothing => mem[c].handle
        BY <1>1, <1>2 DEF Holding
      <3> QED BY <1>3, <2>2, <3>1
    <2> QED BY <1>4, <2>1, <2>2
  <1> HIDE DEF m
  <1> QED BY <1>1, <1>2, <1>4, <1>5, EndingStep, FaultMeans

\* A closed allocation that was never issued has no machine to destroy, and
\* what was sealed is gone.
LEMMA CloseAllocationStep ==
    ASSUME MachineInv, [Next]_vars, NEW c \in Controllers, CloseAllocation(c)
    PROVE  ProcessStep(c) /\ faults' \in 0..MaxFaults
  <1> DEFINE a == job[c].a
             rows == Closing(a)
  <1>1. TypeOK /\ RowInv /\ ProcessInv /\ Working(c)
    BY DEF MachineInv, ProcessInv
  <1>2. job[c].pc \in {"close", "seal"} /\ UNCHANGED <<cube, mem, queue>>
    BY DEF CloseAllocation, At, physical
  <1>3. a \in Allocations /\ job[c].pc \in Steps
    BY <1>1, <1>2, JobRead DEF Steps
  <1>4. rows[a].closed /\ rows[a].issued = row[a].issued
    BY <1>1, <1>3, NamedWrites
  <1>5. PICK next \in {"destroy", "unbind"}, failed \in {"unsure", "fail"} :
          /\ Change(c, Owns(c, a), rows, next, failed)
          /\ next = "unbind" => job[c].pc = "seal" \/ ~Issued(a)
    <2> HIDE DEF rows
    <2>1. CASE At(c, "seal") /\ Change(c, Owns(c, a), rows, "unbind", "fail")
      BY <2>1 DEF At
    <2>2. CASE At(c, "close") /\ Change(c, Owns(c, a), rows,
                                        IF row[a].issued THEN "destroy" ELSE "unbind", "unsure")
      BY <2>2 DEF Issued
    <2> QED BY <2>1, <2>2 DEF CloseAllocation, rows
  <1>6. next \in Steps /\ failed \in Steps
    BY DEF Steps
  <1> HIDE DEF rows
  <1>7. /\ job' \in [Controllers -> Job] /\ job'[c].op = job[c].op /\ job'[c].a = job[c].a
        /\ (job'[c].pc = next /\ row' = rows) \/ job'[c].pc = failed
        /\ faults' \in 0..MaxFaults
        /\ \A d \in Controllers : d # c => job'[d] = job[d]
    BY <1>1, <1>3, <1>5, <1>6, ChangeMeans
  <1>8. Working(c)'
    <2>1. CASE job'[c].pc \in {"unsure", "fail", "destroy"}
      BY <1>3, <1>7, <2>1, PlainWorking
    <2>2. CASE job'[c].pc = "unbind" /\ row' = rows /\ next = "unbind"
      <3>1. cube'[a] = "gone" \/ (~row'[a].issued /\ row'[a].closed)
        BY <1>1, <1>2, <1>4, <1>5, <2>2 DEF Working, Issued
      <3>2. job[c].op = "recover" => row'[a].issued
        BY <1>1, <1>4, <2>2 DEF Working, Issued
      <3> QED BY <1>7, <2>2, <3>1, <3>2 DEF Working, Issued
    <2> QED BY <1>5, <1>7, <2>1, <2>2
  <1> QED BY <1>2, <1>7, <1>8, GoingStep

\* A destroyed machine is gone.
LEMMA DestroyStep ==
    ASSUME MachineInv, [Next]_vars, NEW c \in Controllers, Destroy(c)
    PROVE  /\ ProcessStep(c) /\ faults' \in 0..MaxFaults
           /\ cube' \in [Allocations -> {"none", "alive", "gone"}]
  <1> DEFINE a == job[c].a
  <1>1. TypeOK /\ RowInv /\ ProcessInv /\ Working(c)
    BY DEF MachineInv, ProcessInv
  <1>2. job[c].pc = "destroy" /\ UNCHANGED <<row, mem, queue>>
    BY DEF Destroy, At, database
  <1>3. a \in Allocations /\ job[c].pc \in Steps /\ job[c].op \in {"create", "recover", "retire"}
    BY <1>1, <1>2, JobRead DEF Steps
  <1>4. cube' \in [Allocations -> {"none", "alive", "gone"}]
    BY <1>1, <1>3 DEF Destroy, TypeOK
  <1>5. PICK pc \in {"release", "seal", "unbind", "unsure"} :
          Goto(c, pc) /\ (pc # "unsure" => cube'[a] = "gone") /\ (Fault \/ NoFault)
    <2>1. CASE Goto(c, "unsure") /\ Fault
      BY <2>1
    <2>2. CASE /\ cube' = [cube EXCEPT ![a] = "gone"] /\ NoFault
               /\ Goto(c, CASE job[c].op = "create" -> "release"
                            [] job[c].op = "recover" -> "seal" [] OTHER -> "unbind")
      <3>1. cube'[a] = "gone"
        BY <1>1, <1>3, <2>2 DEF TypeOK
      <3>2. CASE job[c].op = "create"
        BY <2>2, <3>1, <3>2
      <3>3. CASE job[c].op = "recover"
        BY <2>2, <3>1, <3>3
      <3>4. CASE job[c].op = "retire"
        BY <2>2, <3>1, <3>4
      <3> QED BY <1>3, <3>2, <3>3, <3>4
    <2> QED BY <2>1, <2>2 DEF Destroy
  <1>6. pc \in Steps
    BY DEF Steps
  <1>7. /\ job' \in [Controllers -> Job] /\ job'[c].op = job[c].op /\ job'[c].a = job[c].a
        /\ job'[c].pc = pc /\ \A d \in Controllers : d # c => job'[d] = job[d]
    BY <1>1, <1>3, <1>5, <1>6, GotoMeans
  <1>8. Working(c)'
    <2>1. job[c].op = "recover" => row'[a].issued
      BY <1>1, <1>2 DEF Working, Issued
    <2> QED BY <1>5, <1>7, <2>1 DEF Working, Issued
  <1> QED BY <1>1, <1>2, <1>4, <1>5, <1>7, <1>8, GoingStep, FaultMeans

\* The bindings of a closed allocation go before its release.
LEMMA UnbindStep ==
    ASSUME MachineInv, [Next]_vars, NEW c \in Controllers, Unbind(c)
    PROVE  ProcessStep(c) /\ faults' \in 0..MaxFaults /\ routes' \subseteq Allocations
  <1> DEFINE a == job[c].a
  <1>1. TypeOK /\ RowInv /\ ProcessInv /\ Working(c)
    BY DEF MachineInv, ProcessInv
  <1>2. job[c].pc = "unbind" /\ UNCHANGED <<row, cube, mem, queue>>
    BY DEF Unbind, At, physical
  <1>3. a \in Allocations /\ job[c].pc \in Steps
    BY <1>1, <1>2, JobRead DEF Steps
  <1>4. PICK pc \in {"release", "unsure", "fail"} : Goto(c, pc) /\ (Fault \/ NoFault)
    BY DEF Unbind
  <1>5. pc \in Steps
    BY DEF Steps
  <1>6. /\ job' \in [Controllers -> Job] /\ job'[c].op = job[c].op /\ job'[c].a = job[c].a
        /\ job'[c].pc = pc /\ \A d \in Controllers : d # c => job'[d] = job[d]
    BY <1>1, <1>3, <1>4, <1>5, GotoMeans
  <1>7. Working(c)'
    BY <1>1, <1>2, <1>6 DEF Working, Issued
  <1>8. routes' \subseteq Allocations
    BY <1>1 DEF Unbind, TypeOK
  <1> QED BY <1>1, <1>2, <1>4, <1>6, <1>7, <1>8, GoingStep, FaultMeans

\* A release ends its operation, made or not.
LEMMA ReleaseStep ==
    ASSUME MachineInv, [Next]_vars, NEW c \in Controllers, Release(c)
    PROVE  ProcessStep(c) /\ faults' \in 0..MaxFaults
  <1> DEFINE a == job[c].a
             rows == Released(a)
  <1>1. TypeOK
    BY DEF MachineInv
  <1>2. job[c].pc = "release" /\ UNCHANGED <<mem, queue>>
    BY DEF Release, At
  <1>3. a \in Allocations /\ job[c].pc \in Steps
    BY <1>1, <1>2, JobRead DEF Steps
  <1>4. PICK failed \in {"unsure", "fail"} :
          Change(c, Settable(c, a, "released"), rows, "fail", failed)
    BY DEF Release, Set
  <1>5. "fail" \in Steps /\ failed \in Steps
    BY DEF Steps
  <1> HIDE DEF rows
  <1>6. /\ job' \in [Controllers -> Job] /\ job'[c].op = job[c].op /\ job'[c].a = job[c].a
        /\ job'[c].pc = "fail" \/ job'[c].pc = failed
        /\ faults' \in 0..MaxFaults
        /\ \A d \in Controllers : d # c => job'[d] = job[d]
    <2>1. CASE failed = "fail"
      <3>1. Change(c, Settable(c, a, "released"), rows, "fail", "fail")
        BY <1>4, <2>1
      <3> QED BY <1>1, <1>3, <1>5, <2>1, <3>1, ChangeMeans
    <2>2. CASE failed = "unsure"
      <3>1. Change(c, Settable(c, a, "released"), rows, "fail", "unsure") /\ "unsure" \in Steps
        BY <1>4, <1>5, <2>2
      <3> QED BY <1>1, <1>3, <1>5, <2>2, <3>1, ChangeMeans
    <2> QED BY <1>4, <2>1, <2>2
  <1>7. Working(c)'
    BY <1>3, <1>4, <1>6, PlainWorking
  <1> QED BY <1>2, <1>6, <1>7, GoingStep

\* A doubtful operation ends, its write made or not.
LEMMA SetUnknownStep ==
    ASSUME MachineInv, [Next]_vars, NEW c \in Controllers, SetUnknown(c)
    PROVE  ProcessStep(c) /\ faults' \in 0..MaxFaults /\ routes' \subseteq Allocations
  <1> DEFINE a == job[c].a
             rows == [row EXCEPT ![a].state = "unknown",
                                 ![a].unconfirmed = job[c].op = "recover"]
  <1>1. TypeOK
    BY DEF MachineInv
  <1>2. job[c].pc = "unsure" /\ UNCHANGED <<mem, queue>>
    BY DEF SetUnknown, At
  <1>3. a \in Allocations /\ job[c].pc \in Steps /\ "fail" \in Steps
    BY <1>1, <1>2, JobRead DEF Steps
  <1>4. Change(c, Settable(c, a, "unknown"), rows, "fail", "fail")
    BY DEF SetUnknown, Set
  <1> HIDE DEF rows
  <1>5. /\ job' \in [Controllers -> Job] /\ job'[c].op = job[c].op /\ job'[c].a = job[c].a
        /\ job'[c].pc = "fail" /\ faults' \in 0..MaxFaults
        /\ \A d \in Controllers : d # c => job'[d] = job[d]
    BY <1>1, <1>3, <1>4, ChangeMeans
  <1>6. Working(c)'
    BY <1>3, <1>5, PlainWorking
  <1>7. routes' \subseteq Allocations
    BY <1>1 DEF SetUnknown, TypeOK
  <1> QED BY <1>2, <1>5, <1>6, <1>7, GoingStep

-----------------------------------------------------------------------------
(* The steps that take the turn, or join the queue.                          *)

\* A creation takes up what the process holds, or an allocation nobody knows.
LEMMA StartCreateStep ==
    ASSUME MachineInv, [Next]_vars, NEW c \in Controllers, StartCreate(c)
    PROVE  ProcessStep(c)
  <1>1. TypeOK /\ RowInv /\ ProcessInv /\ Holding(c) /\ mem[c] \in Memory
    BY JobRead DEF MachineInv, ProcessInv
  <1>2. row' = row /\ Turn(c, "create")
    BY DEF StartCreate, database
  <1>3. /\ queue' \in [Controllers -> Seq(Ticket)] /\ Claimed(c)' /\ job[c] = Idle
        /\ \A d \in Controllers : d # c => queue'[d] = queue[d]
    BY <1>2, TurnMeans
  <1>4. /\ mem[c].handle => mem[c].a \in Allocations /\ Issued(mem[c].a)
        /\ mem[c].a = Nothing => ~mem[c].bound /\ ~mem[c].warm
        /\ mem[c].a # Nothing => mem[c].handle
    BY <1>1, <1>3 DEF Holding, Idle
  <1>5. CASE UNCHANGED <<job, mem>>
    <2>1. Holding(c)' /\ Working(c)'
      BY <1>5, HoldingStays, WorkingStays
    <2>2. Typed /\ Others(c) /\ Alone(c)
      BY <1>1, <1>3, <1>5 DEF Typed, Others, Alone, Idle, TypeOK
    <2> QED BY <1>3, <2>1, <2>2 DEF ProcessStep
  <1>6. ASSUME NEW a \in IF mem[c].a = Nothing THEN Fresh ELSE {mem[c].a},
               job' = [job EXCEPT ![c] = [op |-> "create", a |-> a, pc |-> "reserve"]],
               mem' = [mem EXCEPT ![c].a = a, ![c].warm = FALSE]
        PROVE  ProcessStep(c)
    <2>1. /\ a \in Allocations
          /\ mem[c].handle => a = mem[c].a /\ Issued(a)
          /\ ~mem[c].handle => a \in Fresh /\ ~mem[c].bound
      BY <1>4, <1>6, NothingAssumption DEF Fresh
    <2>2. [op |-> "create", a |-> a, pc |-> "reserve"] \in Job
      BY <2>1 DEF Job, Steps
    <2>3. /\ job' \in [Controllers -> Job] /\ job'[c].op = "create" /\ job'[c].a = a
          /\ job'[c].pc = "reserve" /\ \A d \in Controllers : d # c => job'[d] = job[d]
      BY <1>1, <1>6, <2>2 DEF TypeOK
    <2>4. /\ mem' \in [Controllers -> Memory] /\ mem'[c].handle = mem[c].handle
          /\ mem'[c].a = a /\ mem'[c].bound = mem[c].bound /\ ~mem'[c].warm
          /\ \A d \in Controllers : d # c => mem'[d] = mem[d]
      BY <1>1, <1>6, <2>1 DEF TypeOK, Memory
    <2>5. ~mem[c].handle => ~Issued(a) /\ \A d \in Controllers : job[d].a # a
      BY <1>1, <2>1 DEF Fresh, RowInv, Unused, Issued
    <2>6. Holding(c)'
      BY <1>2, <2>1, <2>3, <2>4, NothingAssumption DEF Holding, Issued
    <2>7. Working(c)'
      BY <1>2, <2>1, <2>3, <2>4, <2>5 DEF Working, Issued
    <2>8. Alone(c)
      BY <1>2, <2>1, <2>3, <2>5 DEF Alone, Issued
    <2>9. Typed /\ Others(c)
      BY <1>3, <2>3, <2>4 DEF Typed, Others
    <2> QED BY <1>3, <2>6, <2>7, <2>8, <2>9 DEF ProcessStep
  <1> QED BY <1>5, <1>6 DEF StartCreate

\* A recovery of an allocation that was issued.
LEMMA StartRecoverStep ==
    ASSUME MachineInv, [Next]_vars, NEW c \in Controllers, StartRecover(c)
    PROVE  ProcessStep(c)
  <1> DEFINE t == Head(queue[c])
  <1>1. TypeOK /\ RowInv /\ ProcessInv /\ Holding(c)
    BY DEF MachineInv, ProcessInv
  <1>2. row' = row /\ mem' = mem /\ Turn(c, "recover")
    BY DEF StartRecover, database
  <1>3. /\ queue' \in [Controllers -> Seq(Ticket)] /\ Claimed(c)' /\ job[c] = Idle
        /\ \A d \in Controllers : d # c => queue'[d] = queue[d]
        /\ t \in Ticket /\ t.op = "recover" /\ Issued(t.a)
    BY <1>2, TurnMeans
  <1>4. t.a \in Allocations
    BY <1>3 DEF Ticket
  <1>5. CASE job' = job
    <2>1. Holding(c)' /\ Working(c)'
      BY <1>2, <1>5, HoldingStays, WorkingStays
    <2>2. Typed /\ Others(c) /\ Alone(c)
      BY <1>1, <1>2, <1>3, <1>5 DEF Typed, Others, Alone, Idle, TypeOK
    <2> QED BY <1>3, <2>1, <2>2 DEF ProcessStep
  <1>6. CASE job' # job
    <2>1. PICK pc \in {"adopt", "begin"} :
            job' = [job EXCEPT ![c] = [op |-> "recover", a |-> t.a, pc |-> pc]]
      BY <1>6 DEF StartRecover
    <2>2. [op |-> "recover", a |-> t.a, pc |-> pc] \in Job
      BY <1>4 DEF Job, Steps
    <2>3. /\ job' \in [Controllers -> Job] /\ job'[c].op = "recover" /\ job'[c].a = t.a
          /\ job'[c].pc = pc /\ \A d \in Controllers : d # c => job'[d] = job[d]
      BY <1>1, <2>1, <2>2 DEF TypeOK
    <2>4. Working(c)'
      BY <1>2, <1>3, <2>3 DEF Working, Issued
    <2>5. Holding(c)'
      BY <1>1, <1>2, <1>3, <2>3 DEF Holding, Issued, Idle
    <2>6. Typed /\ Others(c) /\ Alone(c)
      BY <1>1, <1>2, <1>3, <2>3 DEF Typed, Others, Alone, TypeOK
    <2> QED BY <1>3, <2>4, <2>5, <2>6 DEF ProcessStep
  <1> QED BY <1>5, <1>6

\* A retirement forgets the runtime before it closes the allocation.
LEMMA StartRetireStep ==
    ASSUME MachineInv, [Next]_vars, NEW c \in Controllers, StartRetire(c)
    PROVE  ProcessStep(c)
  <1> DEFINE t == Head(queue[c])
  <1>1. TypeOK /\ RowInv /\ ProcessInv /\ Holding(c)
    BY DEF MachineInv, ProcessInv
  <1>2. row' = row /\ Turn(c, "retire")
    BY DEF StartRetire, database
  <1>3. /\ queue' \in [Controllers -> Seq(Ticket)] /\ Claimed(c)' /\ job[c] = Idle
        /\ \A d \in Controllers : d # c => queue'[d] = queue[d]
        /\ t \in Ticket /\ t.op = "retire"
    BY <1>2, TurnMeans
  <1>4. t.a \in Allocations
    BY <1>3 DEF Ticket
  <1>5. job' = [job EXCEPT ![c] = [op |-> "retire", a |-> t.a, pc |-> "close"]]
    BY DEF StartRetire
  <1>6. [op |-> "retire", a |-> t.a, pc |-> "close"] \in Job
    BY <1>4 DEF Job, Steps
  <1>7. /\ job' \in [Controllers -> Job] /\ job'[c].op = "retire" /\ job'[c].a = t.a
        /\ job'[c].pc = "close" /\ \A d \in Controllers : d # c => job'[d] = job[d]
    BY <1>1, <1>5, <1>6 DEF TypeOK
  <1>8. /\ mem' \in [Controllers -> Memory] /\ mem'[c] \in {mem[c], Empty}
        /\ \A d \in Controllers : d # c => mem'[d] = mem[d]
    <2>1. Empty \in Memory
      BY DEF Empty, Memory
    <2> QED BY <1>1, <2>1 DEF StartRetire, TypeOK
  <1>9. Holding(c)'
    <2>1. CASE mem'[c] = Empty
      BY <1>7, <2>1 DEF Holding, Empty
    <2>2. CASE mem'[c] = mem[c]
      BY <1>1, <1>2, <1>3, <1>7, <2>2 DEF Holding, Issued, Idle
    <2> QED BY <1>8, <2>1, <2>2
  <1>10. Working(c)' /\ Alone(c)
    BY <1>7 DEF Working, Alone, Issued
  <1>11. Typed /\ Others(c)
    BY <1>3, <1>7, <1>8 DEF Typed, Others
  <1> QED BY <1>3, <1>9, <1>10, <1>11 DEF ProcessStep

\* A request joins the queue, and so does a claim that was told of.
LEMMA JoiningStep ==
    ASSUME MachineInv, [Next]_vars, NEW c \in Controllers,
           Request(c) \/ \E a \in Allocations : Claims(c, a)
    PROVE  ProcessStep(c) /\ faults' \in 0..MaxFaults
  <1>1. TypeOK /\ RowInv
    BY DEF MachineInv
  <1>2. UNCHANGED <<job, mem>>
    BY DEF Request, Claims, ClaimRecoverable, ClaimOrphaned, ClaimUnbound
  <1>3. Holding(c)' /\ Working(c)' /\ Alone(c)
    BY <1>2, HoldingStays, WorkingStays DEF Alone
  <1>4. \/ queue' = queue
        \/ \E t \in Ticket : /\ queue' = [queue EXCEPT ![c] = Append(@, t)]
                             /\ t.op = "recover" => Issued(t.a)
    <2>1. CASE Request(c)
      <3>1. [op |-> "create", a |-> Nothing] \in Ticket
        BY DEF Ticket
      <3> QED BY <2>1, <3>1 DEF Request
    <2>2. ASSUME NEW a \in Allocations, ClaimRecoverable(c, a)
          PROVE  \/ queue' = queue
                 \/ \E t \in Ticket : /\ queue' = [queue EXCEPT ![c] = Append(@, t)]
                                      /\ t.op = "recover" => Issued(t.a)
      <3>1. [op |-> "recover", a |-> a] \in Ticket
        BY DEF Ticket
      <3>2. Issued(a)
        BY <1>1, <2>2 DEF ClaimRecoverable, Recoverable, RowInv, Issued
      <3>3. queue' = queue \/ queue' = [queue EXCEPT ![c] = Append(@, [op |-> "recover", a |-> a])]
        BY <2>2 DEF ClaimRecoverable, Claim
      <3> QED BY <3>1, <3>2, <3>3
    <2>3. ASSUME NEW a \in Allocations, ClaimOrphaned(c, a) \/ ClaimUnbound(c, a)
          PROVE  \/ queue' = queue
                 \/ \E t \in Ticket : /\ queue' = [queue EXCEPT ![c] = Append(@, t)]
                                      /\ t.op = "recover" => Issued(t.a)
      <3>1. [op |-> "retire", a |-> a] \in Ticket
        BY DEF Ticket
      <3>2. queue' = queue \/ queue' = [queue EXCEPT ![c] = Append(@, [op |-> "retire", a |-> a])]
        BY <2>3 DEF ClaimOrphaned, ClaimUnbound, Claim
      <3> QED BY <3>1, <3>2
    <2> QED BY <2>1, <2>2, <2>3 DEF Claims
  <1>5. /\ queue' \in [Controllers -> Seq(Ticket)] /\ Claimed(c)'
        /\ \A d \in Controllers : d # c => queue'[d] = queue[d]
    <2>1. CASE queue' = queue
      BY <1>1, <2>1, ClaimedStays DEF TypeOK
    <2>2. CASE queue' # queue
      BY <1>4, <2>2, JoinMeans
    <2> QED BY <2>1, <2>2
  <1>6. Typed /\ Others(c)
    BY <1>1, <1>2, <1>5 DEF Typed, Others, TypeOK
  <1>7. faults' \in 0..MaxFaults
    <2>1. Fault \/ NoFault
      BY DEF Request, Claims, ClaimRecoverable, ClaimOrphaned, ClaimUnbound, Claim, NoFault
    <2> QED BY <1>1, <2>1, FaultMeans
  <1> QED BY <1>3, <1>5, <1>6, <1>7 DEF ProcessStep

\* A binding given back leaves a warm runtime; a lost one is known to have failed.
LEMMA HeldStep ==
    ASSUME MachineInv, [Next]_vars, NEW c \in Controllers, ReleaseBinding(c) \/ RuntimeLost(c)
    PROVE  ProcessStep(c) /\ faults' \in 0..MaxFaults /\ routes' \subseteq Allocations
  <1>1. TypeOK /\ RowInv /\ ProcessInv /\ Holding(c)
    BY DEF MachineInv, ProcessInv
  <1>2. UNCHANGED <<job, queue>> /\ mem[c].handle /\ routes' \subseteq Allocations
    BY <1>1 DEF ReleaseBinding, RuntimeLost, database, TypeOK
  <1>3. /\ mem' \in [Controllers -> Memory] /\ mem'[c].a = mem[c].a
        /\ mem'[c].handle = mem[c].handle
        /\ \A d \in Controllers : d # c => mem'[d] = mem[d]
    <2>1. CASE mem' = [mem EXCEPT ![c].bound = FALSE, ![c].warm = TRUE]
      BY <1>1, <2>1 DEF TypeOK, Memory
    <2>2. CASE mem' = [mem EXCEPT ![c].failed = TRUE]
      BY <1>1, <2>2 DEF TypeOK, Memory
    <2> QED BY <2>1, <2>2 DEF ReleaseBinding, RuntimeLost
  <1>4. Working(c)' /\ Claimed(c)'
    BY <1>2, <1>3, WorkingStays, ClaimedStays
  <1>5. Holding(c)'
    <2>1. mem[c].a \in Allocations /\ Issued(mem[c].a)
      BY <1>1, <1>2 DEF Holding
    <2>2. row'[mem[c].a].issued
      BY <1>1, <2>1, Monotone DEF Issued
    <2> QED BY <1>1, <1>2, <1>3, <2>1, <2>2, NothingAssumption DEF Holding, Issued
  <1>6. Typed /\ Others(c) /\ Alone(c)
    BY <1>1, <1>2, <1>3 DEF Typed, Others, Alone, TypeOK
  <1>7. faults' \in 0..MaxFaults
    <2>1. Fault \/ NoFault
      BY DEF ReleaseBinding, RuntimeLost, NoFault
    <2> QED BY <1>1, <2>1, FaultMeans
  <1> QED BY <1>2, <1>4, <1>5, <1>6, <1>7 DEF ProcessStep

\* A crash forgets everything a process knew.
LEMMA CrashStep ==
    ASSUME MachineInv, [Next]_vars, NEW c \in Controllers, Crash(c)
    PROVE  ProcessStep(c) /\ faults' \in 0..MaxFaults
  <1>1. TypeOK
    BY DEF MachineInv
  <1>2. Idle \in Job /\ Empty \in Memory /\ <<>> \in Seq(Ticket)
    BY DEF Idle, Job, Empty, Memory
  <1>3. /\ job' \in [Controllers -> Job] /\ mem' \in [Controllers -> Memory]
        /\ queue' \in [Controllers -> Seq(Ticket)]
        /\ job'[c] = Idle /\ mem'[c] = Empty /\ queue'[c] = <<>>
        /\ Others(c)
    BY <1>1, <1>2 DEF Crash, Others, TypeOK
  <1>4. Holding(c)' /\ Working(c)' /\ Claimed(c)' /\ Alone(c)
    BY <1>3 DEF Holding, Working, Claimed, Alone, Idle, Empty, Issued
  <1>5. faults' \in 0..MaxFaults
    BY <1>1, FaultMeans DEF Crash
  <1> QED BY <1>3, <1>4, <1>5 DEF ProcessStep, Typed

-----------------------------------------------------------------------------
(* The invariant is inductive.                                               *)

\* The variables that are neither rows nor what a process keeps.
RestTyped ==
    /\ routes' \subseteq Allocations /\ current' \subseteq Controllers
    /\ cube' \in [Allocations -> {"none", "alive", "gone"}] /\ posts' \subseteq Allocations
    /\ run' \in BOOLEAN /\ retained' \in BOOLEAN /\ up' \subseteq Controllers
    /\ faults' \in 0..MaxFaults

Quiet == UNCHANGED <<mem, queue, job>>

\* A step is one of a process, or of what processes do not see.
LEMMA StepMeans ==
    ASSUME MachineInv, [Next]_vars
    PROVE  RestTyped /\ (Quiet \/ \E c \in Controllers : ProcessStep(c))
  <1>1. TypeOK
    BY DEF MachineInv
  <1> DEFINE Goal == RestTyped /\ (Quiet \/ \E c \in Controllers : ProcessStep(c))
             Same == UNCHANGED <<routes, current, physical, demand, up>>
  <1>2. ASSUME NEW c \in Controllers, ProcessStep(c), Same, faults' \in 0..MaxFaults
        PROVE  Goal
    BY <1>1, <1>2 DEF RestTyped, physical, demand, TypeOK
  <1>3. ASSUME NEW c \in Controllers, Creation(c)
        PROVE  Goal
    <2>1. CASE StartCreate(c)
      <3>1. Same /\ faults' = faults
        BY <2>1 DEF StartCreate, database
      <3> QED BY <1>1, <1>2, <2>1, <3>1, StartCreateStep DEF TypeOK
    <2>2. CASE Reserve(c)
      <3>1. Same
        BY <2>2 DEF Reserve
      <3> QED BY <1>2, <2>2, <3>1, ReserveStep
    <2>3. CASE SetMaterializing(c)
      <3>1. Same
        BY <2>3 DEF SetMaterializing
      <3> QED BY <1>2, <2>3, <3>1, SetMaterializingStep
    <2>4. CASE BeginCreation(c)
      <3>1. Same
        BY <2>4 DEF BeginCreation
      <3> QED BY <1>2, <2>4, <3>1, BeginCreationStep
    <2>5. CASE PostCreate(c)
      <3>1. UNCHANGED <<routes, current, cube, demand, up, faults>>
        BY <2>5 DEF PostCreate, database
      <3>2. ProcessStep(c) /\ posts' \subseteq Allocations
        BY <2>5, PostCreateStep
      <3> QED BY <1>1, <3>1, <3>2 DEF RestTyped, demand, TypeOK
    <2>6. CASE Created(c)
      <3>1. Same
        BY <2>6 DEF Created, database
      <3> QED BY <1>2, <2>6, <3>1, CreatedStep
    <2>7. CASE StoreAllocated(c)
      <3>1. Same
        BY <2>7 DEF StoreAllocated
      <3> QED BY <1>2, <2>7, <3>1, StoreAllocatedStep
    <2>8. CASE Register(c)
      <3>1. UNCHANGED <<current, physical, demand, up>>
        BY <2>8 DEF Register
      <3>2. ProcessStep(c) /\ faults' \in 0..MaxFaults /\ routes' \subseteq Allocations
        BY <2>8, RegisterStep
      <3> QED BY <1>1, <3>1, <3>2 DEF RestTyped, physical, demand, TypeOK
    <2>9. CASE EndFailed(c)
      <3>1. Same /\ faults' = faults
        BY <2>9 DEF EndFailed, database
      <3> QED BY <1>1, <1>2, <2>9, <3>1, EndFailedStep DEF TypeOK
    <2> QED BY <1>3, <2>1, <2>2, <2>3, <2>4, <2>5, <2>6, <2>7, <2>8, <2>9 DEF Creation
  <1>4. ASSUME NEW c \in Controllers, Maintenance(c)
        PROVE  Goal
    <2>1. CASE Adopt(c)
      <3>1. Same
        BY <2>1 DEF Adopt, database
      <3> QED BY <1>2, <2>1, <3>1, AdoptStep
    <2>2. CASE Restore(c)
      <3>1. Same
        BY <2>2 DEF Restore
      <3> QED BY <1>2, <2>2, <3>1, RestoreStep
    <2>3. CASE CloseAllocation(c)
      <3>1. Same
        BY <2>3 DEF CloseAllocation
      <3> QED BY <1>2, <2>3, <3>1, CloseAllocationStep
    <2>4. CASE Destroy(c)
      <3>1. UNCHANGED <<routes, current, posts, demand, up>>
        BY <2>4 DEF Destroy, database
      <3>2. /\ ProcessStep(c) /\ faults' \in 0..MaxFaults
            /\ cube' \in [Allocations -> {"none", "alive", "gone"}]
        BY <2>4, DestroyStep
      <3> QED BY <1>1, <3>1, <3>2 DEF RestTyped, demand, TypeOK
    <2>5. CASE Unbind(c)
      <3>1. UNCHANGED <<current, physical, demand, up>>
        BY <2>5 DEF Unbind
      <3>2. ProcessStep(c) /\ faults' \in 0..MaxFaults /\ routes' \subseteq Allocations
        BY <2>5, UnbindStep
      <3> QED BY <1>1, <3>1, <3>2 DEF RestTyped, physical, demand, TypeOK
    <2>6. CASE Release(c)
      <3>1. Same
        BY <2>6 DEF Release
      <3> QED BY <1>2, <2>6, <3>1, ReleaseStep
    <2>7. CASE SetUnknown(c)
      <3>1. UNCHANGED <<current, physical, demand, up>>
        BY <2>7 DEF SetUnknown
      <3>2. ProcessStep(c) /\ faults' \in 0..MaxFaults /\ routes' \subseteq Allocations
        BY <2>7, SetUnknownStep
      <3> QED BY <1>1, <3>1, <3>2 DEF RestTyped, physical, demand, TypeOK
    <2>8. CASE StartRecover(c)
      <3>1. Same /\ faults' = faults
        BY <2>8 DEF StartRecover, database
      <3> QED BY <1>1, <1>2, <2>8, <3>1, StartRecoverStep DEF TypeOK
    <2>9. CASE StartRetire(c)
      <3>1. Same /\ faults' = faults
        BY <2>9 DEF StartRetire, database
      <3> QED BY <1>1, <1>2, <2>9, <3>1, StartRetireStep DEF TypeOK
    <2> QED BY <1>4, <2>1, <2>2, <2>3, <2>4, <2>5, <2>6, <2>7, <2>8, <2>9 DEF Maintenance
  <1>5. ASSUME NEW c \in Controllers, Request(c) \/ \E a \in Allocations : Claims(c, a)
        PROVE  Goal
    <2>1. Same
      BY <1>5 DEF Request, Claims, ClaimRecoverable, ClaimOrphaned, ClaimUnbound, database
    <2> QED BY <1>2, <1>5, <2>1, JoiningStep
  <1>6. ASSUME NEW c \in Controllers, ReleaseBinding(c) \/ RuntimeLost(c)
        PROVE  Goal
    <2>1. UNCHANGED <<current, physical, demand, up>>
      BY <1>6 DEF ReleaseBinding, RuntimeLost, database
    <2>2. ProcessStep(c) /\ faults' \in 0..MaxFaults /\ routes' \subseteq Allocations
      BY <1>6, HeldStep
    <2> QED BY <1>1, <2>1, <2>2 DEF RestTyped, physical, demand, TypeOK
  <1>7. ASSUME NEW c \in Controllers, Crash(c)
        PROVE  Goal
    <2>1. UNCHANGED <<routes, current, physical, demand>> /\ up' \subseteq up
      BY <1>7 DEF Crash, database
    <2>2. ProcessStep(c) /\ faults' \in 0..MaxFaults
      BY <1>7, CrashStep
    <2> QED BY <1>1, <2>1, <2>2 DEF RestTyped, physical, demand, TypeOK
  <1>8. ASSUME NEW c \in Controllers, LeaseExpires(c)
        PROVE  Goal
    <2>1. UNCHANGED <<routes, physical, demand, process>> /\ current' \subseteq current
          /\ (Fault \/ NoFault)
      BY <1>8 DEF LeaseExpires
    <2>2. faults' \in 0..MaxFaults
      BY <1>1, <2>1, FaultMeans
    <2> QED BY <1>1, <2>1, <2>2 DEF RestTyped, Quiet, process, physical, demand, TypeOK
  <1>9. ASSUME NEW a \in Allocations, ReconcileOwner(a) \/ CubeCreates(a) \/ CubeRetires(a)
        PROVE  Goal
    <2>1. CASE ReconcileOwner(a)
      BY <1>1, <2>1 DEF ReconcileOwner, RestTyped, Quiet, process, physical, demand, TypeOK
    <2>2. CASE CubeCreates(a)
      BY <1>1, <2>2 DEF CubeCreates, RestTyped, Quiet, process, database, demand, TypeOK
    <2>3. CASE CubeRetires(a)
      <3>1. UNCHANGED <<database, posts, demand, process>> /\ cube' = [cube EXCEPT ![a] = "gone"]
            /\ faults' \in 0..MaxFaults
        BY <1>1, <2>3, FaultMeans DEF CubeRetires
      <3> QED BY <1>1, <3>1 DEF RestTyped, Quiet, process, database, demand, TypeOK
    <2> QED BY <1>9, <2>1, <2>2, <2>3
  <1>10. CASE RunStarts \/ RunEnds \/ LastConversationEnds \/ UNCHANGED vars
    BY <1>1, <1>10 DEF RunStarts, RunEnds, LastConversationEnds, vars, RestTyped, Quiet, process,
                      database, physical, demand, TypeOK
  <1> QED BY <1>3, <1>4, <1>5, <1>6, <1>7, <1>8, <1>9, <1>10 DEF Next

\* What every process holds, knows and has claimed stays true.
LEMMA ProcessesStay ==
    ASSUME MachineInv, [Next]_vars
    PROVE  Typed /\ ProcessInv'
  <1>1. ASSUME NEW d \in Controllers, job'[d] = job[d], mem'[d] = mem[d], queue'[d] = queue[d]
        PROVE  Holding(d)' /\ Working(d)' /\ Claimed(d)'
    <2>1. Holding(d)'
      BY <1>1, HoldingStays
    <2>2. Working(d)'
      BY <1>1, WorkingStays
    <2>3. Claimed(d)'
      BY <1>1, ClaimedStays
    <2> QED BY <2>1, <2>2, <2>3
  <1>2. CASE Quiet
    <2>1. Typed
      BY <1>2 DEF Quiet, Typed, MachineInv, TypeOK
    <2> QED BY <1>1, <1>2, <2>1 DEF ProcessInv, Quiet
  <1>3. ASSUME NEW c \in Controllers, ProcessStep(c)
        PROVE  Typed /\ ProcessInv'
    BY <1>1, <1>3 DEF ProcessStep, ProcessInv, Others
  <1> QED BY <1>2, <1>3, StepMeans

\* An allocation that is not issued still belongs to one creation.
LEMMA AloneStays ==
    ASSUME MachineInv, [Next]_vars
    PROVE  AloneInv'
  <1>1. TypeOK /\ RowInv /\ ProcessInv /\ AloneInv
    BY DEF MachineInv
  <1> SUFFICES ASSUME NEW c \in Controllers, NEW d \in Controllers, c # d,
                      job'[c].op = "create", job'[d].op = "create", job'[c].a = job'[d].a,
                      ~row'[job'[c].a].issued
               PROVE  FALSE
    BY DEF AloneInv, Issued
  <1> DEFINE a == job'[c].a
  <1>2. ASSUME NEW e \in Controllers, NEW f \in Controllers, e # f,
               job[f].op = "create", job[f].a = a, Alone(e), job'[e].op = "create", job'[e].a = a
        PROVE  FALSE
    <2>1. a \in Allocations
      <3>1. job[f].pc \in Steps
        BY <1>1, <1>2, JobRead
      <3> QED BY <1>1, <1>2, <3>1, JobRead
    <2>2. ~Issued(a)
      BY <1>1, <2>1, Monotone DEF Issued
    <2>3. job[e].op = "create" /\ job[e].a = a
      BY <1>2 DEF Alone
    <2> QED BY <1>1, <1>2, <2>2, <2>3 DEF AloneInv
  <1>3. CASE Quiet
    <2>1. job' = job
      BY <1>3 DEF Quiet
    <2>2. Alone(c)
      BY <2>1 DEF Alone
    <2> QED BY <1>2, <2>1, <2>2
  <1>4. ASSUME NEW e \in Controllers, ProcessStep(e)
        PROVE  FALSE
    <2>1. Alone(e) /\ \A f \in Controllers : f # e => job'[f] = job[f]
      BY <1>4 DEF ProcessStep, Others
    <2>2. ASSUME NEW f \in Controllers, f # e
          PROVE  Alone(f)
      BY <2>1, <2>2 DEF Alone
    <2>3. CASE d # e
      <3>1. Alone(c)
        BY <2>1, <2>2
      <3>2. job[d].op = "create" /\ job[d].a = a
        BY <2>1, <2>3
      <3> QED BY <1>2, <3>1, <3>2
    <2>4. CASE d = e
      <3>1. job[c].op = "create" /\ job[c].a = a
        BY <2>1, <2>4
      <3> QED BY <1>2, <2>1, <2>4, <3>1
    <2> QED BY <2>3, <2>4
  <1> QED BY <1>3, <1>4, StepMeans

\* What is true of every row.
LEMMA RowsStay ==
    ASSUME MachineInv, [Next]_vars
    PROVE  RowInv'
  <1>1. TypeOK /\ RowInv /\ ProcessInv
    BY DEF MachineInv
  <1> SUFFICES ASSUME NEW a \in Allocations
               PROVE  /\ row'[a].state = "none" => row'[a] = Unused
                      /\ row'[a].capsule => row'[a].issued
                      /\ row'[a].closed => row'[a].state \in {"cleaning", "unknown", "released"}
                      /\ cube'[a] = "alive" \/ a \in posts' => row'[a].issued
                      /\ row'[a].state = "released" => cube'[a] = "gone" \/ ~row'[a].issued
    BY DEF RowInv, Issued
  <1>2. RowMove(a)
    BY <1>1, RowSteps DEF RowMoves
  <1>3. /\ row[a].state = "none" => row[a] = Unused
        /\ row[a].capsule => row[a].issued
        /\ row[a].closed => row[a].state \in {"cleaning", "unknown", "released"}
        /\ cube[a] = "alive" \/ a \in posts => row[a].issued
        /\ row[a].state = "released" => cube[a] = "gone" \/ ~row[a].issued
    BY <1>1 DEF RowInv, Issued
  <1>4. /\ row[a].issued => row'[a].issued
        /\ cube[a] = "gone" => cube'[a] = "gone"
        /\ cube'[a] = "alive" => cube[a] = "alive" \/ a \in posts
        /\ a \in posts' => a \in posts \/ \E c \in Controllers : job[c].pc = "post"
                                                               /\ job[c].a = a
    BY <1>1, Monotone DEF Issued
  <1>5. \A c \in Controllers : job[c].pc = "post" /\ job[c].a = a => row[a].issued
    BY <1>1 DEF ProcessInv, Working, Issued
  <1>6. cube'[a] = "alive" \/ a \in posts' => row'[a].issued
    BY <1>3, <1>4, <1>5
  <1>7. row'[a].state = "released" => cube'[a] = "gone" \/ ~row'[a].issued
    <2>1. CASE row[a].state = "released"
      BY <1>3, <1>4, <2>1, NotIssuedStays DEF Issued
    <2>2. CASE row'[a].state = "released" /\ row[a].state # "released"
      <3>1. Keeps(a)
        BY <1>2, <2>2 DEF RowMove, Reserves
      <3>2. PICK c \in Controllers : job[c].pc = "release" /\ job[c].a = a
        BY <2>2, <3>1 DEF Keeps
      <3>3. cube[a] = "gone" \/ (~row[a].issued /\ (row[a].closed \/ job[c].op = "create"))
        BY <1>1, <3>2 DEF ProcessInv, Working, Issued
      <3>4. ~Issues(c, a)
        BY <3>2 DEF Issues
      <3> QED BY <1>4, <3>2, <3>3, <3>4, NotIssuedStays DEF Issued
    <2> QED BY <2>1, <2>2
  <1>8. row'[a].state = "none" => row'[a] = Unused
    BY <1>2, <1>3 DEF RowMove, Reserves, Keeps
  <1>9. row'[a].capsule => row'[a].issued
    BY <1>2, <1>3 DEF RowMove, Reserves, Keeps
  <1>10. row'[a].closed => row'[a].state \in {"cleaning", "unknown", "released"}
    BY <1>2, <1>3 DEF RowMove, Reserves, Keeps
  <1> QED BY <1>6, <1>7, <1>8, <1>9, <1>10

\* The Workspace has one allocation that is not released.
LEMMA LiveStays ==
    ASSUME MachineInv, [Next]_vars
    PROVE  LiveInv'
  <1>1. TypeOK /\ RowInv /\ ProcessInv /\ LiveInv
    BY DEF MachineInv
  <1>2. RowMoves
    BY <1>1, RowSteps
  <1>3. \A a \in Allocations : row[a] \in Row /\ row'[a] \in Row
    BY <1>1, <1>2 DEF RowMoves, TypeOK
  <1> SUFFICES ASSUME NEW a \in Allocations, NEW b \in Allocations, a # b,
                      row'[a].state \in LiveStates, row'[b].state \in LiveStates
               PROVE  FALSE
    BY DEF LiveInv, Live
  <1>4. ASSUME NEW x \in Allocations, NEW y \in Allocations, x # y, Reserves(x),
               row'[y].state \in LiveStates
        PROVE  FALSE
    <2>1. row'[y] = row[y]
      BY <1>4 DEF Reserves
    <2>2. y \in Live
      BY <1>4, <2>1 DEF Live
    <2> QED BY <1>4, <2>2 DEF Reserves
  <1>5. ~Reserves(a) /\ ~Reserves(b)
    BY <1>4
  <1>6. ASSUME NEW x \in {a, b}
        PROVE  x \in Live
    <2>1. row'[x] = row[x] \/ Keeps(x)
      BY <1>2, <1>5 DEF RowMoves, RowMove
    <2>2. CASE row'[x] = row[x]
      BY <2>2 DEF Live
    <2>3. CASE Keeps(x)
      <3>1. row[x].state # "none" /\ row[x].state # "released"
        BY <2>3 DEF Keeps, LiveStates
      <3>2. row[x].state \in RowStates
        BY <1>3 DEF Row
      <3> QED BY <3>1, <3>2 DEF Live, LiveStates, RowStates
    <2> QED BY <2>1, <2>2, <2>3
  <1> QED BY <1>1, <1>6 DEF LiveInv

\* The initial states satisfy the invariant.
LEMMA InitMachine ==
    ASSUME Init
    PROVE  MachineInv
  <1>1. Unused \in Row /\ Unused.state = "none" /\ ~Unused.issued /\ ~Unused.closed
        /\ ~Unused.capsule
    BY DEF Unused, Row, RowStates
  <1>2. Empty \in Memory /\ Idle \in Job /\ <<>> \in Seq(Ticket)
    BY DEF Empty, Memory, Idle, Job
  <1>3. TypeOK
    <2>1. row \in [Allocations -> Row] /\ cube \in [Allocations -> {"none", "alive", "gone"}]
      BY <1>1 DEF Init
    <2>2. /\ mem \in [Controllers -> Memory] /\ queue \in [Controllers -> Seq(Ticket)]
          /\ job \in [Controllers -> Job]
      BY <1>2 DEF Init
    <2>3. /\ routes \subseteq Allocations /\ current \subseteq Controllers
          /\ posts \subseteq Allocations /\ run \in BOOLEAN /\ retained \in BOOLEAN
          /\ up \subseteq Controllers
      BY DEF Init
    <2>4. faults \in 0..MaxFaults
      BY BoundAssumption DEF Init
    <2> QED BY <2>1, <2>2, <2>3, <2>4 DEF TypeOK
  <1>4. RowInv
    BY <1>1 DEF Init, RowInv, Issued
  <1>5. \A c \in Controllers : mem[c] = Empty /\ job[c] = Idle /\ queue[c] = <<>>
    BY DEF Init
  <1>6. ProcessInv
    BY <1>5 DEF ProcessInv, Holding, Working, Claimed, Empty, Idle
  <1>7. AloneInv
    BY <1>5 DEF AloneInv, Idle
  <1>8. LiveInv
    BY <1>1 DEF Init, LiveInv, Live, LiveStates
  <1> QED BY <1>3, <1>4, <1>6, <1>7, <1>8 DEF MachineInv

\* Every step keeps the invariant.
LEMMA NextMachine ==
    ASSUME MachineInv, [Next]_vars
    PROVE  MachineInv'
  <1>1. row' \in [Allocations -> Row]
    BY RowSteps DEF MachineInv, RowMoves
  <1>2. RestTyped /\ Typed
    BY StepMeans, ProcessesStay
  <1>3. TypeOK'
    BY <1>1, <1>2 DEF TypeOK, RestTyped, Typed
  <1> QED BY <1>3, ProcessesStay, AloneStays, RowsStay, LiveStays DEF MachineInv

-----------------------------------------------------------------------------
(* The theorems.                                                             *)

\* The invariant of every behaviour.
THEOREM MachineInvariant == Spec => []MachineInv
  <1>1. Init => MachineInv
    BY InitMachine
  <1>2. MachineInv /\ [Next]_vars => MachineInv'
    BY NextMachine
  <1> QED BY <1>1, <1>2, PTL DEF Spec

\* Rows, routes, machines, requests and what the processes hold stay well typed.
THEOREM TypeCorrect == Spec => []TypeOK
  <1>1. MachineInv => TypeOK
    BY DEF MachineInv
  <1> QED BY <1>1, MachineInvariant, PTL

\* The Workspace never has two machines, for any number of controllers that
\* crash, lose their leases or their replies, and any number of requests on
\* their way: what is alive was issued, is not released, and so is the one live
\* allocation of the Workspace.
THEOREM OneMachineHolds == Spec => []OneMachine
  <1>1. ASSUME MachineInv PROVE OneMachine
    <2> DEFINE Alive == {a \in Allocations : cube[a] = "alive"}
    <2>1. TypeOK /\ RowInv /\ LiveInv
      BY <1>1 DEF MachineInv
    <2>2. ASSUME NEW a \in Alive PROVE a \in Live
      <3>1. a \in Allocations /\ cube[a] = "alive" /\ row[a].issued
        BY <2>1 DEF RowInv, Issued
      <3>2. row[a].state # "none" /\ row[a].state # "released"
        BY <2>1, <3>1 DEF RowInv, Unused, Issued
      <3>3. row[a].state \in RowStates
        BY <2>1, <3>1 DEF TypeOK, Row
      <3> QED BY <3>1, <3>2, <3>3 DEF Live, LiveStates, RowStates
    <2>3. \A a, b \in Alive : a = b
      BY <2>1, <2>2 DEF LiveInv
    <2> HIDE DEF Alive
    <2>4. Alive = {} \/ \E a : Alive = {a}
      BY <2>3
    <2>5. Cardinality(Alive) = 0 \/ Cardinality(Alive) = 1
      <3>1. CASE Alive = {}
        BY <3>1, FS_EmptySet
      <3>2. CASE \E a : Alive = {a}
        BY <3>2, FS_Singleton
      <3> QED BY <2>4, <3>1, <3>2
    <2>6. Cardinality(Alive) <= 1
      BY <2>5
    <2> QED BY <2>6 DEF OneMachine, Alive
  <1> QED BY <1>1, MachineInvariant, PTL

\* A released allocation has no machine, and a request that arrives late makes
\* none: it is gone at Cube, or no request of it was ever issued.
THEOREM ReleasedIsGoneHolds == Spec => []ReleasedIsGone
  <1>1. MachineInv => ReleasedIsGone
    BY DEF MachineInv, RowInv, Issued, ReleasedIsGone
  <1> QED BY <1>1, MachineInvariant, PTL

\* No step of any controller reopens a closed allocation.
THEOREM ClosedForGoodHolds == Spec => ClosedForGood
  <1>1. ASSUME MachineInv, [Next]_vars, NEW a \in Allocations, row[a].closed
        PROVE  /\ row'[a].closed
               /\ row[a].state = "released" => row'[a].state = "released"
               /\ row'[a].state \in {"cleaning", "unknown", "released"}
    <2>1. RowMove(a)
      BY <1>1, RowSteps DEF MachineInv, RowMoves
    <2>2. row[a].state \in {"cleaning", "unknown", "released"}
      BY <1>1 DEF MachineInv, RowInv
    <2> QED BY <1>1, <2>1, <2>2 DEF RowMove, Reserves, Keeps
  <1>2. MachineInv /\ [Next]_vars =>
          [\A a \in Allocations : row[a].closed =>
             /\ row'[a].closed
             /\ row[a].state = "released" => row'[a].state = "released"
             /\ row'[a].state \in {"cleaning", "unknown", "released"}]_vars
    BY <1>1
  <1> QED BY <1>2, MachineInvariant, PTL DEF Spec, ClosedForGood
=============================================================================
