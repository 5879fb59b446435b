------------------------- MODULE WorkspaceRuntimes --------------------------
(***************************************************************************)
(* The virtual machine of one Workspace under several Sandbox controllers: *)
(* the workspace_runtimes row of every allocation, the Cube allocation it  *)
(* authorizes, and what each controller process holds in memory. Creation, *)
(* recovery and retirement are serialized in a process and not between     *)
(* processes; releases and failure reports interleave with them. Every     *)
(* write of a row is an owned transaction (ControllerLease): it commits    *)
(* only while its identity is current, and its reply may be lost. Calls to *)
(* Cube are fenced by nothing but the allocation's own closure.            *)
(***************************************************************************)
EXTENDS Naturals, FiniteSets, Sequences

CONSTANTS Controllers,  \* identities of controller processes
          Allocations,  \* workspace_runtime_id, given out once
          Nothing,
          MaxFaults     \* failed calls and lost replies

\* What stands for no controller, and for no allocation.
ASSUME NothingAssumption == Nothing \notin Controllers \cup Allocations
ASSUME BoundAssumption == MaxFaults \in Nat

VARIABLES
    row,      \* workspace_runtimes
    routes,   \* allocations with an open sandbox_tool_bindings row
    current,  \* identities with a ready, unexpired sandbox_control_instances row
    cube,     \* allocations at Cube: none, alive, gone (closed and absent)
    posts,    \* allocations with a create request on its way
    run,      \* an execution scope of the Workspace is active
    retained, \* a conversation of the Workspace is left
    up,       \* processes alive
    mem,      \* runtime a process holds (#toolBindings, #warm)
    queue,    \* operations waiting for the turn of the Workspace, in order
    job,      \* operation that has the turn
    faults

database == <<row, routes, current>>
physical == <<cube, posts>>
demand == <<run, retained>>
process == <<up, mem, queue, job>>
vars == <<database, physical, demand, process, faults>>

RowStates == {"none", "reserved", "materializing", "allocated", "cleaning", "unknown", "released"}
Row == [state : RowStates, owner : Controllers \cup {Nothing},
        issued : BOOLEAN,      \* creation_spec and creation_not_after
        closed : BOOLEAN,      \* allocation_closed
        capsule : BOOLEAN,     \* runtime_capsule
        unconfirmed : BOOLEAN] \* a failure code that excludes recovery
Unused == [state |-> "none", owner |-> Nothing, issued |-> FALSE, closed |-> FALSE,
           capsule |-> FALSE, unconfirmed |-> FALSE]

Memory == [a : Allocations \cup {Nothing}, handle : BOOLEAN, failed : BOOLEAN,
           bound : BOOLEAN, warm : BOOLEAN]
Empty == [a |-> Nothing, handle |-> FALSE, failed |-> FALSE, bound |-> FALSE, warm |-> FALSE]

Steps == {"reserve", "materialize", "begin", "post", "creating", "store", "register",
          "adopt", "restore", "close", "destroy", "seal", "unbind", "release", "unsure", "fail"}
Job == [op : {"create", "recover", "retire"}, a : Allocations, pc : Steps]
       \cup {[op |-> "idle", a |-> Nothing, pc |-> "idle"]}
Idle == [op |-> "idle", a |-> Nothing, pc |-> "idle"]

Ticket == [op : {"recover", "retire"}, a : Allocations] \cup {[op |-> "create", a |-> Nothing]}

TypeOK ==
    /\ row \in [Allocations -> Row]
    /\ routes \subseteq Allocations
    /\ current \subseteq Controllers
    /\ cube \in [Allocations -> {"none", "alive", "gone"}]
    /\ posts \subseteq Allocations
    /\ run \in BOOLEAN /\ retained \in BOOLEAN
    /\ up \subseteq Controllers
    /\ mem \in [Controllers -> Memory]
    /\ queue \in [Controllers -> Seq(Ticket)]
    /\ job \in [Controllers -> Job]
    /\ faults \in 0..MaxFaults

Init ==
    /\ row = [a \in Allocations |-> Unused]
    /\ routes = {} /\ current = Controllers
    /\ cube = [a \in Allocations |-> "none"] /\ posts = {}
    /\ run = FALSE /\ retained = TRUE
    /\ up = Controllers
    /\ mem = [c \in Controllers |-> Empty]
    /\ queue = [c \in Controllers |-> <<>>]
    /\ job = [c \in Controllers |-> Idle]
    /\ faults = 0

Fault == faults < MaxFaults /\ faults' = faults + 1
NoFault == UNCHANGED faults

LiveStates == {"reserved", "materializing", "allocated", "cleaning", "unknown"}
Live == {a \in Allocations : row[a].state \in LiveStates}

Owns(c, a) == row[a].owner = c
At(c, pc) == c \in up /\ job[c].pc = pc
Goto(c, pc) == job' = [job EXCEPT ![c].pc = pc]

\* A runtime no index of the process refers to is forgotten.
Settled(m) == IF m.bound \/ m.warm THEN m ELSE Empty
Finish(c, m) ==
    /\ job' = [job EXCEPT ![c] = Idle]
    /\ mem' = [mem EXCEPT ![c] = Settled(m)]

\* The transaction commits and the operation goes on; or it fails, having
\* committed or not; or the identity is no longer current.
Owned(c, rows, next, failed) ==
    \/ c \in current /\ row' = rows /\ Goto(c, next) /\ NoFault
    \/ c \in current /\ Fault /\ row' \in {row, rows} /\ Goto(c, failed)
    \/ c \notin current /\ UNCHANGED row /\ Goto(c, failed) /\ NoFault

\* setWorkspaceRuntimeState refuses a released row, a row of another owner,
\* and to go on with an allocation that is closed.
Settable(c, a, state) ==
    /\ Owns(c, a) /\ row[a].state # "released"
    /\ state \in {"allocated", "materializing"} => ~row[a].closed

\* A write whose guard the row must satisfy; refused, it is an error as well.
Change(c, guard, rows, next, failed) ==
    \/ guard /\ Owned(c, rows, next, failed)
    \/ ~guard /\ Goto(c, failed) /\ UNCHANGED row /\ NoFault

Set(c, state, rows, next, failed) == Change(c, Settable(c, job[c].a, state), rows, next, failed)

Allocated(a) == [row EXCEPT ![a].state = "allocated", ![a].capsule = TRUE, ![a].unconfirmed = FALSE]

-----------------------------------------------------------------------------
(* create.                                                                  *)

Fresh == {a \in Allocations : row[a].state = "none"
                              /\ \A c \in Controllers : job[c].a # a /\ mem[c].a # a}

Waiting(c, op) == job[c].op = op \/ \E k \in DOMAIN queue[c] : queue[c][k].op = op

Request(c) ==
    /\ c \in up /\ run /\ ~Waiting(c, "create")
    /\ queue' = [queue EXCEPT ![c] = Append(@, [op |-> "create", a |-> Nothing])]
    /\ UNCHANGED <<database, physical, demand, up, mem, job, faults>>

\* #serializeWorkspaceRuntimeProvisioning.
Turn(c, op) ==
    /\ c \in up /\ job[c] = Idle /\ queue[c] # <<>> /\ Head(queue[c]).op = op
    /\ queue' = [queue EXCEPT ![c] = Tail(@)]

\* The process reuses the runtime it holds. Without an identity left (a bound of
\* the model) the request is dropped.
StartCreate(c) ==
    LET ids == IF mem[c].a = Nothing THEN Fresh ELSE {mem[c].a} IN
    /\ Turn(c, "create")
    /\ \/ \E a \in ids :
            /\ job' = [job EXCEPT ![c] = [op |-> "create", a |-> a, pc |-> "reserve"]]
            /\ mem' = [mem EXCEPT ![c].a = a, ![c].warm = FALSE]
       \/ ids = {} /\ UNCHANGED <<job, mem>>
    /\ UNCHANGED <<database, physical, demand, up, faults>>

Reserved(c, a) ==
    [row EXCEPT ![a] = [Unused EXCEPT !.state = "reserved", !.owner = c]]

\* Mutant: a retirement under way does not keep a successor out.
AdmittedBesideRetirement(c, a) ==
    \/ row[a].state = "none" /\ \A x \in Live : row[x].state \in {"cleaning", "unknown"}
    \/ Live = {a} /\ Owns(c, a) /\ row[a].state \in {"reserved", "materializing", "allocated"}

\* The Workspace has no other live allocation, or this very one in use.
Admitted(c, a) ==
    IF Live = {} THEN row[a].state = "none"
    ELSE Live = {a} /\ Owns(c, a) /\ row[a].state \in {"reserved", "materializing", "allocated"}

\* A redirect, busy, a stale execution scope or an error end the request.
Reserve(c) ==
    LET a == job[c].a
        rows == IF row[a].state = "none" THEN Reserved(c, a) ELSE row IN
    /\ At(c, "reserve")
    /\ \/ /\ c \in current /\ run /\ Admitted(c, a)
          /\ row' = rows
          /\ Goto(c, CASE mem[c].failed -> "fail"
                       [] mem[c].handle -> "register" [] OTHER -> "materialize")
          /\ mem' = [mem EXCEPT ![c].bound = TRUE] /\ NoFault
       \/ /\ c \in current /\ run /\ Admitted(c, a) /\ Fault
          /\ row' \in {row, rows} /\ Finish(c, mem[c])
       \/ /\ ~(c \in current /\ run /\ Admitted(c, a)) /\ NoFault
          /\ Finish(c, mem[c]) /\ UNCHANGED row
    /\ UNCHANGED <<routes, current, physical, demand, up, queue>>

SetMaterializing(c) ==
    LET a == job[c].a IN
    /\ At(c, "materialize")
    /\ Set(c, "materializing", [row EXCEPT ![a].state = "materializing"], "begin", "fail")
    /\ UNCHANGED <<routes, current, physical, demand, up, mem, queue>>

\* beginCreation keeps the specification and the window of the first time. A
\* creation the local admission turns away was never issued.
BeginCreation(c) ==
    LET a == job[c].a IN
    /\ At(c, "begin")
    /\ \/ /\ ~row[a].closed /\ row[a].state \in {"reserved", "materializing", "unknown"}
          /\ Owns(c, a)
          /\ Owned(c, [row EXCEPT ![a].issued = TRUE], "post", "unsure")
       \/ /\ row[a].closed \/ ~Owns(c, a)
             \/ row[a].state \notin {"reserved", "materializing", "unknown"}
          /\ Goto(c, "unsure") /\ UNCHANGED row /\ NoFault
       \/ job[c].op = "create" /\ Fault /\ Goto(c, "release") /\ UNCHANGED row
    /\ UNCHANGED <<routes, current, physical, demand, up, mem, queue>>

\* The create request leaves; the process may not live to see its answer.
PostCreate(c) ==
    /\ At(c, "post")
    /\ posts' = posts \cup {job[c].a}
    /\ Goto(c, "creating")
    /\ UNCHANGED <<database, cube, demand, up, mem, queue, faults>>

\* Mutant: an answer that does not come is taken for a refusal.
CreatedOrAbsent(c) ==
    LET a == job[c].a IN
    /\ At(c, "creating")
    /\ \/ /\ a \notin posts /\ cube[a] = "alive" /\ NoFault
          /\ Goto(c, IF job[c].op = "create" THEN "store" ELSE "restore")
          /\ mem' = IF job[c].op = "create" THEN [mem EXCEPT ![c].handle = TRUE] ELSE mem
       \/ a \notin posts /\ cube[a] = "gone" /\ Goto(c, "close") /\ NoFault /\ UNCHANGED mem
       \/ Fault /\ Goto(c, "release") /\ UNCHANGED mem
    /\ UNCHANGED <<database, physical, demand, up, queue>>

\* Created, or found under the same identity; closed at Cube; created and found
\* unfit; or no usable answer.
Created(c) ==
    LET a == job[c].a IN
    /\ At(c, "creating")
    /\ \/ /\ a \notin posts /\ cube[a] = "alive" /\ NoFault
          /\ Goto(c, IF job[c].op = "create" THEN "store" ELSE "restore")
          /\ mem' = IF job[c].op = "create" THEN [mem EXCEPT ![c].handle = TRUE] ELSE mem
       \/ a \notin posts /\ cube[a] = "gone" /\ Goto(c, "close") /\ NoFault /\ UNCHANGED mem
       \/ Fault /\ (Goto(c, "close") \/ Goto(c, "unsure")) /\ UNCHANGED mem
    /\ UNCHANGED <<database, physical, demand, up, queue>>

StoreAllocated(c) ==
    LET a == job[c].a IN
    /\ At(c, "store")
    /\ Set(c, "allocated", Allocated(a), "register", "unsure")
    /\ UNCHANGED <<routes, current, physical, demand, up, mem, queue>>

\* bindings.register is a plain insert.
Register(c) ==
    LET a == job[c].a IN
    /\ At(c, "register")
    /\ \/ run /\ routes' = routes \cup {a} /\ Finish(c, mem[c]) /\ NoFault
       \/ ~run /\ Goto(c, "fail") /\ UNCHANGED <<routes, mem>> /\ NoFault
       \/ Fault /\ Goto(c, "fail") /\ UNCHANGED <<routes, mem>>
    /\ UNCHANGED <<row, current, physical, demand, up, queue>>

\* create ends with an error: its binding goes, a runtime with a handle is warm.
EndFailed(c) ==
    /\ At(c, "fail")
    /\ Finish(c, [mem[c] EXCEPT !.bound = FALSE, !.warm = mem[c].handle])
    /\ UNCHANGED <<database, physical, demand, up, queue, faults>>

\* #releaseElasticBinding, keep_warm, after the binding row was closed.
ReleaseBinding(c) ==
    /\ c \in up /\ mem[c].bound /\ mem[c].handle /\ mem[c].a \notin routes
    /\ ~(job[c].op = "create" /\ job[c].pc # "reserve")
    /\ mem' = [mem EXCEPT ![c].bound = FALSE, ![c].warm = TRUE]
    /\ UNCHANGED <<database, physical, demand, up, queue, job, faults>>

-----------------------------------------------------------------------------
(* Claims of the maintenance loops: one transaction each, then the claimed  *)
(* allocation waits for the turn of its Workspace.                          *)

\* Allocations a process can find through #warm, #toolBindings or a terminal.
Known(c) == IF mem[c].bound \/ mem[c].warm THEN {mem[c].a} ELSE {}

Claim(c, op, a, new) ==
    /\ c \in up /\ c \in current /\ ~Waiting(c, op)
    /\ row' = [row EXCEPT ![a] = new]
    /\ \/ queue' = [queue EXCEPT ![c] = Append(@, [op |-> op, a |-> a])] /\ NoFault
       \/ Fault /\ UNCHANGED queue

Recoverable(c, a) ==
    /\ row[a].state \in {"allocated", "unknown", "materializing"}
    /\ ~row[a].closed /\ (row[a].capsule \/ row[a].issued) /\ ~row[a].unconfirmed
    /\ a \notin Known(c) /\ (Owns(c, a) \/ row[a].owner \notin current)

ClaimRecoverable(c, a) ==
    /\ Recoverable(c, a)
    /\ Claim(c, "recover", a, [row[a] EXCEPT !.owner = c])
    /\ UNCHANGED <<routes, current, physical, demand, up, mem, job>>

\* Mutant: a retirement begun by another process is not taken up.
ClaimUnknown(c, a) ==
    /\ row[a].state = "unknown" /\ (Owns(c, a) \/ row[a].owner \notin current)
    /\ Claim(c, "retire", a, [row[a] EXCEPT !.owner = c, !.state = "cleaning"])
    /\ UNCHANGED <<routes, current, physical, demand, up, mem, job>>

ClaimOrphaned(c, a) ==
    /\ row[a].state \in {"unknown", "cleaning"} /\ (Owns(c, a) \/ row[a].owner \notin current)
    /\ Claim(c, "retire", a, [row[a] EXCEPT !.owner = c, !.state = "cleaning"])
    /\ UNCHANGED <<routes, current, physical, demand, up, mem, job>>

\* Abandoned before it was allocated, or no conversation of the Workspace left.
ClaimUnbound(c, a) ==
    /\ Owns(c, a) /\ ~run
    /\ row[a].state \in {"reserved", "materializing"} \/ (row[a].state = "allocated" /\ ~retained)
    /\ Claim(c, "retire", a, [row[a] EXCEPT !.state = "cleaning", !.unconfirmed = FALSE])
    /\ UNCHANGED <<routes, current, physical, demand, up, mem, job>>

\* reconcileOwnership of any controller.
ReconcileOwner(a) ==
    /\ \E c \in up : c \in current
    /\ row[a].owner \notin current \cup {Nothing} /\ ~row[a].capsule
    /\ row[a].state \in {"reserved", "materializing", "allocated"}
    /\ row' = [row EXCEPT ![a].state = "unknown", ![a].unconfirmed = FALSE]
    /\ routes' = routes \ {a}
    /\ UNCHANGED <<current, physical, demand, process, faults>>

-----------------------------------------------------------------------------
(* Recovery and retirement.                                                 *)

StartRecover(c) ==
    LET a == Head(queue[c]).a IN
    /\ Turn(c, "recover")
    /\ job' = IF a \in Known(c) THEN job
              ELSE [job EXCEPT ![c] = [op |-> "recover", a |-> a,
                                       pc |-> IF row[a].capsule THEN "adopt" ELSE "begin"]]
    /\ UNCHANGED <<database, physical, demand, up, mem, faults>>

StartRetire(c) ==
    LET a == Head(queue[c]).a IN
    /\ Turn(c, "retire")
    /\ job' = [job EXCEPT ![c] = [op |-> "retire", a |-> a, pc |-> "close"]]
    /\ mem' = IF mem[c].a = a THEN [mem EXCEPT ![c] = Empty] ELSE mem
    /\ UNCHANGED <<database, physical, demand, up, faults>>

\* adoptPersistentCapsule probes the machine, and knows a retired one.
Adopt(c) ==
    /\ At(c, "adopt")
    /\ \/ cube[job[c].a] = "alive" /\ Goto(c, "restore") /\ NoFault
       \/ cube[job[c].a] = "gone" /\ Goto(c, "seal") /\ NoFault
       \/ Fault /\ Goto(c, "unsure")
    /\ UNCHANGED <<database, physical, demand, up, mem, queue>>

\* The bindings come back with the runtime; a failure leaves it to the next pass.
Restore(c) ==
    LET a == job[c].a IN
    /\ At(c, "restore")
    /\ \/ /\ c \in current /\ Settable(c, a, "allocated") /\ row' = Allocated(a) /\ NoFault
          /\ Finish(c, [a |-> a, handle |-> TRUE, failed |-> FALSE,
                        bound |-> a \in routes, warm |-> a \notin routes])
       \/ /\ ~(c \in current /\ Settable(c, a, "allocated")) /\ UNCHANGED row /\ NoFault
          /\ Finish(c, mem[c])
       \/ /\ Fault /\ Finish(c, mem[c])
          /\ row' \in {row} \cup
               IF c \in current /\ Settable(c, a, "allocated") THEN {Allocated(a)} ELSE {}
    /\ UNCHANGED <<routes, current, physical, demand, up, queue>>

\* closeAllocation. An allocation that was never issued has no machine.
Closing(a) == [row EXCEPT ![a].closed = TRUE,
                          ![a].state = IF @ = "released" THEN @ ELSE "cleaning"]

CloseAllocation(c) ==
    LET a == job[c].a IN
    /\ \/ At(c, "close") /\ Change(c, Owns(c, a), Closing(a),
                                   IF row[a].issued THEN "destroy" ELSE "unbind", "unsure")
       \/ At(c, "seal") /\ Change(c, Owns(c, a), Closing(a), "unbind", "fail")
    /\ UNCHANGED <<routes, current, physical, demand, up, mem, queue>>

\* From then on Cube refuses to create it.
Destroy(c) ==
    LET a == job[c].a IN
    /\ At(c, "destroy")
    /\ \/ /\ cube' = [cube EXCEPT ![a] = "gone"] /\ NoFault
          /\ Goto(c, CASE job[c].op = "create" -> "release"
                       [] job[c].op = "recover" -> "seal" [] OTHER -> "unbind")
       \/ Fault /\ cube' \in {cube, [cube EXCEPT ![a] = "gone"]} /\ Goto(c, "unsure")
    /\ UNCHANGED <<database, posts, demand, up, mem, queue>>

\* releaseAfterPhysicalAbsence.
Unbind(c) ==
    /\ At(c, "unbind")
    /\ \/ routes' = routes \ {job[c].a} /\ Goto(c, "release") /\ NoFault
       \/ UNCHANGED routes /\ Goto(c, IF job[c].op = "retire" THEN "unsure" ELSE "fail") /\ Fault
    /\ UNCHANGED <<row, current, physical, demand, up, mem, queue>>

Released(a) == [row EXCEPT ![a].state = "released", ![a].capsule = FALSE, ![a].unconfirmed = FALSE]

Release(c) ==
    LET a == job[c].a IN
    /\ At(c, "release")
    /\ Set(c, "released", Released(a), "fail", IF job[c].op = "retire" THEN "unsure" ELSE "fail")
    /\ UNCHANGED <<routes, current, physical, demand, up, mem, queue>>

\* The last write of a failed operation; a trigger revokes the bindings.
SetUnknown(c) ==
    LET a == job[c].a IN
    /\ At(c, "unsure")
    /\ Set(c, "unknown", [row EXCEPT ![a].state = "unknown",
                                     ![a].unconfirmed = job[c].op = "recover"], "fail", "fail")
    /\ routes' = IF row'[a].state = "unknown" THEN routes \ {a} ELSE routes
    /\ UNCHANGED <<current, physical, demand, up, mem, queue>>

\* #markElasticRuntimeLost of the health monitor; a write that fails is
\* repeated by the cleanup loop.
Lost(a) == [row EXCEPT ![a].state = "unknown", ![a].unconfirmed = TRUE]

RuntimeLost(c) ==
    LET a == mem[c].a IN
    /\ c \in up /\ mem[c].handle /\ a \in Known(c)
    /\ \/ ~mem[c].failed /\ Fault
       \/ mem[c].failed /\ row[a].state = "allocated" /\ Owns(c, a) /\ NoFault
    /\ mem' = [mem EXCEPT ![c].failed = TRUE]
    /\ \/ c \in current /\ Settable(c, a, "unknown") /\ row' = Lost(a) /\ routes' = routes \ {a}
       \/ ~mem[c].failed /\ UNCHANGED <<row, routes>>
    /\ UNCHANGED <<current, physical, demand, up, queue, job>>

-----------------------------------------------------------------------------
(* Cube, the Workspace's users, and failures.                               *)

CubeCreates(a) ==
    /\ a \in posts
    /\ posts' = posts \ {a}
    /\ cube' = IF cube[a] = "none" THEN [cube EXCEPT ![a] = "alive"] ELSE cube
    /\ UNCHANGED <<database, demand, process, faults>>

\* The retention window of an unused machine.
CubeRetires(a) ==
    /\ cube[a] = "alive" /\ ~run /\ Fault
    /\ cube' = [cube EXCEPT ![a] = "gone"]
    /\ UNCHANGED <<database, posts, demand, process>>

RunStarts ==
    /\ ~run /\ retained /\ run' = TRUE
    /\ UNCHANGED <<database, physical, retained, process, faults>>

RunEnds ==
    /\ run /\ run' = FALSE /\ routes' = {}
    /\ UNCHANGED <<row, current, physical, retained, process, faults>>

LastConversationEnds ==
    /\ ~run /\ retained /\ retained' = FALSE
    /\ UNCHANGED <<database, physical, run, process, faults>>

\* A process that has crashed, or lost touch with the database.
LeaseExpires(c) ==
    /\ c \in current /\ (c \in up => Fault) /\ (c \notin up => NoFault)
    /\ current' = current \ {c}
    /\ UNCHANGED <<row, routes, physical, demand, process>>

Crash(c) ==
    /\ c \in up /\ Fault /\ up' = up \ {c}
    /\ mem' = [mem EXCEPT ![c] = Empty] /\ job' = [job EXCEPT ![c] = Idle]
    /\ queue' = [queue EXCEPT ![c] = <<>>]
    /\ UNCHANGED <<database, physical, demand>>

-----------------------------------------------------------------------------
Creation(c) ==
    \/ StartCreate(c) \/ Reserve(c) \/ SetMaterializing(c) \/ BeginCreation(c) \/ PostCreate(c) \/ Created(c)
    \/ StoreAllocated(c) \/ Register(c) \/ EndFailed(c)

Maintenance(c) ==
    \/ Adopt(c) \/ Restore(c) \/ CloseAllocation(c) \/ Destroy(c) \/ Unbind(c) \/ Release(c)
    \/ SetUnknown(c) \/ StartRecover(c) \/ StartRetire(c)

Claims(c, a) == ClaimRecoverable(c, a) \/ ClaimOrphaned(c, a) \/ ClaimUnbound(c, a)

Next ==
    \/ \E c \in Controllers :
         \/ Request(c) \/ Creation(c) \/ Maintenance(c) \/ ReleaseBinding(c) \/ RuntimeLost(c)
         \/ LeaseExpires(c) \/ Crash(c) \/ \E a \in Allocations : Claims(c, a)
    \/ \E a \in Allocations : ReconcileOwner(a) \/ CubeCreates(a) \/ CubeRetires(a)
    \/ RunStarts \/ RunEnds \/ LastConversationEnds

\* Processes alive go on with what they began, the loops come round, requests
\* to Cube are carried out and leases of the dead expire. A Run may never end.
Fairness ==
    /\ \A c \in Controllers :
         /\ WF_vars(Creation(c) \/ Maintenance(c))
         /\ WF_vars(LeaseExpires(c) /\ c \notin up)
         /\ \A a \in Allocations : WF_vars(ClaimOrphaned(c, a))
    /\ \A a \in Allocations : WF_vars(CubeCreates(a)) /\ WF_vars(ReconcileOwner(a))

Spec == Init /\ [][Next]_vars
FairSpec == Spec /\ Fairness

-----------------------------------------------------------------------------
(* Properties.                                                              *)

\* The Workspace never has two machines: a reservation waits for the release
\* of the last one, and a release for its closure at Cube, whatever creations
\* of it are still on their way and whoever sent them.
OneMachine == Cardinality({a \in Allocations : cube[a] = "alive"}) <= 1

\* A released allocation has no machine and will not get one: a create request
\* of a process that has died or given up may still arrive.
ReleasedIsGone ==
    \A a \in Allocations : row[a].state = "released" =>
        cube[a] # "alive" /\ (a \in posts => cube[a] = "gone")

\* An allocation leaves closure only by release: no late write of a creation,
\* a recovery or a failure report reopens it to a caller.
ClosedForGood ==
    [][\A a \in Allocations : row[a].closed =>
        /\ row'[a].closed
        /\ row[a].state = "released" => row'[a].state = "released"
        /\ row'[a].state \in {"cleaning", "unknown", "released"}]_vars

\* A retirement, a doubtful creation and the allocations of a dead controller
\* end in a release or a recovery, as long as one controller keeps its lease.
RetirementEnds ==
    <>[](\E c \in Controllers : c \in up \cap current)
    => \A a \in Allocations : row[a].state \in {"cleaning", "unknown"}
                              ~> row[a].state \in {"released", "allocated"}
=============================================================================
