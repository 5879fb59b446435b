---------------------------- MODULE BindingView ----------------------------
(***************************************************************************)
(* What the owner of a Session partition remembers of one sandbox binding  *)
(* (packages/sandbox-control/src/sandbox-binding-view.ts). Its entries are *)
(* objects: a reader keeps the one it found while the map that named it    *)
(* may forget it. entries holds every object of one assignment in the      *)
(* order of creation, slot is the one #entries names and bound the one     *)
(* #bindings names, 0 for neither.                                         *)
(***************************************************************************)
EXTENDS Integers, Sequences

CONSTANTS MaxVersion,   \* changes of the binding
          MaxEntries    \* objects created for it within one assignment

Versions == 1..MaxVersion

Row == [revision : 0..MaxVersion, route : {"open", "closed", "absent"}]
Absent == [revision |-> 0, route |-> "absent"]

Entry == [version : 0..MaxVersion, row : Row, closed : BOOLEAN]
FreshEntry == [version |-> 0, row |-> Absent, closed |-> FALSE]

View == [ready : BOOLEAN, slot : 0..MaxEntries, bound : 0..MaxEntries,
         entries : UNION {[1..n -> Entry] : n \in 0..MaxEntries}]
EmptyView == [ready |-> FALSE, slot |-> 0, bound |-> 0, entries |-> <<>>]

\* The object of the binding, created when the map names none.
WithEntry(view) ==
    IF view.slot # 0 THEN view
    ELSE [view EXCEPT !.entries = Append(@, FreshEntry),
                      !.slot = Len(view.entries) + 1]

\* The version a row is applied with; a missing row is applied with that of
\* the change it was read for.
ReadVersion(row, v) == IF row.route = "absent" THEN v ELSE row.revision

\* A row that may not replace what the entry holds: closure is final, and of
\* two rows the newer one stays.
Superseded(entry, row, version) ==
    \/ entry.closed /\ row.route = "open"
    \/ row.route # "absent" /\ version < entry.version

Merged(entry, row, version) ==
    [version |-> IF version > entry.version THEN version ELSE entry.version,
     row |-> row,
     closed |-> entry.closed \/ row.route # "open"]

Apply(view, n, row, version) ==
    IF Superseded(view.entries[n], row, version) THEN view
    ELSE [view EXCEPT
            !.entries[n] = Merged(@, row, version),
            !.bound = CASE row.route # "absent" -> n
                        [] row.route = "absent" /\ view.entries[n].row.route # "absent" -> 0
                        [] OTHER -> @]

\* A row older than the committed change that asked for it.
RowBehind(row, v) == row.route # "absent" /\ row.revision < v

\* closure() refuses a route that does not show the closing change v.
ClosureBehind(view, v) ==
    /\ view.slot # 0
    /\ view.entries[view.slot].row.route # "absent"
    /\ \/ view.entries[view.slot].row.route = "open"
       \/ view.entries[view.slot].row.revision < v

\* get() or binding() would still hand out an open route.
Routes(view) ==
    \E n \in {view.slot, view.bound} \ {0} : view.entries[n].row.route = "open"

\* Some read of this assignment showed the binding closed.
SawClosure(view) == \E n \in DOMAIN view.entries : view.entries[n].closed
=============================================================================
