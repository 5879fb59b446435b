--------------------------- MODULE ToolDispatchMC ---------------------------
(* An instance of ToolDispatch for TLC.                                     *)
EXTENDS ToolDispatch, TLC

CONSTANTS o1, o2, p1, p2

\* Two operations of the first binding, none of its successor.
Pair == o1 :> 1 @@ o2 :> 1

\* Projectors differ only in what they did, so p1 may be the first to have the
\* partition; and o1 may be the first of the two commands.
FirstOwnerInit == Init /\ group.owner = p1
FirstCommand == call'[o2].published => call'[o1].published

\* Retiring a binding whose Worker lives is not one of the MaxFaults.  Bound: it
\* is retired before anything else goes wrong, and what goes wrong after it is on
\* the way of the change to the machine: the Projector crashes, loses the
\* partition or the answer to its commit, or a request is lost.
OnTheWay ==
  \/ \E p \in Projectors : Handover(p) \/ CrashProjector(p) \/ CommitLost(p)
  \/ \E r \in rpcs : LoseRpc(r)

\* Bound: no request is slow once a binding is retired.
GivesUpEarly(p) == (SubmitUnanswered(p) \/ CancelUnanswered(p)) /\ Travelling(p)

Bound ==
  /\ (\E i \in DOMAIN log : log[i].kind = "retire")
     => /\ faults' = faults \/ OnTheWay
        /\ \A p \in Projectors : ~GivesUpEarly(p)
  /\ \A b \in Bindings : Retire(b) => faults = 0 \/ b \in dead
  \* A binding without commands stays open: nothing depends on its end.
  /\ \A b \in Bindings : Retire(b) \/ Seal(b) \/ WorkerDies(b) => OpsOf(b) # {}

\* The steps TLC looks at.
Bounded == FirstCommand /\ Bound

FirstOwnerSpec == FirstOwnerInit /\ [][Next]_vars /\ Progressing /\ Closing
=============================================================================
