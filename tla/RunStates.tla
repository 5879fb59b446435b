------------------------------ MODULE RunStates ------------------------------
(***************************************************************************)
(* The lifecycle tables of packages/domain/src/state-machines.ts: the      *)
(* states a Session, a Run and a cancellation request pass through, and    *)
(* the edges transitionSession, transitionRun and                          *)
(* transitionTurnControlRequest accept.  An edge outside a table is a      *)
(* DomainTransitionError: the transaction that asked for it rolls back.    *)
(***************************************************************************)

SessionState == {"cold", "idle", "running", "cancelling", "failed"}

SessionTransitions ==
    [cold       |-> {"running"},
     idle       |-> {"running", "failed"},
     running    |-> {"idle", "cancelling", "failed"},
     cancelling |-> {"idle", "failed"},
     failed     |-> {"idle"}]

RunState == {"queued", "running", "settling", "cancel_requested",
             "completed", "failed", "cancelled", "timed_out"}

RunTransitions ==
    [queued           |-> {"running", "cancel_requested", "failed", "cancelled"},
     running          |-> {"queued", "settling", "cancel_requested",
                           "completed", "failed", "timed_out"},
     settling         |-> {"queued", "cancel_requested",
                           "completed", "failed", "timed_out"},
     cancel_requested |-> {"queued", "completed", "cancelled", "failed", "timed_out"},
     completed        |-> {},
     failed           |-> {},
     cancelled        |-> {},
     timed_out        |-> {}]

ControlRequestState == {"pending", "dispatched", "acknowledged", "completed", "failed"}

CanTransition(table, from, to) == to \in table[from]

IsTerminalRunState(state) == state \in {"completed", "failed", "cancelled", "timed_out"}

\* The Run states a Worker's execution may still be writing in.
IsActiveRunState(state) == state \in {"running", "settling", "cancel_requested"}

=============================================================================
