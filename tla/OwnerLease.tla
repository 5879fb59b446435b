----------------------------- MODULE OwnerLease -----------------------------
(***************************************************************************)
(* What the ownership lease of a Sandbox controller promises to the code   *)
(* that uses it. An instance identity is held once: it may run out, it is  *)
(* then marked (lost or stopped) for good, and others may take over what   *)
(* it owned. A controller is sure of its identity only while it is held.   *)
(***************************************************************************)
CONSTANTS Instances,  \* identities of controller processes, never used twice
          UrlOf       \* the base URL an instance owns

VARIABLES lease,  \* sandbox_control_instances, with its expiry: none, held, over, marked
          sure    \* assertLocalOwnership passes

LeaseStates == {"none", "held", "over", "marked"}

OwnerLeaseType ==
    /\ lease \in [Instances -> LeaseStates]
    /\ sure \in [Instances -> BOOLEAN]

NoLease ==
    /\ lease = [i \in Instances |-> "none"]
    /\ sure = [i \in Instances |-> FALSE]

Ready(i) == lease[i] \in {"held", "over"}

\* What one step may do to an identity.
Moves(i) ==
    \/ lease'[i] = lease[i]
    \/ lease[i] = "none" /\ lease'[i] = "held"
    \/ lease[i] = "held" /\ lease'[i] \in {"over", "marked"}
    \/ lease[i] = "over" /\ lease'[i] = "marked"

\* Time passes for all of them at once. A ready row excludes another of its URL.
LeaseStep ==
    /\ OwnerLeaseType'
    /\ \A i \in Instances : Moves(i) /\ (sure'[i] => lease'[i] = "held")
    /\ \A i, k \in Instances :
         Ready(i)' /\ Ready(k)' /\ UrlOf[i] = UrlOf[k] => i = k

LeaseSpec == NoLease /\ [][LeaseStep]_<<lease, sure>>
=============================================================================
