------------------------- MODULE SessionOwnershipMC -------------------------
(* Instances of SessionOwnership for TLC. *)
EXTENDS SessionOwnership, TLC

CONSTANTS k1, k2, k3        \* publication control attempts

\* Control attempts are interchangeable: nothing compares or orders them.
ControlSymmetry == Permutations(Controls)

=============================================================================
