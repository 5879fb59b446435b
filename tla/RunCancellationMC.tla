------------------------- MODULE RunCancellationMC -------------------------
(* An instance of RunCancellation for TLC.                                   *)
EXTENDS RunCancellation

CONSTANTS w1, w2

\* Workers differ only in what they did, so w1 may be the one that claims the
\* Run first: half of the states, and no symmetry under which liveness would be
\* checked on a quotient.
FirstClaim == exec[1].worker # w2
=============================================================================
