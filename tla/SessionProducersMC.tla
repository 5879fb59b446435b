------------------------- MODULE SessionProducersMC -------------------------
(* An instance of SessionProducers for TLC. *)
EXTENDS SessionProducers

CONSTANTS w1, w2, w3        \* producers of one Session

=============================================================================
