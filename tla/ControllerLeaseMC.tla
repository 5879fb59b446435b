-------------------------- MODULE ControllerLeaseMC -------------------------
(* TLC instances of ControllerLease.                                        *)
EXTENDS ControllerLease, TLC

CONSTANTS i1, i2, u1

\* A controller and its successor at the same URL.
SameUrl == (i1 :> u1) @@ (i2 :> u1)
=============================================================================
