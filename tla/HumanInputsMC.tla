---------------------------- MODULE HumanInputsMC ----------------------------
(* Instances of HumanInputs for TLC.                                         *)
EXTENDS HumanInputs, TLC

CONSTANTS m1, m2, i1, i2, o1

\* Requests are interchangeable; messages are not, because one has an attachment.
Requests == Permutations(Attempts)
=============================================================================
