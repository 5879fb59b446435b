------------------------ MODULE BindingRevocationMC ------------------------
(* TLC instances of BindingRevocation.                                      *)
EXTENDS BindingRevocation, TLC

\* Instances differ only in their memory.
InstanceSymmetry == Permutations(Instances)
=============================================================================
