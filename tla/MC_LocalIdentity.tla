-------------------------- MODULE MC_LocalIdentity --------------------------
(* Instances of LocalIdentity for TLC.                                      *)
EXTENDS LocalIdentity, TLC

CONSTANTS a1, a2, a3, default, other, anonymous, n1

Symmetry == Permutations(Actors)
=============================================================================
