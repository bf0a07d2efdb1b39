-------------------------- MODULE MC_ClientUpdates --------------------------
(* Instances of ClientUpdates for TLC.                                      *)
EXTENDS ClientUpdates, TLC

CONSTANTS c1, c2, t1, t2, f1, f2

\* Conversations, threads and requests of one kind are interchangeable.
Symmetry == Permutations({c1, c2}) \cup Permutations({t1, t2}) \cup Permutations({f1, f2})
=============================================================================
