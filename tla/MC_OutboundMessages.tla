------------------------- MODULE MC_OutboundMessages -------------------------
(* Instances of OutboundMessages for TLC.                                   *)
EXTENDS OutboundMessages, TLC

CONSTANTS m1, i1, h1, h2, w1, w2, n1, n2

\* Threads and nodes of one kind are interchangeable; workers and ids are
\* not permuted (AnyMsg is a CHOOSE over the ids).
Symmetry == Permutations({h1, h2}) \cup Permutations({n1, n2})
=============================================================================
