------------------------- MODULE MC_ControllerFiles -------------------------
(* Instances of ControllerFiles for TLC.                                    *)
EXTENDS ControllerFiles, TLC

CONSTANTS t1, t2, v1, v2, stub, nobody, n1, n2, given, default, forgotten

Symmetry == Permutations(Threads)
=============================================================================
