------------------------- MODULE MC_EngineLifecycle -------------------------
(* Instances of EngineLifecycle for TLC.                                    *)
EXTENDS EngineLifecycle

CONSTANTS t1, t2, i1, i2
=============================================================================
