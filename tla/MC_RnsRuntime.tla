---------------------------- MODULE MC_RnsRuntime ----------------------------
(* Instances of RnsRuntime for TLC.                                         *)
EXTENDS RnsRuntime

CONSTANT t1

TwoInterfaces == <<"tcp", "lora">>
=============================================================================
