--------------------------- MODULE ControllerFiles ---------------------------
(***************************************************************************)
(* The files that the controller writes for itself, of RuntimeInstall and  *)
(* of PropagationStore: the same HTTP threads perform both kinds of        *)
(* operations, and a kill of the controller ends them together.            *)
(***************************************************************************)
EXTENDS RuntimeInstall

CONSTANTS Nobody, Nodes, NodeNames, DefaultName, Forgotten

\* The lock is free when no thread holds it.
ASSUME FilesAssumption == Nobody \notin Threads

VARIABLES store, temporary, lock, call

Propagation == INSTANCE PropagationStore WITH Names <- NodeNames, Default <- DefaultName

registryVars == <<store, temporary, lock, call>>
allVars == <<vars, registryVars>>

FilesInit == Init /\ Propagation!Init

\* MaxOps bounds the operations of both kinds together.
CallPropagation(t) ==
    /\ up = "up" /\ thread[t].op = "none" /\ ops < MaxOps
    /\ Propagation!CallAny(t)
    /\ ops' = ops + 1
    /\ UNCHANGED <<disk, memory, up, thread, stops, crossed, cut, halfway>>

PropagationStep(t) ==
    \/ Propagation!Enter(t) /\ UNCHANGED vars
    \/ Propagation!LoadNodes(t) /\ UNCHANGED vars
    \/ Propagation!OpenTemporary(t) /\ UNCHANGED vars
    \/ Propagation!WriteTemporary(t) /\ UNCHANGED vars
    \/ Propagation!Replace(t) /\ UNCHANGED vars
    \/ Propagation!Leave(t) /\ UNCHANGED vars

PropagationFails(t) ==
    /\ Propagation!Fails(t)
    /\ stops < MaxStops /\ stops' = stops + 1
    /\ UNCHANGED <<disk, memory, up, thread, ops, crossed, cut, halfway>>

RuntimeStep(t) ==
    /\ \/ Step(t)
       \/ call[t].op = "none" /\ BeginAny(t)
    /\ UNCHANGED registryVars

KillAll == Kill /\ Propagation!Kill
StartAll == Start /\ UNCHANGED registryVars

FilesNext ==
    \/ \E t \in Threads : RuntimeStep(t) \/ CallPropagation(t) \/ PropagationStep(t) \/ PropagationFails(t)
    \/ KillAll \/ StartAll

FilesSpec == FilesInit /\ [][FilesNext]_allVars
-----------------------------------------------------------------------------
\* The states of both modules are well formed.
FilesTypeOK == TypeOK /\ Propagation!TypeOK

\* The registry of propagation nodes is changed by one thread at a time, on
\* the file as it is.
RegistryExclusive == Propagation!Exclusive

\* It implements the abstract registry: each operation takes effect at once
\* or not at all.
RegistryIsAtomic == Propagation!IsAtomic
=============================================================================
