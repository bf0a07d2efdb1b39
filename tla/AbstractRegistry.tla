-------------------------- MODULE AbstractRegistry --------------------------
(***************************************************************************)
(* What the registry of propagation nodes promises: every operation takes  *)
(* effect at once, on the registry as it is then, or not at all.           *)
(***************************************************************************)
CONSTANTS Nodes, Names, Default,  \* destination hashes; names; the name of
                                  \* a node that was given none
          Forgotten               \* of a node that is not remembered

VARIABLE registry                 \* the nodes that are remembered

Entry == [name : Names \cup {Default}, enabled : BOOLEAN]

Init == registry = [n \in Nodes |-> Forgotten]

\* A known node keeps its switch, and its name if no other is given.
Remember(n, given) ==
    registry' = [registry EXCEPT ![n] =
                    IF @ = Forgotten THEN [name |-> given, enabled |-> FALSE]
                    ELSE IF given = Default THEN @
                    ELSE [name |-> given, enabled |-> @.enabled]]

SetEnabled(n, on) ==
    /\ registry[n] # Forgotten
    /\ registry' = [registry EXCEPT ![n] = [name |-> @.name, enabled |-> on]]

Forget(n) ==
    /\ registry[n] # Forgotten
    /\ registry' = [registry EXCEPT ![n] = Forgotten]

Next ==
    \E n \in Nodes :
        \/ \E given \in Names \cup {Default} : Remember(n, given)
        \/ \E on \in BOOLEAN : SetEnabled(n, on)
        \/ Forget(n)

Spec == Init /\ [][Next]_registry
=============================================================================
