-------------------------- MODULE PropagationStore --------------------------
(***************************************************************************)
(* PropagationNodeStore (propagation.py): the registry of LXMF propagation *)
(* nodes in one JSON file.  Every operation holds the lock while it loads  *)
(* the file, changes the list and saves it: into a temporary file, which   *)
(* then replaces the old one.  The controller may be killed, or a write    *)
(* may fail, between any two steps.                                        *)
(***************************************************************************)
CONSTANTS Threads, Nobody,     \* Nobody holds the lock
          Nodes, Names, Default, Forgotten

VARIABLES
    store,      \* the nodes in the file; a file that is missing holds none
    temporary,  \* the file beside it
    lock,       \* who holds _lock
    call        \* what each thread does

vars == <<store, temporary, lock, call>>

Abstract == INSTANCE AbstractRegistry WITH registry <- store

Registry == [Nodes -> {Forgotten} \cup Abstract!Entry]
NoNodes == [n \in Nodes |-> Forgotten]
Idle == [op |-> "none", pc |-> "none", n |-> Nobody, given |-> Default, on |-> FALSE, nodes |-> NoNodes]

TypeOK ==
    /\ store \in Registry
    /\ temporary \in [is : {"none", "empty", "text"}, nodes : Registry]
    /\ lock \in Threads \cup {Nobody}
    /\ call \in [Threads -> [op : {"none", "remember", "enable", "forget"},
                             pc : {"none", "wait", "load", "open", "write", "replace", "leave"},
                             n : Nodes \cup {Nobody}, given : Names \cup {Default},
                             on : BOOLEAN, nodes : Registry]]
    /\ \A t \in Threads : IF call[t].op = "none" THEN call[t].pc = "none"
                          ELSE call[t].pc # "none" /\ call[t].n \in Nodes

Init ==
    /\ store = NoNodes
    /\ temporary = [is |-> "none", nodes |-> NoNodes]
    /\ lock = Nobody
    /\ call = [t \in Threads |-> Idle]
-----------------------------------------------------------------------------
At(t, pc) == call[t].pc = pc
Go(t, pc) == call' = [call EXCEPT ![t].pc = pc]

Call(t, op, n, given, on) ==
    /\ call[t].op = "none"
    /\ call' = [call EXCEPT ![t] = [Idle EXCEPT !.op = op, !.pc = "wait", !.n = n,
                                                !.given = given, !.on = on]]
    /\ UNCHANGED <<store, temporary, lock>>

\* Variant: the operations do not wait for each other.
NoLock(t) == TRUE
\* with self._lock
MayEnter(t) == lock = Nobody

Enter(t) ==
    /\ At(t, "wait") /\ MayEnter(t)
    /\ lock' = t
    /\ Go(t, "load")
    /\ UNCHANGED <<store, temporary>>

\* Variant: a node that is remembered again is as if it were new.
RememberedAnew(c, node) == [name |-> c.given, enabled |-> FALSE]

\* remember_node: a node that is there keeps what the payload does not give.
Remembered(c, node) ==
    IF node = Forgotten THEN [name |-> c.given, enabled |-> FALSE]
    ELSE IF c.given = Default THEN node ELSE [name |-> c.given, enabled |-> node.enabled]

\* The list as the operation c changes it.
Changed(c, nodes) ==
    [nodes EXCEPT ![c.n] = CASE c.op = "remember" -> Remembered(c, nodes[c.n])
                             [] c.op = "enable" -> [name |-> nodes[c.n].name, enabled |-> c.on]
                             [] c.op = "forget" -> Forgotten]

\* _load_nodes and the change; a node that does not exist is an error.
LoadNodes(t) ==
    /\ At(t, "load")
    /\ IF call[t].op # "remember" /\ store[call[t].n] = Forgotten
       THEN Go(t, "leave")
       ELSE call' = [call EXCEPT ![t].pc = "open", ![t].nodes = Changed(call[t], store)]
    /\ UNCHANGED <<store, temporary, lock>>

\* _save_nodes
OpenTemporary(t) ==
    /\ At(t, "open")
    /\ temporary' = [is |-> "empty", nodes |-> NoNodes]
    /\ Go(t, "write")
    /\ UNCHANGED <<store, lock>>

WriteTemporary(t) ==
    /\ At(t, "write")
    /\ temporary' = [is |-> "text", nodes |-> call[t].nodes]
    /\ Go(t, "replace")
    /\ UNCHANGED <<store, lock>>

Replace(t) ==
    /\ At(t, "replace")
    /\ store' = temporary.nodes
    /\ temporary' = [is |-> "none", nodes |-> NoNodes]
    /\ Go(t, "leave")
    /\ UNCHANGED lock

\* The lock is released however the operation ends.
Leave(t) ==
    /\ At(t, "leave")
    /\ lock' = Nobody
    /\ call' = [call EXCEPT ![t] = Idle]
    /\ UNCHANGED <<store, temporary>>

Fails(t) ==
    /\ call[t].pc \in {"load", "open", "write", "replace"}
    /\ Go(t, "leave")
    /\ UNCHANGED <<store, temporary, lock>>

\* The controller is killed: the threads and the lock are gone.
Kill ==
    /\ lock' = Nobody
    /\ call' = [t \in Threads |-> Idle]
    /\ UNCHANGED <<store, temporary>>

Step(t) ==
    \/ Enter(t) \/ LoadNodes(t) \/ OpenTemporary(t) \/ WriteTemporary(t) \/ Replace(t) \/ Leave(t)
    \/ Fails(t)

CallAny(t) ==
    \E n \in Nodes :
        \/ \E given \in Names \cup {Default} : Call(t, "remember", n, given, FALSE)
        \/ \E on \in BOOLEAN : Call(t, "enable", n, Default, on)
        \/ Call(t, "forget", n, Default, FALSE)

Next == (\E t \in Threads : Step(t) \/ CallAny(t)) \/ Kill

Spec == Init /\ [][Next]_vars
-----------------------------------------------------------------------------
\* One thread at a time is between the load and the end of the save, with the
\* list that its operation makes of the file as it still is; and what replaces
\* the file is whole.
Exclusive ==
    /\ \A t \in Threads : call[t].pc \notin {"none", "wait"} => lock = t
    /\ \A t \in Threads :
           call[t].pc \in {"open", "write", "replace"} =>
               /\ call[t].nodes = Changed(call[t], store)
               /\ call[t].op # "remember" => store[call[t].n] # Forgotten
    /\ \A t \in Threads :
           call[t].pc = "replace" => temporary = [is |-> "text", nodes |-> call[t].nodes]

\* The registry is what its operations make of it one after the other,
\* whatever threads overlap, kills and failed writes: no update is lost, none
\* takes effect in part or twice.
IsAtomic == Abstract!Spec
=============================================================================
