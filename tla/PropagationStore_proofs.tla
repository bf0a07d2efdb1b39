----------------------- MODULE PropagationStore_proofs -----------------------
(***************************************************************************)
(* The registry of propagation nodes is atomic: proofs for any number of   *)
(* threads, nodes and names.                                               *)
(***************************************************************************)
EXTENDS PropagationStore, TLAPS

\* The inductive invariant: what a thread inside the lock holds is what its
\* operation makes of the file.
IInv == TypeOK /\ Exclusive

Pcs == {"none", "wait", "load", "open", "write", "replace", "leave"}
Ops == {"none", "remember", "enable", "forget"}
WellFormed(c) ==
    IF c.op = "none" THEN c.pc = "none" ELSE c.pc # "none" /\ c.n \in Nodes
CallType == [op : Ops, pc : Pcs, n : Nodes \cup {Nobody}, given : Names \cup {Default},
             on : BOOLEAN, nodes : Registry]

\* The list an operation makes of a registry is a registry.
LEMMA ChangedType ==
    ASSUME NEW c \in CallType, NEW nodes \in Registry, c.op # "none", c.n \in Nodes,
           c.op # "remember" => nodes[c.n] # Forgotten
    PROVE  Changed(c, nodes) \in Registry
<1>1. CASE c.op = "remember"
  BY <1>1 DEF Changed, Remembered, Registry, CallType, Abstract!Entry
<1>2. CASE c.op = "enable"
  BY <1>2 DEF Changed, Registry, CallType, Abstract!Entry
<1>3. CASE c.op = "forget"
  BY <1>3 DEF Changed, Registry, CallType
<1> QED BY <1>1, <1>2, <1>3 DEF CallType, Ops

\* Initially nobody is inside the lock.
LEMMA InitIInv == Init => IInv
<1> SUFFICES ASSUME Init PROVE IInv
  OBVIOUS
<1>1. NoNodes \in Registry
  BY DEF NoNodes, Registry
<1>2. TypeOK
  BY <1>1 DEF Init, TypeOK, Idle
<1>3. Exclusive
  BY DEF Init, Exclusive, Idle
<1> QED BY <1>2, <1>3 DEF IInv

\* A step that gives thread t another call, within the types.
LEMMA CallOf ==
    ASSUME TypeOK, NEW t \in Threads, NEW c \in CallType, WellFormed(c),
           call' = [call EXCEPT ![t] = c]
    PROVE  /\ call' \in [Threads -> CallType]
           /\ call'[t] = c
           /\ \A u \in Threads \ {t} : call'[u] = call[u]
           /\ \A u \in Threads : WellFormed(call'[u])
  BY DEF TypeOK, CallType, Ops, Pcs, WellFormed


\* The part of Exclusive that is about thread t.
Inside(t) ==
    /\ call[t].pc \notin {"none", "wait"} => lock = t
    /\ call[t].pc \in {"open", "write", "replace"} =>
           /\ call[t].nodes = Changed(call[t], store)
           /\ call[t].op # "remember" => store[call[t].n] # Forgotten
    /\ call[t].pc = "replace" => temporary = [is |-> "text", nodes |-> call[t].nodes]

LEMMA ExclusiveIsInside == Exclusive <=> \A t \in Threads : Inside(t)
  BY DEF Exclusive, Inside

\* A thread outside the lock, which a step leaves alone, stays outside.
LEMMA OutsideStays ==
    ASSUME NEW u \in Threads, call[u].pc \in {"none", "wait"}, call'[u] = call[u]
    PROVE  Inside(u)'
  BY DEF Inside

\* A thread whose call, lock and files a step leaves alone keeps its part.
LEMMA InsideStays ==
    ASSUME NEW u \in Threads, Inside(u), call'[u] = call[u], UNCHANGED <<store, temporary, lock>>
    PROVE  Inside(u)'
  BY DEF Inside, Changed, Remembered

\* While t is inside the lock no other thread is.
LEMMA OneInside ==
    ASSUME IInv, NEW t \in Threads, call[t].pc \notin {"none", "wait"}
    PROVE  lock = t /\ \A u \in Threads \ {t} : call[u].pc \in {"none", "wait"}
  BY DEF IInv, Exclusive

LEMMA CallsAreTyped == TypeOK => \A t \in Threads : call[t] \in CallType
  BY DEF TypeOK, CallType, Ops, Pcs, WellFormed

\* Another operation of thread t keeps the invariant.
LEMMA CallAnyIInv == ASSUME IInv, NEW t \in Threads, CallAny(t) PROVE IInv'
<1>0. TypeOK /\ Exclusive /\ \A u \in Threads : Inside(u)
  BY ExclusiveIsInside DEF IInv
<1>1. PICK op \in {"remember", "enable", "forget"}, n \in Nodes, given \in Names \cup {Default},
           on \in BOOLEAN : Call(t, op, n, given, on)
  BY DEF CallAny
<1> DEFINE c == [Idle EXCEPT !.op = op, !.pc = "wait", !.n = n, !.given = given, !.on = on]
<1>2. c \in CallType /\ c.pc = "wait" /\ WellFormed(c)
  BY DEF Idle, CallType, Ops, Pcs, NoNodes, Registry, WellFormed
<1>3. call' = [call EXCEPT ![t] = c] /\ UNCHANGED <<store, temporary, lock>>
  BY <1>1 DEF Call
<1> HIDE DEF c
<1>4. /\ call' \in [Threads -> CallType] /\ call'[t] = c
      /\ \A u \in Threads \ {t} : call'[u] = call[u]
      /\ \A u \in Threads : WellFormed(call'[u])
  BY <1>0, <1>2, <1>3, CallOf
<1>5. TypeOK'
  BY <1>0, <1>3, <1>4 DEF TypeOK, CallType, Ops, Pcs, WellFormed
<1>6. ASSUME NEW u \in Threads PROVE Inside(u)'
  <2>1. CASE u = t
    BY <2>1, <1>2, <1>4 DEF Inside
  <2>2. CASE u # t
    BY <2>2, <1>0, <1>3, <1>4, InsideStays
  <2> QED BY <2>1, <2>2
<1>7. Exclusive'
  BY <1>6 DEF Exclusive, Inside
<1> QED BY <1>5, <1>7 DEF IInv

\* A step that only moves thread t on keeps the types.
LEMMA GoTyped ==
    ASSUME TypeOK, NEW t \in Threads, NEW pc \in Pcs \ {"none"}, Go(t, pc),
           call[t].pc # "none"
    PROVE  /\ call' \in [Threads -> CallType]
           /\ call'[t] = [call[t] EXCEPT !.pc = pc]
           /\ \A u \in Threads \ {t} : call'[u] = call[u]
           /\ \A u \in Threads : WellFormed(call'[u])
  BY DEF TypeOK, CallType, Ops, Pcs, Go, WellFormed

\* A step of thread t keeps the invariant.
LEMMA StepIInv ==
    ASSUME Nobody \notin Threads, IInv, NEW t \in Threads, Step(t) PROVE IInv'
<1>0. TypeOK /\ Exclusive /\ \A u \in Threads : Inside(u) /\ call[u] \in CallType
  BY ExclusiveIsInside, CallsAreTyped DEF IInv
<1>n. NoNodes \in Registry
  BY DEF NoNodes, Registry
<1>1. CASE Enter(t)
  <2>1. lock = Nobody /\ lock' = t /\ UNCHANGED <<store, temporary>> /\ Go(t, "load")
          /\ call[t].pc = "wait"
    BY <1>1 DEF Enter, MayEnter, At
  <2>2. /\ call' \in [Threads -> CallType] /\ call'[t] = [call[t] EXCEPT !.pc = "load"]
        /\ \A u \in Threads \ {t} : call'[u] = call[u]
        /\ \A u \in Threads : WellFormed(call'[u])
    BY <1>0, <2>1, GoTyped DEF Pcs
  <2>3. TypeOK'
    BY <1>0, <2>1, <2>2 DEF TypeOK, CallType, Ops, Pcs, WellFormed
  <2>4. ASSUME NEW u \in Threads PROVE Inside(u)'
    <3>1. CASE u = t
      BY <3>1, <1>0, <2>1, <2>2 DEF Inside, CallType
    <3>2. CASE u # t
      <4>1. call[u].pc \in {"none", "wait"}
        BY <1>0, <2>1 DEF Inside
      <4> QED BY <4>1, <3>2, <2>2, OutsideStays
    <3> QED BY <3>1, <3>2
  <2> QED BY <2>3, <2>4 DEF IInv, Exclusive, Inside
<1>2. ASSUME ~Enter(t) PROVE IInv'
  <2>0. /\ call[t].pc \notin {"none", "wait"}
        /\ LoadNodes(t) \/ OpenTemporary(t) \/ WriteTemporary(t) \/ Replace(t) \/ Leave(t) \/ Fails(t)
    BY <1>2 DEF Step, LoadNodes, OpenTemporary, WriteTemporary, Replace, Leave, Fails, At
  <2>1. lock = t /\ \A u \in Threads \ {t} : call[u].pc \in {"none", "wait"}
    BY <2>0, OneInside
  <2>2. /\ call' \in [Threads -> CallType]
        /\ \A u \in Threads \ {t} : call'[u] = call[u]
        /\ \A u \in Threads : WellFormed(call'[u])
        /\ store' \in Registry
        /\ temporary' \in [is : {"none", "empty", "text"}, nodes : Registry]
        /\ lock' \in Threads \cup {Nobody}
        /\ Inside(t)'
    <3>1. CASE LoadNodes(t)
      <4>1. UNCHANGED <<store, temporary, lock>> /\ call[t].pc = "load"
        BY <3>1 DEF LoadNodes, At
      <4>2. CASE call[t].op # "remember" /\ store[call[t].n] = Forgotten
        <5>1. Go(t, "leave")
          BY <3>1, <4>2 DEF LoadNodes
        <5>2. /\ call' \in [Threads -> CallType] /\ call'[t] = [call[t] EXCEPT !.pc = "leave"]
              /\ \A u \in Threads \ {t} : call'[u] = call[u]
              /\ \A u \in Threads : WellFormed(call'[u])
          BY <1>0, <4>1, <5>1, GoTyped DEF Pcs
        <5> QED BY <5>2, <4>1, <2>1, <1>0 DEF TypeOK, Inside, CallType
      <4>3. CASE ~(call[t].op # "remember" /\ store[call[t].n] = Forgotten)
        <5> DEFINE list == Changed(call[t], store)
                   c == [call[t] EXCEPT !.pc = "open", !.nodes = list]
        <5>1. call[t].op # "none" /\ call[t].n \in Nodes /\ store \in Registry
          BY <1>0, <4>1 DEF TypeOK
        <5>2. list \in Registry
          BY <5>1, <4>3, <1>0, ChangedType
        <5>3. c \in CallType /\ WellFormed(c)
          BY <5>1, <5>2, <1>0 DEF CallType, Pcs, WellFormed
        <5>4. call' = [call EXCEPT ![t] = c]
          BY <3>1, <4>3, <1>0 DEF LoadNodes, TypeOK, CallType
        <5>5. list = Changed(c, store)
          BY <1>0 DEF Changed, Remembered, CallType
        <5>6. c.pc = "open" /\ c.nodes = list /\ c.op = call[t].op /\ c.n = call[t].n
          BY <1>0 DEF CallType
        <5> HIDE DEF c, list
        <5>7. /\ call' \in [Threads -> CallType] /\ call'[t] = c
              /\ \A u \in Threads \ {t} : call'[u] = call[u]
              /\ \A u \in Threads : WellFormed(call'[u])
          BY <1>0, <5>3, <5>4, CallOf
        <5>8. Inside(t)'
          <6>1. Changed(call[t], store)' = Changed(c, store)
            BY <5>7, <4>1 DEF Changed, Remembered
          <6> QED BY <6>1, <5>3, <5>5, <5>6, <5>7, <4>1, <4>3, <2>1 DEF Inside
        <5> QED BY <5>7, <5>8, <4>1, <2>1, <1>0 DEF TypeOK
      <4> QED BY <4>2, <4>3
    <3>2. ASSUME NEW pc \in Pcs \ {"none"}, Go(t, pc), lock' \in Threads \cup {Nobody}
          PROVE  /\ call' \in [Threads -> CallType] /\ call'[t] = [call[t] EXCEPT !.pc = pc]
                 /\ \A u \in Threads \ {t} : call'[u] = call[u]
                 /\ \A u \in Threads : WellFormed(call'[u])
                 /\ Changed(call'[t], store) = Changed(call[t], store)
      <4>1. /\ call' \in [Threads -> CallType] /\ call'[t] = [call[t] EXCEPT !.pc = pc]
            /\ \A u \in Threads \ {t} : call'[u] = call[u]
            /\ \A u \in Threads : WellFormed(call'[u])
        BY <1>0, <2>0, <3>2, GoTyped
      <4> QED BY <4>1, <1>0 DEF Changed, Remembered, CallType
    <3>3. CASE OpenTemporary(t)
      <4>1. /\ Go(t, "write") /\ UNCHANGED <<store, lock>> /\ call[t].pc = "open"
            /\ temporary' = [is |-> "empty", nodes |-> NoNodes]
        BY <3>3 DEF OpenTemporary, At
      <4>2. /\ call' \in [Threads -> CallType] /\ call'[t] = [call[t] EXCEPT !.pc = "write"]
            /\ \A u \in Threads \ {t} : call'[u] = call[u]
            /\ \A u \in Threads : WellFormed(call'[u])
            /\ Changed(call'[t], store) = Changed(call[t], store)
        BY <1>0, <3>2, <4>1 DEF Pcs, TypeOK
      <4>3. Changed(call[t], store)' = Changed(call'[t], store)
        BY <4>1 DEF Changed, Remembered
      <4> QED BY <4>1, <4>2, <4>3, <2>1, <1>0, <1>n DEF TypeOK, Inside, CallType
    <3>4. CASE WriteTemporary(t)
      <4>1. /\ Go(t, "replace") /\ UNCHANGED <<store, lock>> /\ call[t].pc = "write"
            /\ temporary' = [is |-> "text", nodes |-> call[t].nodes]
        BY <3>4 DEF WriteTemporary, At
      <4>2. /\ call' \in [Threads -> CallType] /\ call'[t] = [call[t] EXCEPT !.pc = "replace"]
            /\ \A u \in Threads \ {t} : call'[u] = call[u]
            /\ \A u \in Threads : WellFormed(call'[u])
            /\ Changed(call'[t], store) = Changed(call[t], store)
        BY <1>0, <3>2, <4>1 DEF Pcs, TypeOK
      <4>3. Changed(call[t], store)' = Changed(call'[t], store)
        BY <4>1 DEF Changed, Remembered
      <4> QED BY <4>1, <4>2, <4>3, <2>1, <1>0, <1>n DEF TypeOK, Inside, CallType
    <3>5. CASE Replace(t)
      <4>1. /\ Go(t, "leave") /\ UNCHANGED lock /\ call[t].pc = "replace"
            /\ store' = temporary.nodes
            /\ temporary' = [is |-> "none", nodes |-> NoNodes]
        BY <3>5 DEF Replace, At
      <4>2. /\ call' \in [Threads -> CallType] /\ call'[t] = [call[t] EXCEPT !.pc = "leave"]
            /\ \A u \in Threads \ {t} : call'[u] = call[u]
            /\ \A u \in Threads : WellFormed(call'[u])
        BY <1>0, <3>2, <4>1 DEF Pcs, TypeOK
      <4> QED BY <4>1, <4>2, <2>1, <1>0, <1>n DEF TypeOK, Inside, CallType
    <3>6. CASE Leave(t)
      <4>1. lock' = Nobody /\ call' = [call EXCEPT ![t] = Idle] /\ UNCHANGED <<store, temporary>>
        BY <3>6 DEF Leave
      <4>2. Idle \in CallType /\ WellFormed(Idle) /\ Idle.pc = "none"
        BY <1>n DEF Idle, CallType, Ops, Pcs, WellFormed
      <4>3. /\ call' \in [Threads -> CallType] /\ call'[t] = Idle
            /\ \A u \in Threads \ {t} : call'[u] = call[u]
            /\ \A u \in Threads : WellFormed(call'[u])
        BY <1>0, <4>1, <4>2, CallOf
      <4> QED BY <4>1, <4>2, <4>3, <1>0 DEF TypeOK, Inside
    <3>7. CASE Fails(t)
      <4>1. Go(t, "leave") /\ UNCHANGED <<store, temporary, lock>>
        BY <3>7 DEF Fails
      <4>2. /\ call' \in [Threads -> CallType] /\ call'[t] = [call[t] EXCEPT !.pc = "leave"]
            /\ \A u \in Threads \ {t} : call'[u] = call[u]
            /\ \A u \in Threads : WellFormed(call'[u])
        BY <1>0, <3>2, <4>1 DEF Pcs, TypeOK
      <4> QED BY <4>1, <4>2, <2>1, <1>0 DEF TypeOK, Inside, CallType
    <3> QED BY <2>0, <3>1, <3>3, <3>4, <3>5, <3>6, <3>7
  <2>3. TypeOK'
    BY <2>2 DEF TypeOK, CallType, Ops, Pcs, WellFormed
  <2>4. \A u \in Threads : Inside(u)'
    BY <2>1, <2>2, OutsideStays
  <2> QED BY <2>3, <2>4 DEF IInv, Exclusive, Inside
<1> QED BY <1>1, <1>2

\* A kill leaves no thread inside the lock.
LEMMA KillIInv == ASSUME IInv, Kill PROVE IInv'
<1>1. NoNodes \in Registry
  BY DEF NoNodes, Registry
<1>2. TypeOK'
  BY <1>1 DEF IInv, TypeOK, Kill, Idle
<1>3. Exclusive'
  BY DEF Exclusive, Kill, Idle
<1> QED BY <1>2, <1>3 DEF IInv

LEMMA NextIInv == ASSUME Nobody \notin Threads PROVE IInv /\ [Next]_vars => IInv'
<1> SUFFICES ASSUME IInv, [Next]_vars PROVE IInv'
  OBVIOUS
<1>1. CASE UNCHANGED vars
  BY <1>1 DEF vars, IInv, TypeOK, Exclusive, Changed, Remembered
<1>2. CASE Next
  BY <1>2, StepIInv, CallAnyIInv, KillIInv DEF Next
<1> QED BY <1>1, <1>2

\* The registry is changed by one thread at a time, on the file as it is.
THEOREM AlwaysExclusive == ASSUME Nobody \notin Threads PROVE Spec => []Exclusive
<1>1. Init => IInv
  BY InitIInv
<1>2. IInv /\ [Next]_vars => IInv'
  BY NextIInv
<1>3. IInv => Exclusive
  BY DEF IInv
<1> QED BY <1>1, <1>2, <1>3, PTL DEF Spec

\* The only step that changes the file takes one abstract step.
LEMMA ReplaceIsAtomic == ASSUME IInv, NEW t \in Threads, Replace(t) PROVE Abstract!Next
<1>1. /\ call[t] \in CallType /\ call[t].op \in Ops \ {"none"} /\ call[t].n \in Nodes
      /\ store \in Registry
      /\ store' = Changed(call[t], store)
      /\ call[t].op # "remember" => store[call[t].n] # Forgotten
  BY DEF IInv, TypeOK, Exclusive, Replace, At, CallType, Ops, Pcs
<1> DEFINE n == call[t].n
<1>2. CASE call[t].op = "remember"
  <2>1. Abstract!Remember(n, call[t].given)
    BY <1>1, <1>2 DEF Abstract!Remember, Changed, Remembered
  <2> QED BY <2>1, <1>1 DEF Abstract!Next, CallType
<1>3. CASE call[t].op = "enable"
  <2>1. Abstract!SetEnabled(n, call[t].on)
    BY <1>1, <1>3 DEF Abstract!SetEnabled, Changed
  <2> QED BY <2>1, <1>1 DEF Abstract!Next, CallType
<1>4. CASE call[t].op = "forget"
  <2>1. Abstract!Forget(n)
    BY <1>1, <1>4 DEF Abstract!Forget, Changed
  <2> QED BY <2>1, <1>1 DEF Abstract!Next
<1> QED BY <1>1, <1>2, <1>3, <1>4 DEF Ops

\* Every other step leaves the file alone.
LEMMA StepIsAtomic == ASSUME IInv, [Next]_vars PROVE [Abstract!Next]_store
<1>1. ASSUME NEW t \in Threads, Step(t) \/ CallAny(t) PROVE [Abstract!Next]_store
  <2>1. CASE Replace(t)
    BY <2>1, ReplaceIsAtomic
  <2>2. CASE ~Replace(t)
    BY <1>1, <2>2 DEF Step, CallAny, Call, Enter, LoadNodes, OpenTemporary, WriteTemporary, Leave, Fails
  <2> QED BY <2>1, <2>2
<1> QED BY <1>1 DEF Next, Kill, vars

\* Each operation takes effect at once or not at all: the registry implements
\* the abstract one.
THEOREM Atomic == ASSUME Nobody \notin Threads PROVE Spec => IsAtomic
<1>1. Init => IInv /\ Abstract!Init
  BY InitIInv DEF Init, NoNodes, Abstract!Init
<1>2. IInv /\ [Next]_vars => IInv'
  BY NextIInv
<1>3. IInv /\ [Next]_vars => [Abstract!Next]_store
  BY StepIsAtomic
<1> QED BY <1>1, <1>2, <1>3, PTL DEF Spec, IsAtomic, Abstract!Spec
=============================================================================
