------------------------ MODULE EngineLifecycle_proofs ------------------------
(***************************************************************************)
(* What the supervisor keeps of the worker processes, for every number of  *)
(* threads, identities, engines, processes, requests and failures.         *)
(*                                                                         *)
(* TypeInv: the shape of the plans.  Follows(c, d) says which call may wait *)
(* behind which, Fits(r, c) which call serves which request; both hold of   *)
(* every plan however its calls were replaced (TypeCorrect).               *)
(*                                                                         *)
(* Orderly: what each call relies on between the step that looked and the  *)
(* step that acts, as nothing is locked.  It holds until requests race:    *)
(* then no process is lost or doubled (NobodyLost, OneWorker).             *)
(*                                                                         *)
(* Restores: where each worker is while Reticulum restarts (AllBack).      *)
(***************************************************************************)
EXTENDS EngineLifecycle, FiniteSetTheorems, SequenceTheorems, TLAPS

\* The calls of a list.
CallsOf(s) == {s[k] : k \in 1 .. Len(s)}

\* Calls that replace or start an engine, calls that lead to the start of a
\* worker, and what a call needs: one identity, an engine, a process, or the
\* engine there is.
Replacing == {"remember", "halt", "clear", "replace", "create", "launch"}
Starting == {"rnsStart", "enabled", "start", "check", "pop", "spawn", "register", "saved"}
OnWorker == {"start", "stop", "restart", "check", "pop", "spawn", "register",
             "find", "ask", "await", "forget"}
OnEngine == {"rnsStart", "rnsStop", "enabled", "check", "pop", "spawn", "register",
             "find", "ask", "await", "forget"}
OnProcess == {"register", "ask", "await", "forget"}
Needed == {"rnsStart", "enabled", "check", "pop", "spawn", "register"}

\* The wait that belongs to the other calls of a stop.
Waiting(c) == [c EXCEPT !.do = "await"]

\* d may stand somewhere behind c.
Follows(c, d) ==
    /\ c.do \in Replacing => d.do \in Replacing \cup {"saved"}
    /\ c.do \in {"clear", "replace"} => d.do \in {"create", "launch", "saved"}
    /\ c.do = "create" => d.do = "launch"
    /\ c.do = "launch" => d.do = "saved"
    /\ c.do \in Starting => d.do \in Starting
    /\ c.do \notin {"saved", "start", "stop", "restart"}
    /\ d.do \notin {"pop", "register", "ask", "start", "stop", "restart", "remember"}
    /\ d.do = "halt" => c.do = "remember"
    /\ d.do = "spawn" => c = [d EXCEPT !.do = "pop"]
    /\ d.do = "await" => c = [d EXCEPT !.do = "ask"]
    /\ d.do = "forget" => c = [d EXCEPT !.do = "ask"] \/ c = Waiting(d)

Paired(s) == \A k, l \in 1 .. Len(s) : k < l => Follows(s[k], s[l])

(* The calls of a plan. *)
LEMMA CallsType ==
    ASSUME NEW s \in Seq(Call)
    PROVE  CallsOf(s) \subseteq Call /\ (s # <<>> <=> CallsOf(s) # {})
  BY DEF CallsOf

(* A plan is the call to be made now and those behind it. *)
LEMMA CallsSplit ==
    ASSUME NEW s \in Seq(Call), s # <<>>
    PROVE  /\ Head(s) \in Call /\ Tail(s) \in Seq(Call)
           /\ CallsOf(s) = {Head(s)} \cup CallsOf(Tail(s))
<1>1. /\ Head(s) \in Call /\ Tail(s) \in Seq(Call) /\ Len(s) \in Nat \ {0}
      /\ Head(s) = s[1] /\ Len(Tail(s)) = Len(s) - 1
      /\ \A k \in 1 .. Len(Tail(s)) : Tail(s)[k] = s[k + 1]
  OBVIOUS
<1>2. \A k \in 1 .. Len(s) : k = 1 \/ (k - 1 \in 1 .. Len(Tail(s)) /\ s[k] = Tail(s)[k - 1])
  BY <1>1
<1>3. \A k \in 1 .. Len(Tail(s)) : k + 1 \in 1 .. Len(s)
  BY <1>1
<1>4. 1 \in 1 .. Len(s)
  BY <1>1
<1>5. CallsOf(s) \subseteq {Head(s)} \cup CallsOf(Tail(s))
  BY <1>1, <1>2 DEF CallsOf
<1>6. {Head(s)} \cup CallsOf(Tail(s)) \subseteq CallsOf(s)
  BY <1>1, <1>3, <1>4 DEF CallsOf
<1> QED
  BY <1>1, <1>5, <1>6

(* Every call of a plan may follow the ones before it. *)
LEMMA PairedSplit ==
    ASSUME NEW s \in Seq(Call), s # <<>>, Paired(s)
    PROVE  Paired(Tail(s)) /\ \A d \in CallsOf(Tail(s)) : Follows(Head(s), d)
<1>1. /\ Len(s) \in Nat \ {0} /\ Head(s) = s[1] /\ Len(Tail(s)) = Len(s) - 1
      /\ \A k \in 1 .. Len(Tail(s)) : Tail(s)[k] = s[k + 1]
  OBVIOUS
<1>2. \A k \in 1 .. Len(Tail(s)) : k + 1 \in 1 .. Len(s) /\ 1 < k + 1
  BY <1>1
<1>3. \A k, l \in 1 .. Len(Tail(s)) : k < l => k + 1 < l + 1
  BY <1>1
<1> QED
  BY <1>1, <1>2, <1>3 DEF Paired, CallsOf

(* The calls of two lists put one behind the other. *)
LEMMA CallsJoin ==
    ASSUME NEW a \in Seq(Call), NEW b \in Seq(Call)
    PROVE  /\ a \o b \in Seq(Call)
           /\ CallsOf(a \o b) = CallsOf(a) \cup CallsOf(b)
<1>1. /\ a \o b \in Seq(Call) /\ Len(a) \in Nat /\ Len(b) \in Nat /\ Len(a \o b) = Len(a) + Len(b)
      /\ \A k \in 1 .. Len(a) + Len(b) :
             (a \o b)[k] = IF k <= Len(a) THEN a[k] ELSE b[k - Len(a)]
  OBVIOUS
<1>2. \A k \in 1 .. Len(a) + Len(b) : k <= Len(a) => k \in 1 .. Len(a)
  BY <1>1
<1>3. \A k \in 1 .. Len(a) + Len(b) : ~(k <= Len(a)) => k - Len(a) \in 1 .. Len(b)
  BY <1>1
<1>4. \A k \in 1 .. Len(b) : /\ Len(a) + k \in 1 .. Len(a) + Len(b)
                             /\ ~(Len(a) + k <= Len(a)) /\ (Len(a) + k) - Len(a) = k
  BY <1>1
<1>5. CallsOf(a \o b) \subseteq CallsOf(a) \cup CallsOf(b)
  BY <1>1, <1>2, <1>3 DEF CallsOf
<1>6. CallsOf(a) \subseteq CallsOf(a \o b)
  BY <1>1 DEF CallsOf
<1>7. CallsOf(b) \subseteq CallsOf(a \o b)
  <2> SUFFICES ASSUME NEW k \in 1 .. Len(b) PROVE b[k] \in CallsOf(a \o b)
    BY DEF CallsOf
  <2>1. b[k] = (a \o b)[Len(a) + k] /\ Len(a) + k \in 1 .. Len(a \o b)
    BY <1>1, <1>4
  <2> QED
    BY <2>1 DEF CallsOf
<1> QED
  BY <1>1, <1>5, <1>6, <1>7

(* Lists may be joined when the calls of one may follow those of the other. *)
LEMMA PairedJoin ==
    ASSUME NEW a \in Seq(Call), NEW b \in Seq(Call), Paired(a), Paired(b),
           \A c \in CallsOf(a), d \in CallsOf(b) : Follows(c, d)
    PROVE  Paired(a \o b)
<1>1. /\ Len(a) \in Nat /\ Len(b) \in Nat /\ Len(a \o b) = Len(a) + Len(b)
      /\ \A k \in 1 .. Len(a) + Len(b) :
             (a \o b)[k] = IF k <= Len(a) THEN a[k] ELSE b[k - Len(a)]
  OBVIOUS
<1> SUFFICES ASSUME NEW k \in 1 .. Len(a) + Len(b), NEW l \in 1 .. Len(a) + Len(b), k < l
             PROVE  Follows((a \o b)[k], (a \o b)[l])
  BY <1>1 DEF Paired
<1>2. CASE l <= Len(a)
  BY <1>1, <1>2 DEF Paired
<1>3. CASE k <= Len(a) /\ ~(l <= Len(a))
  <2>1. k \in 1 .. Len(a) /\ l - Len(a) \in 1 .. Len(b)
    BY <1>1, <1>3
  <2> QED
    BY <1>1, <1>3, <2>1 DEF CallsOf
<1>4. CASE ~(k <= Len(a))
  <2>1. k - Len(a) \in 1 .. Len(b) /\ l - Len(a) \in 1 .. Len(b) /\ k - Len(a) < l - Len(a)
        /\ ~(l <= Len(a))
    BY <1>1, <1>4
  <2> QED
    BY <1>1, <1>4, <2>1 DEF Paired
<1> QED
  BY <1>2, <1>3, <1>4

(* Short lists. *)
LEMMA CallsShort ==
    /\ CallsOf(<<>>) = {} /\ Paired(<<>>)
    /\ \A c : CallsOf(<<c>>) = {c} /\ Paired(<<c>>)
    /\ \A c, d : CallsOf(<<c, d>>) = {c, d} /\ (Follows(c, d) => Paired(<<c, d>>))
    /\ \A c, d, e : CallsOf(<<c, d, e>>) = {c, d, e}
                    /\ (Follows(c, d) /\ Follows(c, e) /\ Follows(d, e) => Paired(<<c, d, e>>))
<1>1. CallsOf(<<>>) = {} /\ Paired(<<>>)
  BY DEF CallsOf, Paired
<1>2. ASSUME NEW c PROVE CallsOf(<<c>>) = {c} /\ Paired(<<c>>)
  <2>1. Len(<<c>>) = 1 /\ 1 .. 1 = {1} /\ <<c>>[1] = c
    OBVIOUS
  <2> QED
    BY <2>1 DEF CallsOf, Paired
<1>3. ASSUME NEW c, NEW d
      PROVE  CallsOf(<<c, d>>) = {c, d} /\ (Follows(c, d) => Paired(<<c, d>>))
  <2>1. Len(<<c, d>>) = 2 /\ 1 .. 2 = {1, 2} /\ <<c, d>>[1] = c /\ <<c, d>>[2] = d
    OBVIOUS
  <2> QED
    BY <2>1 DEF CallsOf, Paired
<1>4. ASSUME NEW c, NEW d, NEW e
      PROVE  CallsOf(<<c, d, e>>) = {c, d, e}
             /\ (Follows(c, d) /\ Follows(c, e) /\ Follows(d, e) => Paired(<<c, d, e>>))
  <2>1. /\ Len(<<c, d, e>>) = 3 /\ 1 .. 3 = {1, 2, 3}
        /\ <<c, d, e>>[1] = c /\ <<c, d, e>>[2] = d /\ <<c, d, e>>[3] = e
    OBVIOUS
  <2>2. CallsOf(<<c, d, e>>) = {c, d, e}
    BY <2>1 DEF CallsOf
  <2>3. ASSUME Follows(c, d), Follows(c, e), Follows(d, e) PROVE Paired(<<c, d, e>>)
    BY <2>1, <2>3 DEF Paired
  <2> QED
    BY <2>2, <2>3
<1> QED
  BY <1>1, <1>2, <1>3, <1>4

(* SetToSeq lists the elements of a finite set. *)
LEMMA ListOfSet ==
    ASSUME NEW S, IsFiniteSet(S)
    PROVE  /\ Cardinality(S) \in Nat
           /\ \A k \in 1 .. Cardinality(S) : SetToSeq(S)[k] \in S
           /\ \A x \in S : \E k \in 1 .. Cardinality(S) : SetToSeq(S)[k] = x
<1> DEFINE n == Cardinality(S)
           f == SetToSeq(S)
<1>1. n \in Nat /\ ExistsBijection(1 .. n, S)
  BY FS_CardinalityType
<1>2. \E g \in [1 .. n -> S] : IsInjective(g)
  BY <1>1 DEF ExistsBijection, Bijection, Injection
<1>3. f \in [1 .. n -> S] /\ IsInjective(f)
  BY <1>2 DEF SetToSeq
<1>4. f \in Injection(1 .. n, S)
  BY <1>3 DEF Injection
<1>5. Cardinality(1 .. n) = n
  BY <1>1, FS_Interval
<1>6. f \in Surjection(1 .. n, S)
  BY <1>4, <1>5, FS_Injection
<1> QED
  BY <1>1, <1>3, <1>6 DEF Surjection
-----------------------------------------------------------------------------
\* A thread that serves request r may have to make call c.
Fits(r, c) ==
    /\ c.do \in Starting \cup {"create", "replace", "launch", "restart"} => Starts(r)
    /\ c.do \in Replacing \cup {"rnsStart", "rnsStop", "enabled", "saved"} => r.op \notin WorkerOps
    /\ c.do \in {"remember", "replace", "saved"} => r.op = "restartReticulum"
    /\ c.do = "clear" => r.op # "restartReticulum"
    /\ r.op \in WorkerOps => c.ids = r.ids
    /\ c.do \in OnWorker => \E i \in Identities : c.ids = {i}
    /\ c.do \in OnEngine => c.e \in Engines
    /\ c.do \in OnProcess => c.p \in DOMAIN process /\ process[c.p].id = c.ids

PlanOK(t) ==
    /\ doing[t].op = "none" => plan[t] = <<>>
    /\ \A c \in CallsOf(plan[t]) : Fits(doing[t], c)
    /\ Paired(plan[t])
    /\ \A c \in CallsOf(plan[t]) : c.do = "ask" => Waiting(c) \in CallsOf(plan[t])
    /\ \A c \in CallsOf(plan[t]) : c.do = "remember" => plan[t] = RestartReticulum
    /\ \A c \in CallsOf(plan[t]) :
           c.do = "halt" => \E d \in CallsOf(plan[t]) : d.do \in {"clear", "replace"}

Plans == \A t \in Threads : PlanOK(t)

TypeInv == TypeOK /\ Plans

(* Processes are never forgotten and keep their identity. *)
Grows == /\ DOMAIN process \subseteq DOMAIN process'
         /\ \A p \in DOMAIN process : process'[p].id = process[p].id

(* A call keeps fitting its request while the processes are kept. *)
LEMMA FitsStays ==
    ASSUME NEW r, NEW c, Fits(r, c), Grows
    PROVE  Fits(r, c)'
  BY DEF Fits, Grows

(* A step of thread t leaves the plans of the others in shape. *)
LEMMA PlansKept ==
    ASSUME Plans, NEW t \in Threads, Grows, PlanOK(t)',
           \A u \in Threads \ {t} : plan'[u] = plan[u] /\ doing'[u] = doing[u]
    PROVE  Plans'
<1> SUFFICES ASSUME NEW u \in Threads, u # t PROVE PlanOK(u)'
  BY DEF Plans
<1>1. PlanOK(u) /\ plan'[u] = plan[u] /\ doing'[u] = doing[u]
  BY DEF Plans
<1>2. \A c \in CallsOf(plan[u]) : Fits(doing[u], c)'
  BY <1>1, FitsStays DEF PlanOK
<1> QED
  BY <1>1, <1>2 DEF PlanOK

(* What may follow a call may also follow the calls that take its place. *)
LEMMA FollowsFacts ==
    ASSUME NEW h \in Call, NEW d \in Call, Follows(h, d)
    PROVE  /\ d.do = "spawn" => h.do = "pop"
           /\ d.do = "await" => h.do = "ask"
           /\ d.do = "forget" => h.do \in {"ask", "await"}
  BY DEF Follows, Waiting, Call

(* A call that replaces another keeps what stood behind it in order. *)
LEMMA FollowsPlain ==
    ASSUME NEW h \in Call, NEW d \in Call, Follows(h, d), h.do \notin {"pop", "ask", "await", "remember"},
           NEW c, c.do \notin Replacing \cup {"saved", "start", "stop", "restart"},
           c.do \in Starting => h.do \in Starting \cup {"launch"}
    PROVE  Follows(c, d)
<1>1. d.do \notin {"spawn", "await", "forget"}
  BY FollowsFacts
<1>2. c.do \in Starting => d.do \in Starting
  BY DEF Follows, Starting
<1> QED
  BY <1>1, <1>2 DEF Follows, Replacing

(* What is known of the call to be made now and of those behind it. *)
LEMMA PlanParts ==
    ASSUME TypeInv, NEW t \in Threads, plan[t] # <<>>
    PROVE  /\ plan[t] \in Seq(Call) /\ Now(t) \in Call /\ Tail(plan[t]) \in Seq(Call)
           /\ CallsOf(plan[t]) = {Now(t)} \cup CallsOf(Tail(plan[t]))
           /\ CallsOf(Tail(plan[t])) \subseteq Call
           /\ Fits(doing[t], Now(t))
           /\ \A d \in CallsOf(Tail(plan[t])) :
                  Fits(doing[t], d) /\ Follows(Now(t), d) /\ d.do \notin {"ask", "remember"}
           /\ Paired(Tail(plan[t]))
           /\ doing[t] \in Request /\ doing[t].op # "none"
<1>1. plan[t] \in Seq(Call) /\ PlanOK(t) /\ doing[t] \in Request
  BY DEF TypeInv, TypeOK, Plans
<1>2. /\ Head(plan[t]) \in Call /\ Tail(plan[t]) \in Seq(Call)
      /\ CallsOf(plan[t]) = {Head(plan[t])} \cup CallsOf(Tail(plan[t]))
  BY <1>1, CallsSplit
<1>3. Paired(Tail(plan[t])) /\ \A d \in CallsOf(Tail(plan[t])) : Follows(Head(plan[t]), d)
  BY <1>1, PairedSplit DEF PlanOK
<1>4. CallsOf(Tail(plan[t])) \subseteq Call
  BY <1>2, CallsType
<1>5. \A d \in CallsOf(Tail(plan[t])) : d.do \notin {"ask", "remember"}
  BY <1>3 DEF Follows
<1> QED
  BY <1>1, <1>2, <1>3, <1>4, <1>5 DEF PlanOK, Now

(* The plan after a call that returned. *)
LEMMA Proceeds ==
    ASSUME TypeInv, NEW t \in Threads, plan[t] # <<>>, NEW calls \in Seq(Call), Proceed(t, calls)
    PROVE  /\ plan' \in [Threads -> Seq(Call)]
           /\ plan'[t] = calls \o Tail(plan[t])
           /\ \A u \in Threads \ {t} : plan'[u] = plan[u]
           /\ CallsOf(plan'[t]) = CallsOf(calls) \cup CallsOf(Tail(plan[t]))
<1>1. plan \in [Threads -> Seq(Call)] /\ Tail(plan[t]) \in Seq(Call)
  BY PlanParts DEF TypeInv, TypeOK
<1>2. /\ calls \o Tail(plan[t]) \in Seq(Call)
      /\ CallsOf(calls \o Tail(plan[t])) = CallsOf(calls) \cup CallsOf(Tail(plan[t]))
  BY <1>1, CallsJoin
<1> QED
  BY <1>1, <1>2 DEF Proceed

(* The plans keep their shape when a call returned or was replaced by others. *)
LEMMA ProceedPlans ==
    ASSUME TypeInv, NEW t \in Threads, plan[t] # <<>>, NEW calls \in Seq(Call), Proceed(t, calls),
           doing' = doing, Grows, Paired(calls),
           \A c \in CallsOf(calls) : /\ Fits(doing[t], c)'
                                     /\ c.do \notin {"remember", "halt"}
                                     /\ c.do = "ask" => Waiting(c) \in CallsOf(calls)
                                     /\ \A d \in CallsOf(Tail(plan[t])) : Follows(c, d)
    PROVE  plan' \in [Threads -> Seq(Call)] /\ Plans'
<1>1. /\ plan' \in [Threads -> Seq(Call)]
      /\ plan'[t] = calls \o Tail(plan[t])
      /\ \A u \in Threads \ {t} : plan'[u] = plan[u]
      /\ CallsOf(plan'[t]) = CallsOf(calls) \cup CallsOf(Tail(plan[t]))
  BY Proceeds
<1>2. Paired(plan'[t])
  BY <1>1, PlanParts, PairedJoin
<1>3. \A c \in CallsOf(Tail(plan[t])) : Fits(doing[t], c)' /\ c.do \notin {"ask", "remember"}
  BY PlanParts, FitsStays
<1>4. doing'[t] = doing[t] /\ doing[t].op # "none"
  BY PlanParts
<1>4a. ASSUME NEW c \in CallsOf(Tail(plan[t])), c.do = "halt"
       PROVE  \E d \in CallsOf(Tail(plan[t])) : d.do \in {"clear", "replace"}
  <2>1. PICK d \in CallsOf(plan[t]) : d.do \in {"clear", "replace"}
    BY <1>4a, PlanParts DEF TypeInv, Plans, PlanOK
  <2>2. d # Now(t)
    BY <1>4a, <2>1, PlanParts DEF Follows
  <2> QED
    BY <2>1, <2>2, PlanParts
<1>5. PlanOK(t)'
  BY <1>1, <1>2, <1>3, <1>4, <1>4a DEF PlanOK
<1> QED
  BY <1>1, <1>5, PlansKept DEF TypeInv

(* The plans keep their shape when a call raised. *)
LEMMA AbortPlans ==
    ASSUME TypeInv, NEW t \in Threads, Abort(t), doing' = doing, Grows
    PROVE  plan' \in [Threads -> Seq(Call)] /\ Plans'
<1>1. plan \in [Threads -> Seq(Call)]
  BY DEF TypeInv, TypeOK
<1>2. <<>> \in Seq(Call)
  OBVIOUS
<1>3. plan' \in [Threads -> Seq(Call)] /\ plan'[t] = <<>>
      /\ \A u \in Threads \ {t} : plan'[u] = plan[u]
  BY <1>1, <1>2 DEF Abort
<1>4. PlanOK(t)'
  BY <1>3, CallsShort DEF PlanOK
<1> QED
  BY <1>3, <1>4, PlansKept DEF TypeInv
-----------------------------------------------------------------------------
(* The programs of the requests. *)
LEMMA CallParts ==
    /\ \A do : A(do).do = do /\ A(do).e = NoEngine /\ A(do).ids = {} /\ A(do).p = NoProcess
    /\ \A do, e, i : On(do, e, i).do = do /\ On(do, e, i).e = e /\ On(do, e, i).ids = {i}
    /\ \A do, e, i, p : /\ With(do, e, i, p).do = do /\ With(do, e, i, p).e = e
                        /\ With(do, e, i, p).ids = {i} /\ With(do, e, i, p).p = p
  BY DEF A, On, With

Dos == {"create", "replace", "halt", "clear", "launch", "rnsStart", "rnsStop",
        "enabled", "remember", "saved", "start", "stop", "restart",
        "check", "pop", "spawn", "register", "find", "ask", "await", "forget"}

(* The calls are well formed. *)
LEMMA CallsAreCalls ==
    /\ \A do \in Dos : A(do) \in Call
    /\ \A do \in Dos, x \in SUBSET Identities : [A(do) EXCEPT !.ids = x] \in Call
    /\ \A do \in Dos, b \in BOOLEAN : [A(do) EXCEPT !.safe = b] \in Call
    /\ \A do \in Dos, e \in Engines : [A(do) EXCEPT !.e = e] \in Call
    /\ \A do \in Dos, e \in Engines, i \in Identities : On(do, e, i) \in Call
    /\ \A do \in Dos, e \in Engines, i \in Identities, p \in Processes : With(do, e, i, p) \in Call
<1> DEFINE E == {NoEngine} \cup Engines
           P == Processes \cup {NoProcess}
<1>1. \A c \in Call : /\ \A e \in E : [c EXCEPT !.e = e] \in Call
                      /\ \A x \in SUBSET Identities : [c EXCEPT !.ids = x] \in Call
                      /\ \A p \in P : [c EXCEPT !.p = p] \in Call
                      /\ \A b \in BOOLEAN : [c EXCEPT !.safe = b] \in Call
  BY DEF Call
<1>2. ASSUME NEW do \in Dos PROVE A(do) \in Call
  <2>1. {} \in SUBSET Identities /\ NoEngine \in E /\ NoProcess \in P /\ FALSE \in BOOLEAN
    OBVIOUS
  <2> QED
    BY <2>1 DEF A, Call, Dos
<1>3. /\ \A e \in Engines : e \in E
      /\ \A p \in Processes : p \in P
      /\ \A i \in Identities : {i} \in SUBSET Identities
  OBVIOUS
<1> HIDE DEF E, P
<1>4. ASSUME NEW do \in Dos, NEW e \in Engines, NEW i \in Identities
      PROVE  /\ On(do, e, i) \in Call
             /\ \A p \in Processes : With(do, e, i, p) \in Call
  <2>1. [A(do) EXCEPT !.e = e] \in Call
    BY <1>1, <1>2, <1>3
  <2>2. [[A(do) EXCEPT !.e = e] EXCEPT !.ids = {i}] \in Call
    BY <1>1, <1>3, <2>1
  <2>3. \A p \in Processes : [[[A(do) EXCEPT !.e = e] EXCEPT !.ids = {i}] EXCEPT !.p = p] \in Call
    BY <1>1, <1>3, <2>2
  <2> QED
    BY <2>2, <2>3 DEF On, With
<1> QED
  BY <1>1, <1>2, <1>3, <1>4

(* EngineSupervisor.start. *)
LEMMA StartProgram ==
    /\ StartEngine \in Seq(Call) /\ Paired(StartEngine)
    /\ CallsOf(StartEngine) = {A("create"), [A("launch") EXCEPT !.safe = TRUE]}
<1>1. A("create") \in Call /\ [A("launch") EXCEPT !.safe = TRUE] \in Call
  BY CallsAreCalls DEF Dos
<1>2. Follows(A("create"), [A("launch") EXCEPT !.safe = TRUE])
  BY DEF A, Follows, Replacing, Starting
<1>3. \A c, d \in Call : <<c, d>> \in Seq(Call)
  OBVIOUS
<1> QED
  BY <1>1, <1>2, <1>3, CallsShort DEF StartEngine

(* EngineSupervisor.stop. *)
LEMMA StopProgram ==
    /\ StopEngine \in Seq(Call) /\ Paired(StopEngine)
    /\ CallsOf(StopEngine) = {A("halt"), A("clear")}
<1>1. A("halt") \in Call /\ A("clear") \in Call
  BY CallsAreCalls DEF Dos
<1>2. Follows(A("halt"), A("clear"))
  BY DEF A, Follows, Replacing, Starting
<1> QED
  BY <1>1, <1>2, CallsShort DEF StopEngine

(* EngineSupervisor.restart: stop, then start. *)
LEMMA BothProgram ==
    /\ StopEngine \o StartEngine \in Seq(Call) /\ Paired(StopEngine \o StartEngine)
    /\ CallsOf(StopEngine \o StartEngine) =
           {A("halt"), A("clear"), A("create"), [A("launch") EXCEPT !.safe = TRUE]}
<1>1. \A c \in {A("halt"), A("clear")}, d \in {A("create"), [A("launch") EXCEPT !.safe = TRUE]} :
          Follows(c, d)
  BY DEF A, Follows, Replacing, Starting
<1>2. Paired(StopEngine \o StartEngine)
  BY <1>1, StartProgram, StopProgram, PairedJoin
<1> QED
  BY <1>2, StartProgram, StopProgram, CallsJoin

(* restart_reticulum. *)
LEMMA ReticulumProgram ==
    /\ RestartReticulum \in Seq(Call) /\ Paired(RestartReticulum)
    /\ CallsOf(RestartReticulum) =
           {A("remember"), A("halt"), A("replace"), A("launch"), A("saved")}
<1> DEFINE a == <<A("remember"), A("halt")>>
           b == <<A("replace"), A("launch"), A("saved")>>
<1>1. /\ A("remember") \in Call /\ A("halt") \in Call /\ A("replace") \in Call
      /\ A("launch") \in Call /\ A("saved") \in Call
  BY CallsAreCalls DEF Dos
<1>2. RestartReticulum = a \o b /\ a \in Seq(Call) /\ b \in Seq(Call)
  BY <1>1 DEF RestartReticulum
<1>3. Follows(A("remember"), A("halt")) /\ Follows(A("replace"), A("launch"))
      /\ Follows(A("replace"), A("saved")) /\ Follows(A("launch"), A("saved"))
  BY DEF A, Follows, Replacing, Starting
<1>4. /\ Paired(a) /\ Paired(b) /\ CallsOf(a) = {A("remember"), A("halt")}
      /\ CallsOf(b) = {A("replace"), A("launch"), A("saved")}
  BY <1>3, CallsShort
<1>5. \A c \in {A("remember"), A("halt")}, d \in {A("replace"), A("launch"), A("saved")} :
          Follows(c, d)
  BY DEF A, Follows, Replacing, Starting
<1> HIDE DEF a, b
<1>6. Paired(a \o b) /\ a \o b \in Seq(Call) /\ CallsOf(a \o b) = CallsOf(a) \cup CallsOf(b)
  BY <1>2, <1>4, <1>5, PairedJoin, CallsJoin
<1> QED
  BY <1>2, <1>4, <1>6

(* A request starts with a plan of this shape, whose calls name no engine yet. *)
LEMMA ProgramShape ==
    ASSUME NEW r \in Requests
    PROVE  /\ r \in Request /\ r.op # "none"
           /\ Program(r) \in Seq(Call) /\ Paired(Program(r))
           /\ \A c \in CallsOf(Program(r)) :
                  /\ Fits(r, c)' /\ c.e = NoEngine
                  /\ c.do \notin OnProcess \cup Needed \cup {"find"}
                  /\ c.do = "remember" => Program(r) = RestartReticulum
                  /\ c.do = "halt" =>
                         \E d \in CallsOf(Program(r)) : d.do \in {"clear", "replace"}
                  /\ c.do \in {"clear", "replace"} =>
                         \E d \in CallsOf(Program(r)) : d.do = "halt"
           /\ r.op = "restartReticulum" => Program(r) = RestartReticulum
<1> USE DEF Starting, Replacing, OnWorker, OnEngine, OnProcess, Needed, WorkerOps
<1>0. r \in Request
  BY DEF Requests, Request
<1>1. CASE r.op = "stopEngine" /\ r.ids = {}
  <2>1. Program(r) = StopEngine
    BY <1>1 DEF Program
  <2>2. \A c \in CallsOf(StopEngine) : Fits(r, c)' /\ c.e = NoEngine /\ c.do \in {"halt", "clear"}
    BY <1>1, StopProgram, CallParts DEF Fits, Starts
  <2>3. /\ A("clear") \in CallsOf(StopEngine) /\ A("clear").do = "clear"
        /\ A("halt") \in CallsOf(StopEngine) /\ A("halt").do = "halt"
    BY StopProgram, CallParts
  <2> QED
    BY <1>0, <1>1, <2>1, <2>2, <2>3, StopProgram
<1>2. CASE r.op = "restart" /\ r.ids = {}
  <2>1. Program(r) = StopEngine \o StartEngine
    BY <1>2 DEF Program
  <2>2. \A c \in CallsOf(StopEngine \o StartEngine) :
            Fits(r, c)' /\ c.e = NoEngine /\ c.do \in {"halt", "clear", "create", "launch"}
    BY <1>2, BothProgram, CallParts DEF Fits, Starts, A
  <2>3. /\ A("clear") \in CallsOf(StopEngine \o StartEngine) /\ A("clear").do = "clear"
        /\ A("halt") \in CallsOf(StopEngine \o StartEngine) /\ A("halt").do = "halt"
    BY BothProgram, CallParts
  <2> QED
    BY <1>0, <1>2, <2>1, <2>2, <2>3, BothProgram
<1>3. CASE r.op = "restartReticulum" /\ r.ids = {}
  <2>1. Program(r) = RestartReticulum
    BY <1>3 DEF Program
  <2>2. \A c \in CallsOf(RestartReticulum) :
            /\ Fits(r, c)' /\ c.e = NoEngine
            /\ c.do \in {"remember", "halt", "replace", "launch", "saved"}
    BY <1>3, ReticulumProgram, CallParts DEF Fits, Starts
  <2>3. /\ A("replace") \in CallsOf(RestartReticulum) /\ A("replace").do = "replace"
        /\ A("halt") \in CallsOf(RestartReticulum) /\ A("halt").do = "halt"
    BY ReticulumProgram, CallParts
  <2> QED
    BY <1>0, <1>3, <2>1, <2>2, <2>3, ReticulumProgram
<1>4. ASSUME r.op \in WorkerOps, NEW i \in Identities, r.ids = {i}
      PROVE  /\ r \in Request /\ Program(r) \in Seq(Call) /\ Paired(Program(r))
             /\ \A c \in CallsOf(Program(r)) :
                    Fits(r, c)' /\ c.e = NoEngine /\ c.do \in {"start", "stop", "restart"}
  <2>1. PICK do \in {"start", "stop", "restart"} :
            /\ Program(r) = <<[A(do) EXCEPT !.ids = r.ids]>>
            /\ do \in {"start", "restart"} => Starts(r)
    BY <1>4 DEF Program, Starts
  <2>2. [A(do) EXCEPT !.ids = r.ids] \in Call
    BY <1>4, CallsAreCalls DEF Dos
  <2>3. CallsOf(Program(r)) = {[A(do) EXCEPT !.ids = r.ids]} /\ Paired(Program(r))
        /\ Program(r) \in Seq(Call)
    BY <2>1, <2>2, CallsShort
  <2>4. /\ [A(do) EXCEPT !.ids = r.ids].do = do /\ [A(do) EXCEPT !.ids = r.ids].e = NoEngine
        /\ [A(do) EXCEPT !.ids = r.ids].ids = {i}
    BY <1>4 DEF A
  <2>5. Fits(r, [A(do) EXCEPT !.ids = r.ids])'
    BY <1>4, <2>1, <2>4 DEF Fits
  <2> QED
    BY <1>0, <2>1, <2>3, <2>4, <2>5
<1>5. \/ r.op \in {"stopEngine", "restart", "restartReticulum"} /\ r.ids = {}
      \/ r.op \in WorkerOps /\ (\E i \in Identities : r.ids = {i})
  BY DEF Requests
<1> QED
  BY <1>1, <1>2, <1>3, <1>4, <1>5
-----------------------------------------------------------------------------
(* Type correctness, with the shape of the plans. *)
LEMMA InitType == Init => TypeInv
<1> SUFFICES ASSUME Init PROVE TypeInv
  OBVIOUS
<1> USE LifecycleAssumption
<1>1. Idle \in Request /\ [Idle EXCEPT !.op = "startEngine"] \in Request
  BY DEF Idle, Request
<1>2. doing \in [Threads -> Request]
  BY <1>1 DEF Init
<1>3. <<>> \in Seq(Call)
  OBVIOUS
<1>4. plan \in [Threads -> Seq(Call)]
  BY <1>3, StartProgram DEF Init
<1>5. workers \in [Engines -> [Identities -> {NoProcess} \cup DOMAIN process]]
      /\ \A e \in Engines, i \in Identities : workers[e][i] = NoProcess
  BY DEF Init, NoWorkers
<1>6. process \in Seq([at : {"starting", "listens", "deaf", "asked", "exited"},
                       id : SUBSET Identities]) /\ Len(process) = 0
  BY DEF Init
<1>7a. engine \in {NoEngine} \cup Engines /\ created \in 0 .. MaxEngines /\ engine <= created
  BY DEF Init, NoEngine
<1>7c. rns \in [Engines -> BOOLEAN] /\ raced \in BOOLEAN /\ failed \in BOOLEAN
  BY DEF Init
<1>7d. before \in [Threads -> SUBSET Identities]
  BY DEF Init
<1>7b. spent \in [ops : 0 .. MaxOps, failures : 0 .. MaxFailures] /\ Len(process) <= MaxProcesses
  BY <1>6 DEF Init
<1>7. TypeOK
  BY <1>2, <1>4, <1>5, <1>6, <1>7a, <1>7b, <1>7c, <1>7d DEF TypeOK
<1>8. ASSUME NEW t \in Threads, t # Starter PROVE PlanOK(t)
  BY <1>8, CallsShort DEF Init, PlanOK
<1>9. PlanOK(Starter)
  <2>1. plan[Starter] = StartEngine /\ doing[Starter] = [Idle EXCEPT !.op = "startEngine"]
    BY DEF Init
  <2>2. doing[Starter].op = "startEngine"
    BY <2>1 DEF Idle
  <2>3. \A c \in CallsOf(StartEngine) : Fits(doing[Starter], c) /\ c.do \in {"create", "launch"}
    BY <2>2, StartProgram DEF A, Fits, Starts, WorkerOps, Starting, Replacing, OnWorker, OnEngine,
       OnProcess
  <2> QED
    BY <2>1, <2>2, <2>3, StartProgram DEF PlanOK
<1> QED
  BY <1>7, <1>8, <1>9 DEF TypeInv, Plans

(* A request begins: doing and plan of one thread are set. *)
LEMMA BeginType ==
    ASSUME TypeInv, NEW t \in Threads, NEW r \in Requests, Begin(t, r)
    PROVE  TypeInv'
<1>1. r \in Request /\ Program(r) \in Seq(Call)
  BY ProgramShape
<1>2. doing' \in [Threads -> Request] /\ plan' \in [Threads -> Seq(Call)]
      /\ plan'[t] = Program(r) /\ doing'[t] = r
      /\ \A u \in Threads \ {t} : plan'[u] = plan[u] /\ doing'[u] = doing[u]
  BY <1>1 DEF TypeInv, TypeOK, Begin
<1>3. before' \in [Threads -> SUBSET Identities]
  BY DEF TypeInv, TypeOK, Begin
<1>4. raced' \in BOOLEAN
  BY DEF TypeInv, TypeOK, Begin
<1>5. spent' \in [ops : 0 .. MaxOps, failures : 0 .. MaxFailures]
  <2>1. /\ spent \in [ops : 0 .. MaxOps, failures : 0 .. MaxFailures]
        /\ spent' = [spent EXCEPT !.ops = @ + 1] /\ spent.ops < MaxOps
    BY DEF TypeInv, TypeOK, Begin
  <2>2. spent.ops + 1 \in 0 .. MaxOps
    BY <2>1, LifecycleAssumption
  <2> QED
    BY <2>1, <2>2
<1>6. TypeOK'
  BY <1>2, <1>3, <1>4, <1>5 DEF TypeInv, TypeOK, Begin, Alive, Entries
<1>7. PlanOK(t)'
  BY <1>2, ProgramShape DEF PlanOK, OnProcess
<1>8. Grows
  BY DEF Begin, Grows
<1> QED
  BY <1>2, <1>6, <1>7, <1>8, PlansKept DEF TypeInv

(* A request ends. *)
LEMMA FinishType ==
    ASSUME TypeInv, NEW t \in Threads, Finish(t)
    PROVE  TypeInv'
<1>1. doing' \in [Threads -> Request] /\ doing'[t] = Idle
      /\ \A u \in Threads \ {t} : plan'[u] = plan[u] /\ doing'[u] = doing[u]
  BY DEF TypeInv, TypeOK, Finish, Idle, Request
<1>2. before' \in [Threads -> SUBSET Identities]
  BY DEF TypeInv, TypeOK, Finish
<1>3. TypeOK'
  BY <1>1, <1>2 DEF TypeInv, TypeOK, Finish, Alive
<1>4. PlanOK(t)'
  BY <1>1, CallsShort DEF PlanOK, Finish
<1>5. Grows
  BY DEF Finish, Grows
<1> QED
  BY <1>1, <1>3, <1>4, <1>5, PlansKept DEF TypeInv

(* A step that touches nothing but the plan. *)
Quiet == UNCHANGED <<engine, created, rns, workers, process, doing, raced, before>>

(* A quiet step keeps the types of all but the plans. *)
LEMMA QuietType ==
    ASSUME TypeInv, Quiet, plan' \in [Threads -> Seq(Call)], Plans',
           \/ UNCHANGED <<spent, failed>>
           \/ /\ spent' \in [ops : 0 .. MaxOps, failures : 0 .. MaxFailures]
              /\ failed' = TRUE
    PROVE  TypeInv'
  BY DEF TypeInv, TypeOK, Quiet

(* A quiet call that returned. *)
LEMMA QuietProceeds ==
    ASSUME TypeInv, NEW t \in Threads, plan[t] # <<>>, NEW calls \in Seq(Call), Proceed(t, calls),
           Quiet, UNCHANGED <<spent, failed>>, Paired(calls),
           \A c \in CallsOf(calls) : /\ Fits(doing[t], c)
                                     /\ c.do \notin {"remember", "halt"}
                                     /\ c.do = "ask" => Waiting(c) \in CallsOf(calls)
                                     /\ \A d \in CallsOf(Tail(plan[t])) : Follows(c, d)
    PROVE  TypeInv'
<1>1. doing' = doing /\ Grows
  BY DEF Quiet, Grows
<1>2. \A c \in CallsOf(calls) : Fits(doing[t], c)'
  BY <1>1, FitsStays
<1> QED
  BY <1>1, <1>2, ProceedPlans, QuietType

(* A quiet call that raised. *)
LEMMA QuietAborts ==
    ASSUME TypeInv, NEW t \in Threads, Abort(t), Quiet, UNCHANGED <<spent, failed>>
    PROVE  TypeInv'
<1>1. doing' = doing /\ Grows
  BY DEF Quiet, Grows
<1> QED
  BY <1>1, AbortPlans, QuietType

(* A call that returned and made no other. *)
LEMMA NothingCalled ==
    ASSUME TypeInv, NEW t \in Threads, plan[t] # <<>>, Proceed(t, <<>>), doing' = doing, Grows
    PROVE  /\ plan' \in [Threads -> Seq(Call)] /\ Plans'
           /\ \A u \in Threads \ {t} : plan'[u] = plan[u]
           /\ CallsOf(plan'[t]) = CallsOf(Tail(plan[t]))
<1>1. <<>> \in Seq(Call) /\ CallsOf(<<>>) = {} /\ Paired(<<>>)
  BY CallsShort
<1>2. plan' \in [Threads -> Seq(Call)] /\ Plans'
  BY <1>1, ProceedPlans
<1>3. /\ \A u \in Threads \ {t} : plan'[u] = plan[u]
      /\ CallsOf(plan'[t]) = CallsOf(<<>>) \cup CallsOf(Tail(plan[t]))
  BY <1>1, Proceeds
<1> QED
  BY <1>1, <1>2, <1>3
-----------------------------------------------------------------------------
(* The single steps. *)
LEMMA FindCalls ==
    ASSUME TypeInv, engine # NoEngine
    PROVE  LET S == Entries(engine)
               F == [k \in 1 .. Cardinality(S) |-> On("find", engine, SetToSeq(S)[k])]
           IN  /\ F \in Seq(Call) /\ Paired(F)
               /\ CallsOf(F) = {On("find", engine, i) : i \in S}
<1> DEFINE S == Entries(engine)
           n == Cardinality(S)
           F == [k \in 1 .. n |-> On("find", engine, SetToSeq(S)[k])]
<1>1. S \subseteq Identities /\ IsFiniteSet(S) /\ engine \in Engines
  BY LifecycleAssumption, FS_Subset DEF Entries, TypeInv, TypeOK
<1>2. /\ n \in Nat /\ \A k \in 1 .. n : SetToSeq(S)[k] \in S
      /\ \A x \in S : \E k \in 1 .. n : SetToSeq(S)[k] = x
  BY <1>1, ListOfSet
<1>3. \A i \in S : On("find", engine, i) \in Call
  BY <1>1, CallsAreCalls DEF Dos
<1> HIDE DEF S
<1>4. F \in [1 .. n -> Call]
  BY <1>2, <1>3
<1>5. F \in Seq(Call) /\ Len(F) = n
  BY <1>2, <1>4
<1>6. CallsOf(F) = {On("find", engine, i) : i \in S}
  <2>1. CallsOf(F) \subseteq {On("find", engine, i) : i \in S}
    BY <1>2, <1>5 DEF CallsOf
  <2>2. ASSUME NEW i \in S PROVE On("find", engine, i) \in CallsOf(F)
    BY <1>2, <1>5 DEF CallsOf
  <2> QED
    BY <2>1, <2>2
<1>7. \A c \in CallsOf(F), d \in CallsOf(F) : Follows(c, d)
  <2> SUFFICES ASSUME NEW c \in CallsOf(F), NEW d \in CallsOf(F) PROVE Follows(c, d)
    OBVIOUS
  <2>1. c.do = "find" /\ d.do = "find"
    BY <1>6, CallParts
  <2> QED
    BY <2>1 DEF Follows, Replacing, Starting
<1>8. Paired(F)
  <2>1. \A k \in 1 .. Len(F) : F[k] \in CallsOf(F)
    BY DEF CallsOf
  <2> QED
    BY <1>7, <2>1 DEF Paired
<1> QED
  BY <1>5, <1>6, <1>8 DEF S

(* What halt leaves to do; only stop() goes on without an engine. *)
LEMMA HaltStep ==
    ASSUME TypeInv, NEW t \in Threads, Halt(t)
    PROVE  /\ TypeInv' /\ Quiet /\ UNCHANGED <<spent, failed>>
           /\ \A u \in Threads \ {t} : plan'[u] = plan[u]
           /\ engine # NoEngine =>
                CallsOf(plan'[t]) = {On("find", engine, i) : i \in Entries(engine)}
                                       \cup {[A("rnsStop") EXCEPT !.e = engine]}
                                       \cup CallsOf(Tail(plan[t]))
           /\ engine = NoEngine =>
                \/ plan'[t] = <<>>
                \/ /\ CallsOf(plan'[t]) \subseteq CallsOf(Tail(plan[t]))
                   /\ \A c \in CallsOf(plan'[t]) : c.do \in {"create", "launch", "saved"}
<1> DEFINE S == Entries(engine)
           F == [k \in 1 .. Cardinality(S) |-> On("find", engine, SetToSeq(S)[k])]
           x == [A("rnsStop") EXCEPT !.e = engine]
           rest == Tail(plan[t])
<1>0. plan[t] # <<>> /\ Now(t).do = "halt" /\ Quiet /\ UNCHANGED <<spent, failed>>
      /\ plan \in [Threads -> Seq(Call)]
  BY DEF Halt, At, Now, Quiet, TypeInv, TypeOK
<1>p. /\ plan[t] \in Seq(Call) /\ rest \in Seq(Call) /\ Paired(rest)
      /\ CallsOf(plan[t]) = {Now(t)} \cup CallsOf(rest) /\ CallsOf(rest) \subseteq Call
      /\ \A d \in CallsOf(rest) : Follows(Now(t), d) /\ Fits(doing[t], d)
      /\ Now(t) \in Call /\ Fits(doing[t], Now(t)) /\ doing[t].op # "none"
  BY <1>0, PlanParts
<1>1. CASE engine # NoEngine
  <2> DEFINE calls == F \o <<x>>
  <2>1. engine \in Engines /\ x \in Call /\ x.do = "rnsStop" /\ x.e = engine
    BY <1>1, CallsAreCalls DEF TypeInv, TypeOK, A, Dos
  <2>2. F \in Seq(Call) /\ Paired(F) /\ CallsOf(F) = {On("find", engine, i) : i \in S}
    BY <1>1, FindCalls
  <2>3. <<x>> \in Seq(Call) /\ Paired(<<x>>) /\ CallsOf(<<x>>) = {x}
    BY <2>1, CallsShort
  <2>4. Proceed(t, calls)
    BY <1>1 DEF Halt
  <2> HIDE DEF F, x
  <2>5. calls \in Seq(Call) /\ CallsOf(calls) = CallsOf(F) \cup {x}
    BY <2>2, <2>3, CallsJoin
  <2>6. \A c \in CallsOf(F) : c.do = "find" /\ c.e = engine /\ \E i \in S : c.ids = {i}
    BY <2>2, CallParts
  <2>7. \A c \in CallsOf(F) : Follows(c, x)
    BY <2>1, <2>6 DEF Follows, Replacing, Starting
  <2>8. Paired(calls)
    BY <2>2, <2>3, <2>7, PairedJoin
  <2>9. \A i \in S : i \in Identities
    BY DEF Entries
  <2>10. doing[t].op \notin WorkerOps
    BY <1>0, <1>p DEF Fits, Replacing
  <2>11. \A c \in CallsOf(calls) : Fits(doing[t], c)
    BY <2>1, <2>5, <2>6, <2>9, <2>10 DEF Fits, Starting, Replacing, OnWorker, OnEngine, OnProcess
  <2>12. \A c \in CallsOf(calls) : c.do \notin {"remember", "halt", "ask"}
    BY <2>1, <2>5, <2>6
  <2>13. \A c \in CallsOf(calls), d \in CallsOf(rest) : Follows(c, d)
    BY <1>0, <1>p, <2>1, <2>5, <2>6, FollowsPlain DEF Replacing, Starting
  <2> HIDE DEF calls
  <2>14. TypeInv'
    BY <1>0, <2>4, <2>5, <2>8, <2>11, <2>12, <2>13, QuietProceeds
  <2>15. /\ \A u \in Threads \ {t} : plan'[u] = plan[u]
         /\ CallsOf(plan'[t]) = CallsOf(calls) \cup CallsOf(rest)
    BY <1>0, <2>4, <2>5, Proceeds
  <2> QED
    BY <1>0, <1>1, <2>2, <2>5, <2>14, <2>15 DEF x
<1>2. CASE engine = NoEngine /\ plan[t][2].do = "clear"
  <2>1. PICK d \in CallsOf(rest) : d.do \in {"clear", "replace"}
    BY <1>0, <1>p DEF TypeInv, Plans, PlanOK
  <2>2. rest # <<>>
    BY <1>p, <2>1, CallsType
  <2>3. Head(rest) = plan[t][2]
    BY <1>p, <2>2
  <2>4. /\ Tail(rest) \in Seq(Call) /\ Paired(Tail(rest))
        /\ CallsOf(rest) = {Head(rest)} \cup CallsOf(Tail(rest))
        /\ \A c \in CallsOf(Tail(rest)) : Follows(Head(rest), c)
    BY <1>p, <2>2, CallsSplit, PairedSplit
  <2>5. \A c \in CallsOf(Tail(rest)) : c.do \in {"create", "launch", "saved"}
    BY <1>2, <2>3, <2>4 DEF Follows
  <2>6. plan' = [plan EXCEPT ![t] = Tail(rest)]
    BY <1>2 DEF Halt
  <2>7. plan'[t] = Tail(rest) /\ plan' \in [Threads -> Seq(Call)]
        /\ \A u \in Threads \ {t} : plan'[u] = plan[u]
    BY <1>0, <2>4, <2>6
  <2>8. \A c \in CallsOf(Tail(rest)) : Fits(doing[t], c)'
    BY <1>0, <1>p, <2>4, FitsStays DEF Quiet, Grows
  <2>9. PlanOK(t)'
    BY <1>0, <1>p, <2>4, <2>5, <2>7, <2>8 DEF PlanOK, Quiet
  <2>10. Plans'
    BY <1>0, <2>7, <2>9, PlansKept DEF TypeInv, Quiet, Grows
  <2> QED
    BY <1>0, <1>2, <2>4, <2>5, <2>7, <2>10, QuietType
<1>3. CASE engine = NoEngine /\ plan[t][2].do # "clear"
  <2>1. Abort(t)
    BY <1>3 DEF Halt
  <2>2. plan'[t] = <<>> /\ \A u \in Threads \ {t} : plan'[u] = plan[u]
    BY <1>0, <2>1 DEF Abort
  <2> QED
    BY <1>0, <1>3, <2>1, <2>2, QuietAborts
<1> QED
  BY <1>1, <1>2, <1>3

(* A call that returned, or that raised and ended the request. *)
Aside == UNCHANGED <<doing, raced>>
Returned(t) == CallsOf(plan'[t]) = CallsOf(Tail(plan[t]))
Others(t) == \A u \in Threads \ {t} : plan'[u] = plan[u]

(* The call to be made now names an engine, one identity or a process, as it needs. *)
LEMMA HeadParts ==
    ASSUME TypeInv, NEW t \in Threads, plan[t] # <<>>
    PROVE  /\ Now(t).e \in {NoEngine} \cup Engines
           /\ Now(t).do \in OnEngine => Now(t).e \in Engines
           /\ Now(t).do \in OnWorker =>
                  IdOf(Now(t)) \in Identities /\ Now(t).ids = {IdOf(Now(t))}
           /\ Now(t).do \in OnProcess =>
                  Now(t).p \in DOMAIN process /\ process[Now(t).p].id = Now(t).ids
<1>1. Now(t) \in Call /\ Fits(doing[t], Now(t))
  BY PlanParts
<1>2. ASSUME NEW i \in Identities, Now(t).ids = {i} PROVE IdOf(Now(t)) = i
  BY <1>2 DEF IdOf
<1> QED
  BY <1>1, <1>2 DEF Fits, Call

(* A quiet call that made no other leaves the calls behind it. *)
LEMMA QuietReturns ==
    ASSUME TypeInv, NEW t \in Threads, plan[t] # <<>>, Proceed(t, <<>>),
           Quiet, UNCHANGED <<spent, failed>>
    PROVE  TypeInv' /\ Others(t) /\ Returned(t)
<1>1. doing' = doing /\ Grows
  BY DEF Quiet, Grows
<1>2. /\ plan' \in [Threads -> Seq(Call)] /\ Plans'
      /\ \A u \in Threads \ {t} : plan'[u] = plan[u]
      /\ CallsOf(plan'[t]) = CallsOf(Tail(plan[t]))
  BY <1>1, NothingCalled
<1> QED
  BY <1>2, QuietType DEF Others, Returned

(* A call that raised leaves no call of its thread, and the others alone. *)
LEMMA AbortMoves ==
    ASSUME TypeInv, NEW t \in Threads, Abort(t)
    PROVE  Others(t) /\ plan'[t] = <<>>
  BY DEF Abort, Others, TypeInv, TypeOK

(* Proceeding to one other call, or two. *)
LEMMA QuietCalls ==
    ASSUME TypeInv, NEW t \in Threads, plan[t] # <<>>, NEW calls \in Seq(Call), Proceed(t, calls),
           Quiet, UNCHANGED <<spent, failed>>, Paired(calls),
           \A c \in CallsOf(calls) :
               /\ Fits(doing[t], c)
               /\ c.do \notin Replacing
               /\ c.do = "ask" => Waiting(c) \in CallsOf(calls)
               /\ c.do \in {"saved", "start", "stop", "restart"} => Tail(plan[t]) = <<>>
               /\ c.do \in Starting => Now(t).do \in Starting \cup {"launch"}
                                       \/ Tail(plan[t]) = <<>>,
           Now(t).do \notin {"pop", "ask", "await", "remember"}
    PROVE  /\ TypeInv' /\ Others(t)
           /\ CallsOf(plan'[t]) = CallsOf(calls) \cup CallsOf(Tail(plan[t]))
<1>1. ASSUME NEW c \in CallsOf(calls), NEW d \in CallsOf(Tail(plan[t])) PROVE Follows(c, d)
  <2>1. Tail(plan[t]) # <<>>
    BY CallsShort
  <2>2. Now(t) \in Call /\ d \in Call /\ Follows(Now(t), d)
    BY PlanParts
  <2> QED
    BY <2>1, <2>2, FollowsPlain
<1>2. TypeInv'
  BY <1>1, QuietProceeds DEF Replacing
<1> QED
  BY <1>2, Proceeds DEF Others

(* EngineMain.start: the calls of RNS and, for the start of the application, of the workers. *)
LEMMA LaunchStep ==
    ASSUME TypeInv, NEW t \in Threads, Launch(t)
    PROVE  /\ TypeInv' /\ Quiet /\ UNCHANGED <<spent, failed>> /\ Others(t)
           /\ engine = NoEngine => plan'[t] = <<>>
           /\ engine # NoEngine =>
                \A c \in CallsOf(plan'[t]) :
                    \/ c \in CallsOf(Tail(plan[t]))
                    \/ c.do \in {"rnsStart", "enabled"} /\ c.e = engine
           /\ engine # NoEngine => CallsOf(Tail(plan[t])) \subseteq CallsOf(plan'[t])
                                   /\ plan'[t] # <<>>
<1> DEFINE x == [A("rnsStart") EXCEPT !.e = engine]
           y == [A("enabled") EXCEPT !.e = engine]
<1>0. plan[t] # <<>> /\ Now(t).do = "launch" /\ Quiet /\ UNCHANGED <<spent, failed>>
  BY DEF Launch, At, Now, Quiet
<1>1. CASE engine = NoEngine
  <2>1. Abort(t)
    BY <1>1 DEF Launch
  <2> QED
    BY <1>0, <1>1, <2>1, QuietAborts, AbortMoves
<1>2. CASE engine # NoEngine
  <2>1. /\ engine \in Engines /\ x \in Call /\ x.do = "rnsStart" /\ x.e = engine
        /\ y \in Call /\ y.do = "enabled" /\ y.e = engine
    BY <1>2, CallsAreCalls DEF TypeInv, TypeOK, A, Dos
  <2>2. Follows(x, y)
    BY <2>1 DEF Follows, Replacing, Starting
  <2> DEFINE tail == IF Now(t).safe THEN <<y>> ELSE <<>>
             calls == <<x>> \o tail
  <2>3. Proceed(t, calls)
    BY <1>2 DEF Launch
  <2> HIDE DEF x, y
  <2>3a. tail \in Seq(Call) /\ Paired(tail) /\ CallsOf(tail) \subseteq {y}
    BY <2>1, CallsShort
  <2>3b. <<x>> \in Seq(Call) /\ Paired(<<x>>) /\ CallsOf(<<x>>) = {x}
    BY <2>1, CallsShort
  <2> HIDE DEF tail
  <2>4. calls \in Seq(Call) /\ Paired(calls) /\ CallsOf(calls) \subseteq {x, y}
        /\ x \in CallsOf(calls)
    BY <2>2, <2>3a, <2>3b, CallsJoin, PairedJoin
  <2> HIDE DEF calls
  <2>5. Fits(doing[t], Now(t))
    BY <1>0, PlanParts
  <2>6. \A c \in CallsOf(calls) : Fits(doing[t], c) /\ c.do \in {"rnsStart", "enabled"}
    BY <1>0, <2>1, <2>4, <2>5 DEF Fits, Starting, Replacing, OnWorker, OnEngine, OnProcess
  <2>7. /\ TypeInv' /\ Others(t)
        /\ CallsOf(plan'[t]) = CallsOf(calls) \cup CallsOf(Tail(plan[t]))
    BY <1>0, <2>3, <2>4, <2>6, QuietCalls DEF Replacing
  <2>8. plan'[t] # <<>>
    BY <2>4, <2>7, CallsShort
  <2> QED
    BY <1>0, <1>2, <2>1, <2>4, <2>7, <2>8
<1> QED
  BY <1>1, <1>2

(* _start_enabled_lxmf_workers. *)
LEMMA EnabledStep ==
    ASSUME TypeInv, NEW t \in Threads, StartEnabled(t)
    PROVE  /\ TypeInv' /\ Quiet /\ UNCHANGED <<spent, failed>> /\ Others(t)
           /\ Now(t).do = "enabled" /\ plan[t] # <<>>
           /\ \A c \in CallsOf(plan'[t]) :
                  \/ c \in CallsOf(Tail(plan[t]))
                  \/ c.do = "check" /\ c.e = Now(t).e
           /\ CallsOf(Tail(plan[t])) \subseteq CallsOf(plan'[t])
<1> DEFINE S == Enabled
           n == Cardinality(S)
           e == Now(t).e
           G(k) == [On("check", e, SetToSeq(S)[k]) EXCEPT !.safe = TRUE]
           F == [k \in 1 .. n |-> [On("check", e, SetToSeq(S)[k]) EXCEPT !.safe = TRUE]]
<1>0. plan[t] # <<>> /\ Now(t).do = "enabled" /\ Quiet /\ UNCHANGED <<spent, failed>>
  BY DEF StartEnabled, At, Now, Quiet
<1>1. S \subseteq Identities /\ IsFiniteSet(S)
  BY LifecycleAssumption, FS_Subset
<1>2. n \in Nat /\ \A k \in 1 .. n : SetToSeq(S)[k] \in Identities
  BY <1>1, ListOfSet
<1>3. e \in Engines
  BY <1>0, HeadParts DEF OnEngine
<1>4. ASSUME NEW k \in 1 .. n
      PROVE  F[k] \in Call /\ F[k].do = "check" /\ F[k].e = e /\ F[k].ids = {SetToSeq(S)[k]}
  <2> DEFINE c == On("check", e, SetToSeq(S)[k])
  <2>1. c \in Call /\ c.do = "check" /\ c.e = e /\ c.ids = {SetToSeq(S)[k]}
    BY <1>2, <1>3, CallsAreCalls, CallParts DEF Dos
  <2>2. F[k] = [c EXCEPT !.safe = TRUE]
    OBVIOUS
  <2> HIDE DEF c, F
  <2> QED
    BY <2>1, <2>2 DEF Call
<1>5. Proceed(t, F)
  BY DEF StartEnabled
<1>6. DOMAIN F = 1 .. n /\ F = [k \in 1 .. n |-> F[k]]
  OBVIOUS
<1> HIDE DEF F
<1>7. F \in Seq(Call) /\ Len(F) = n
  BY <1>2, <1>4, <1>6
<1>8. \A c \in CallsOf(F) : c.do = "check" /\ c.e = e /\ \E i \in Identities : c.ids = {i}
  BY <1>2, <1>4, <1>7 DEF CallsOf
<1>9. Paired(F)
  BY <1>4, <1>7 DEF Paired, Follows, Replacing, Starting
<1>10. Fits(doing[t], Now(t))
  BY <1>0, PlanParts
<1>11. \A c \in CallsOf(F) : Fits(doing[t], c)
  BY <1>0, <1>3, <1>8, <1>10 DEF Fits, Starting, Replacing, OnWorker, OnEngine, OnProcess
<1>12. /\ TypeInv' /\ Others(t)
       /\ CallsOf(plan'[t]) = CallsOf(F) \cup CallsOf(Tail(plan[t]))
  BY <1>0, <1>5, <1>7, <1>8, <1>9, <1>11, QuietCalls DEF Replacing, Starting
<1> QED
  BY <1>0, <1>8, <1>12

(* RNS starts or stops. *)
LEMMA RnsStepType ==
    ASSUME TypeInv, NEW t \in Threads, RnsStep(t)
    PROVE  /\ TypeInv' /\ Others(t) /\ Returned(t) /\ plan[t] # <<>>
           /\ Now(t).do \in {"rnsStart", "rnsStop"}
           /\ UNCHANGED <<engine, workers, process, doing, raced, failed, before>>
<1>1. /\ plan[t] # <<>> /\ Now(t).do \in {"rnsStart", "rnsStop"} /\ Proceed(t, <<>>)
      /\ UNCHANGED <<engine, created, workers, process, doing, spent, raced, failed, before>>
  BY DEF RnsStep, At, Now
<1>2. doing' = doing /\ Grows
  BY <1>1 DEF Grows
<1>3. plan' \in [Threads -> Seq(Call)] /\ Plans' /\ Others(t) /\ Returned(t)
  BY <1>1, <1>2, NothingCalled DEF Others, Returned
<1>4. rns' \in [Engines -> BOOLEAN]
  BY DEF RnsStep, TypeInv, TypeOK
<1>5. TypeOK'
  BY <1>1, <1>3, <1>4 DEF TypeInv, TypeOK
<1> QED
  BY <1>1, <1>3, <1>5 DEF TypeInv

(* A start that fails is counted, and ends the request or goes on. *)
LEMMA FailureCounts ==
    ASSUME TypeInv, spent.failures < MaxFailures, spent' = [spent EXCEPT !.failures = @ + 1]
    PROVE  spent' \in [ops : 0 .. MaxOps, failures : 0 .. MaxFailures]
<1>1. spent \in [ops : 0 .. MaxOps, failures : 0 .. MaxFailures]
  BY DEF TypeInv, TypeOK
<1>2. spent.failures + 1 \in 0 .. MaxFailures
  BY <1>1, LifecycleAssumption
<1> QED
  BY <1>1, <1>2

(* The start of RNS raises. *)
LEMMA RnsFailsStep ==
    ASSUME TypeInv, NEW t \in Threads, RnsStartFails(t)
    PROVE  /\ TypeInv' /\ Quiet /\ Others(t) /\ plan'[t] = <<>> /\ failed' = TRUE
           /\ plan[t] # <<>> /\ Now(t).do = "rnsStart"
<1>1. /\ plan[t] # <<>> /\ Now(t).do = "rnsStart" /\ Abort(t) /\ Quiet /\ failed' = TRUE
      /\ spent.failures < MaxFailures /\ spent' = [spent EXCEPT !.failures = @ + 1]
  BY DEF RnsStartFails, At, Now, Quiet
<1>2. plan' \in [Threads -> Seq(Call)] /\ Plans'
  BY <1>1, AbortPlans DEF Quiet, Grows
<1> QED
  BY <1>1, <1>2, FailureCounts, QuietType, AbortMoves

(* The start of a worker raises before it is entered. *)
LEMMA StartFailsStep ==
    ASSUME TypeInv, NEW t \in Threads, StartFails(t)
    PROVE  /\ TypeInv' /\ Quiet /\ Others(t) /\ failed' = TRUE
           /\ plan'[t] = <<>> \/ Returned(t)
           /\ plan[t] # <<>> /\ Now(t).do \in {"check", "spawn"}
<1>1. /\ plan[t] # <<>> /\ Now(t).do \in {"check", "spawn"} /\ Quiet /\ failed' = TRUE
      /\ spent.failures < MaxFailures /\ spent' = [spent EXCEPT !.failures = @ + 1]
      /\ Proceed(t, <<>>) \/ Abort(t)
  BY DEF StartFails, Raise, At, Now, Quiet
<1>2. spent' \in [ops : 0 .. MaxOps, failures : 0 .. MaxFailures]
  BY <1>1, FailureCounts
<1>3. doing' = doing /\ Grows
  BY <1>1 DEF Quiet, Grows
<1>4. CASE Abort(t)
  <2>1. plan' \in [Threads -> Seq(Call)] /\ Plans'
    BY <1>3, <1>4, AbortPlans
  <2> QED
    BY <1>1, <1>2, <1>4, <2>1, QuietType, AbortMoves
<1>5. CASE Proceed(t, <<>>)
  <2>1. plan' \in [Threads -> Seq(Call)] /\ Plans' /\ Others(t) /\ Returned(t)
    BY <1>1, <1>3, <1>5, NothingCalled DEF Others, Returned
  <2> QED
    BY <1>1, <1>2, <2>1, QuietType
<1> QED
  BY <1>1, <1>4, <1>5

(* remember fills in the identities that the last call goes through. *)
LEMMA RememberStep ==
    ASSUME TypeInv, NEW t \in Threads, Remember(t)
    PROVE  /\ TypeInv' /\ Quiet /\ UNCHANGED <<spent, failed>> /\ Others(t)
           /\ plan[t] = RestartReticulum /\ Now(t).do = "remember"
           /\ engine = NoEngine => plan'[t] = <<>>
           /\ engine # NoEngine => plan'[t] # <<>> /\
                CallsOf(plan'[t]) =
                    {A("halt"), A("replace"), A("launch"),
                     [A("saved") EXCEPT !.ids = {i \in Identities : Alive(workers[engine][i])}]}
<1>0. plan[t] # <<>> /\ Now(t).do = "remember" /\ Quiet /\ UNCHANGED <<spent, failed>>
      /\ plan \in [Threads -> Seq(Call)]
  BY DEF Remember, At, Now, Quiet, TypeInv, TypeOK
<1>1. /\ plan[t] = RestartReticulum /\ doing[t].op = "restartReticulum"
      /\ doing[t] \in Request
  <2>1. Now(t) \in CallsOf(plan[t]) /\ Fits(doing[t], Now(t)) /\ doing[t] \in Request
    BY <1>0, PlanParts
  <2> QED
    BY <1>0, <2>1 DEF Fits, TypeInv, Plans, PlanOK
<1>2. CASE engine = NoEngine
  <2>1. Abort(t)
    BY <1>2 DEF Remember
  <2> QED
    BY <1>0, <1>1, <1>2, <2>1, QuietAborts, AbortMoves
<1>3. CASE engine # NoEngine
  <2> DEFINE ids == {i \in Identities : Alive(workers[engine][i])}
             x == [A("saved") EXCEPT !.ids = ids]
             s == [k \in 1 .. Len(plan[t]) - 1 |->
                      IF plan[t][k + 1].do = "saved" THEN x ELSE plan[t][k + 1]]
             a == <<A("halt"), A("replace")>>
             b == <<A("launch"), x>>
  <2>1. plan' = [plan EXCEPT ![t] = s]
    BY <1>3 DEF Remember
  <2>2. /\ x \in Call /\ x.do = "saved" /\ x.ids = ids /\ x.e = NoEngine
        /\ A("halt") \in Call /\ A("replace") \in Call /\ A("launch") \in Call
        /\ A("halt").do = "halt" /\ A("replace").do = "replace" /\ A("launch").do = "launch"
        /\ A("saved").do = "saved"
    <3>1. ids \in SUBSET Identities
      OBVIOUS
    <3>2. x \in Call /\ A("saved") \in Call /\ A("saved").do = "saved" /\ A("saved").e = NoEngine
      BY <3>1, CallsAreCalls, CallParts DEF Dos
    <3>3. x.do = "saved" /\ x.ids = ids /\ x.e = NoEngine
      BY <3>2 DEF Call
    <3> QED
      BY <3>2, <3>3, CallsAreCalls, CallParts DEF Dos
  <2> HIDE DEF x
  <2>3. /\ Len(plan[t]) = 5 /\ plan[t][2] = A("halt") /\ plan[t][3] = A("replace")
        /\ plan[t][4] = A("launch") /\ plan[t][5] = A("saved")
    BY <1>1 DEF RestartReticulum
  <2>4. s = [k \in 1 .. 4 |-> IF plan[t][k + 1].do = "saved" THEN x ELSE plan[t][k + 1]]
    BY <2>3
  <2>5. /\ s[1] = A("halt") /\ s[2] = A("replace") /\ s[3] = A("launch") /\ s[4] = x
    BY <2>2, <2>3, <2>4
  <2>6. DOMAIN s = 1 .. 4 /\ 1 .. 4 = {1, 2, 3, 4}
    BY <2>4
  <2>6a. \A k \in 1 .. 4 : s[k] \in Call
    BY <2>2, <2>5, <2>6
  <2>6b. s \in [1 .. 4 -> Call]
    BY <2>4, <2>6a
  <2> HIDE DEF s
  <2>7. s \in Seq(Call) /\ Len(s) = 4
    <3>1. \A n \in Nat : \A f \in [1 .. n -> Call] : f \in Seq(Call) /\ Len(f) = n
      OBVIOUS
    <3> QED
      BY <2>6b, <3>1
  <2>8. CallsOf(s) = {A("halt"), A("replace"), A("launch"), x}
    BY <2>5, <2>6, <2>7 DEF CallsOf
  <2>9. Paired(s)
    <3>1. /\ Follows(s[1], s[2]) /\ Follows(s[1], s[3]) /\ Follows(s[1], s[4])
          /\ Follows(s[2], s[3]) /\ Follows(s[2], s[4]) /\ Follows(s[3], s[4])
      BY <2>2, <2>5 DEF Follows, Replacing, Starting
    <3>2. ASSUME NEW k \in {1, 2, 3, 4}, NEW l \in {1, 2, 3, 4}, k < l
          PROVE  Follows(s[k], s[l])
      <4>1. (k = 1 /\ l \in {2, 3, 4}) \/ (k = 2 /\ l \in {3, 4}) \/ (k = 3 /\ l = 4)
        BY <3>2
      <4> QED
        BY <3>1, <4>1
    <3> QED
      BY <3>2, <2>6, <2>7 DEF Paired
  <2>10. plan'[t] = s /\ plan' \in [Threads -> Seq(Call)] /\ Others(t)
    BY <1>0, <2>1, <2>7 DEF Others
  <2>11. \A c \in CallsOf(s) : Fits(doing[t], c)
    BY <1>1, <2>2, <2>8 DEF Fits, Starts, WorkerOps, Starting, Replacing, OnWorker, OnEngine,
       OnProcess
  <2>12. doing' = doing /\ Grows
    BY <1>0 DEF Quiet, Grows
  <2>13. \A c \in CallsOf(s) : Fits(doing[t], c)'
    BY <2>11, <2>12, FitsStays
  <2>14. A("replace") \in CallsOf(s) /\ doing[t].op # "none"
         /\ \A c \in CallsOf(s) : c.do \notin {"ask", "remember"}
    BY <1>1, <2>2, <2>8
  <2>15. PlanOK(t)'
    BY <2>2, <2>9, <2>10, <2>12, <2>13, <2>14 DEF PlanOK
  <2>16. Plans'
    BY <2>10, <2>12, <2>15, PlansKept DEF TypeInv, Others
  <2>17. TypeInv'
    BY <1>0, <2>10, <2>16, QuietType
  <2>18. plan'[t] # <<>>
    BY <2>8, <2>10, CallsShort
  <2> QED
    BY <1>0, <1>1, <1>3, <2>8, <2>10, <2>17, <2>18 DEF x
<1> QED
  BY <1>2, <1>3

(* These calls have nothing behind them. *)
LEMMA LastCall ==
    ASSUME TypeInv, NEW t \in Threads, plan[t] # <<>>,
           Now(t).do \in {"saved", "start", "stop", "restart"}
    PROVE  Tail(plan[t]) = <<>>
<1>1. \A d \in CallsOf(Tail(plan[t])) : Follows(Now(t), d)
  BY PlanParts
<1>2. CallsOf(Tail(plan[t])) = {}
  BY <1>1 DEF Follows
<1> QED
  BY <1>2, PlanParts, CallsType

(* The calls for one identity and the loop at the end of restart_reticulum. *)
LEMMA CallWorkerStep ==
    ASSUME TypeInv, NEW t \in Threads, CallWorker(t)
    PROVE  /\ TypeInv' /\ Quiet /\ UNCHANGED <<spent, failed>> /\ Others(t)
           /\ plan[t] # <<>> /\ Now(t).do \in {"saved", "start", "stop", "restart"}
           /\ \A c \in CallsOf(plan'[t]) :
                  \/ c.do = "find" /\ c.e = engine /\ Now(t).do \in {"stop", "restart"}
                  \/ c.do = "check" /\ c.e = engine
                  \/ c.do = "saved"
           /\ plan'[t] # <<>> => engine # NoEngine
           /\ engine # NoEngine /\ Now(t).do = "saved" =>
                \A i \in Now(t).ids :
                    \E c \in CallsOf(plan'[t]) : c.do \in {"check", "saved"} /\ i \in c.ids
<1> DEFINE i == IdOf(Now(t))
           find == On("find", engine, i)
           check == On("check", engine, i)
           saved == [A("saved") EXCEPT !.ids = Now(t).ids \ {i}]
<1>0. /\ plan[t] # <<>> /\ Now(t).do \in {"saved", "start", "stop", "restart"}
      /\ Quiet /\ UNCHANGED <<spent, failed>>
  BY DEF CallWorker, At, Now, Quiet
<1>1. Tail(plan[t]) = <<>> /\ CallsOf(Tail(plan[t])) = {}
  BY <1>0, LastCall, CallsShort
<1>2. Fits(doing[t], Now(t)) /\ Now(t) \in Call
  BY <1>0, PlanParts
<1>3. CASE engine = NoEngine \/ (Now(t).do = "saved" /\ Now(t).ids = {})
  <2>1. \/ Abort(t) /\ engine = NoEngine
        \/ Proceed(t, <<>>) /\ Now(t).do = "saved" /\ Now(t).ids = {}
    BY <1>0, <1>3 DEF CallWorker, At, Now
  <2>2. CASE Abort(t) /\ engine = NoEngine
    BY <1>0, <2>2, QuietAborts, AbortMoves, CallsShort
  <2>3. CASE Proceed(t, <<>>) /\ Now(t).do = "saved" /\ Now(t).ids = {}
    <3>1. TypeInv' /\ Others(t) /\ CallsOf(plan'[t]) = {}
      BY <1>0, <1>1, <2>3, QuietReturns DEF Returned
    <3>2. plan'[t] = <<>>
      BY <3>1, CallsType DEF TypeInv, TypeOK
    <3> QED
      BY <1>0, <2>3, <3>1, <3>2
  <2> QED
    BY <2>1, <2>2, <2>3
<1>4. CASE engine # NoEngine /\ ~(Now(t).do = "saved" /\ Now(t).ids = {})
  <2>1. engine \in Engines
    BY <1>4 DEF TypeInv, TypeOK
  <2>2. i \in Identities /\ i \in Now(t).ids /\ (Now(t).do \in OnWorker => Now(t).ids = {i})
    <3>1. CASE Now(t).do = "saved"
      <4>1. Now(t).ids # {} /\ Now(t).ids \subseteq Identities
        BY <1>2, <1>4, <3>1 DEF Call
      <4>2. i \in Now(t).ids
        BY <4>1 DEF IdOf
      <4> QED
        BY <3>1, <4>1, <4>2 DEF OnWorker
    <3>2. CASE Now(t).do # "saved"
      BY <1>0, <3>2, HeadParts DEF OnWorker
    <3> QED
      BY <3>1, <3>2
  <2>3. /\ find \in Call /\ find.do = "find" /\ find.e = engine /\ find.ids = {i}
        /\ check \in Call /\ check.do = "check" /\ check.e = engine /\ check.ids = {i}
        /\ saved \in Call /\ saved.do = "saved" /\ saved.ids = Now(t).ids \ {i}
    <3>1. A("saved") \in Call /\ saved \in Call /\ A("saved").do = "saved"
      <4>1. Now(t).ids \ {i} \in SUBSET Identities
        BY <1>2 DEF Call
      <4> QED
        BY <4>1, CallsAreCalls, CallParts DEF Dos
    <3>2. saved.do = "saved" /\ saved.ids = Now(t).ids \ {i}
      BY <3>1 DEF Call
    <3> QED
      BY <2>1, <2>2, <3>1, <3>2, CallsAreCalls, CallParts DEF Dos
  <2>4. \/ Now(t).do = "saved" /\ Proceed(t, <<check, saved>>)
        \/ Now(t).do = "start" /\ Proceed(t, <<check>>)
        \/ Now(t).do = "stop" /\ Proceed(t, <<find>>)
        \/ Now(t).do = "restart" /\ Proceed(t, <<find, check>>)
    BY <1>0, <1>4 DEF CallWorker, At, Now
  <2> HIDE DEF find, check, saved, i
  <2>5. Follows(check, saved) /\ Follows(find, check)
    BY <2>3 DEF Follows, Replacing, Starting
  <2>6. \A calls : Paired(calls) /\ calls \in Seq(Call) /\ Proceed(t, calls)
                   /\ (\A c \in CallsOf(calls) :
                          Fits(doing[t], c) /\ c.do \in {"find", "check", "saved"})
                   => TypeInv' /\ Others(t) /\ CallsOf(plan'[t]) = CallsOf(calls)
    BY <1>0, <1>1, QuietCalls DEF Replacing, Starting
  <2>7. CASE Now(t).do = "saved" /\ Proceed(t, <<check, saved>>)
    <3>1. Fits(doing[t], check) /\ Fits(doing[t], saved)
      BY <1>2, <2>1, <2>2, <2>3, <2>7 DEF Fits, Starting, Replacing, OnWorker, OnEngine, OnProcess
    <3>2. /\ Paired(<<check, saved>>) /\ <<check, saved>> \in Seq(Call)
          /\ CallsOf(<<check, saved>>) = {check, saved}
      BY <2>3, <2>5, CallsShort
    <3>3. TypeInv' /\ Others(t) /\ CallsOf(plan'[t]) = {check, saved}
      BY <2>3, <2>6, <2>7, <3>1, <3>2
    <3>4. \A j \in Now(t).ids : j \in check.ids \/ j \in saved.ids
      BY <2>3
    <3> QED
      BY <1>0, <1>4, <2>3, <3>3, <3>4
  <2>8. CASE Now(t).do = "start" /\ Proceed(t, <<check>>)
    <3>1. Fits(doing[t], check)
      BY <1>2, <2>1, <2>2, <2>3, <2>8 DEF Fits, Starting, Replacing, OnWorker, OnEngine, OnProcess
    <3>2. Paired(<<check>>) /\ <<check>> \in Seq(Call) /\ CallsOf(<<check>>) = {check}
      BY <2>3, CallsShort
    <3>3. TypeInv' /\ Others(t) /\ CallsOf(plan'[t]) = {check}
      BY <2>3, <2>6, <2>8, <3>1, <3>2
    <3> QED
      BY <1>0, <1>4, <2>3, <2>8, <3>3
  <2>9. CASE Now(t).do = "stop" /\ Proceed(t, <<find>>)
    <3>1. Fits(doing[t], find)
      BY <1>2, <2>1, <2>2, <2>3, <2>9 DEF Fits, Starting, Replacing, OnWorker, OnEngine, OnProcess
    <3>2. Paired(<<find>>) /\ <<find>> \in Seq(Call) /\ CallsOf(<<find>>) = {find}
      BY <2>3, CallsShort
    <3>3. TypeInv' /\ Others(t) /\ CallsOf(plan'[t]) = {find}
      BY <2>3, <2>6, <2>9, <3>1, <3>2
    <3> QED
      BY <1>0, <1>4, <2>3, <2>9, <3>3
  <2>10. CASE Now(t).do = "restart" /\ Proceed(t, <<find, check>>)
    <3>1. Fits(doing[t], find) /\ Fits(doing[t], check)
      BY <1>2, <2>1, <2>2, <2>3, <2>10 DEF Fits, Starting, Replacing, OnWorker, OnEngine, OnProcess
    <3>2. /\ Paired(<<find, check>>) /\ <<find, check>> \in Seq(Call)
          /\ CallsOf(<<find, check>>) = {find, check}
      BY <2>3, <2>5, CallsShort
    <3>3. TypeInv' /\ Others(t) /\ CallsOf(plan'[t]) = {find, check}
      BY <2>3, <2>6, <2>10, <3>1, <3>2
    <3> QED
      BY <1>0, <1>4, <2>3, <2>10, <3>3
  <2> QED
    BY <2>4, <2>7, <2>8, <2>9, <2>10
<1> QED
  BY <1>3, <1>4

(* A new EngineMain. *)
LEMMA CreateStep ==
    ASSUME TypeInv, NEW t \in Threads, Create(t)
    PROVE  /\ TypeInv' /\ Others(t) /\ Returned(t) /\ plan[t] # <<>>
           /\ Now(t).do \in {"create", "replace"}
           /\ engine' = engine \/ engine' = created + 1
           /\ engine' # NoEngine
           /\ Now(t).do = "create" /\ engine' # engine => engine = NoEngine
           /\ UNCHANGED <<rns, workers, process, doing, spent, raced, failed, before>>
<1>1. /\ plan[t] # <<>> /\ Now(t).do \in {"create", "replace"} /\ Proceed(t, <<>>)
      /\ UNCHANGED <<rns, workers, process, doing, spent, raced, failed, before>>
      /\ \/ engine # NoEngine /\ Now(t).do = "create" /\ UNCHANGED <<engine, created>>
         \/ /\ created < MaxEngines /\ created' = created + 1 /\ engine' = created + 1
            /\ Now(t).do = "create" => engine = NoEngine
  BY DEF Create, New, At, Now
<1>2. doing' = doing /\ Grows
  BY <1>1 DEF Grows
<1>3. plan' \in [Threads -> Seq(Call)] /\ Plans' /\ Others(t) /\ Returned(t)
  BY <1>1, <1>2, NothingCalled DEF Others, Returned
<1>4. /\ engine' \in {NoEngine} \cup Engines /\ created' \in 0 .. MaxEngines /\ engine' <= created'
      /\ engine' # NoEngine
  <2>1. engine \in {NoEngine} \cup Engines /\ created \in 0 .. MaxEngines /\ engine <= created
    BY DEF TypeInv, TypeOK
  <2> QED
    BY <1>1, <2>1, LifecycleAssumption DEF Engines, NoEngine
<1>5. TypeOK'
  BY <1>1, <1>3, <1>4 DEF TypeInv, TypeOK
<1> QED
  BY <1>1, <1>3, <1>4, <1>5 DEF TypeInv

(* The engine is given up. *)
LEMMA ClearStep ==
    ASSUME TypeInv, NEW t \in Threads, Clear(t)
    PROVE  /\ TypeInv' /\ Others(t) /\ Returned(t) /\ plan[t] # <<>>
           /\ Now(t).do = "clear" /\ engine' = NoEngine
           /\ UNCHANGED <<rns, workers, process, doing, spent, raced, failed, before>>
<1>1. /\ plan[t] # <<>> /\ Now(t).do = "clear" /\ Proceed(t, <<>>) /\ engine' = NoEngine
      /\ UNCHANGED <<created, rns, workers, process, doing, spent, raced, failed, before>>
  BY DEF Clear, At, Now
<1>2. doing' = doing /\ Grows
  BY <1>1 DEF Grows
<1>3. plan' \in [Threads -> Seq(Call)] /\ Plans' /\ Others(t) /\ Returned(t)
  BY <1>1, <1>2, NothingCalled DEF Others, Returned
<1>4. engine' <= created'
  BY <1>1 DEF TypeInv, TypeOK, NoEngine
<1>5. TypeOK'
  BY <1>1, <1>3, <1>4 DEF TypeInv, TypeOK
<1> QED
  BY <1>1, <1>3, <1>5 DEF TypeInv

(* Changing the table: what is entered is a process of that identity. *)
LEMMA TableType ==
    ASSUME TypeInv, NEW e \in Engines, NEW i \in Identities, NEW p,
           p = NoProcess \/ (p \in DOMAIN process /\ process[p].id = {i}),
           workers' = [workers EXCEPT ![e][i] = p], process' = process
    PROVE  /\ workers' \in [Engines -> [Identities -> {NoProcess} \cup DOMAIN process']]
           /\ \A f \in Engines, j \in Identities :
                  /\ workers'[f][j] = (IF f = e /\ j = i THEN p ELSE workers[f][j])
                  /\ workers'[f][j] # NoProcess => process'[workers'[f][j]].id = {j}
<1>1. workers \in [Engines -> [Identities -> {NoProcess} \cup DOMAIN process]]
      /\ \A f \in Engines, j \in Identities :
             workers[f][j] # NoProcess => process[workers[f][j]].id = {j}
  BY DEF TypeInv, TypeOK
<1>2. workers' \in [Engines -> [Identities -> {NoProcess} \cup DOMAIN process]]
  BY <1>1
<1>3. \A f \in Engines, j \in Identities :
          workers'[f][j] = (IF f = e /\ j = i THEN p ELSE workers[f][j])
  BY <1>1
<1> QED
  BY <1>1, <1>2, <1>3

(* An entry leaves the table of one engine's process manager. *)
LEMMA RemoveStep ==
    ASSUME TypeInv, NEW t \in Threads, RemoveEntry(t)
    PROVE  /\ TypeInv' /\ Others(t) /\ Returned(t) /\ plan[t] # <<>>
           /\ Now(t).do \in {"pop", "forget"}
           /\ \A f \in Engines, j \in Identities :
                  workers'[f][j] = (IF f = Now(t).e /\ {j} = Now(t).ids THEN NoProcess
                                    ELSE workers[f][j])
           /\ UNCHANGED <<engine, process, doing, raced, failed, before>>
<1>1. /\ plan[t] # <<>> /\ Now(t).do \in {"pop", "forget"} /\ Proceed(t, <<>>)
      /\ UNCHANGED <<engine, created, rns, process, doing, spent, raced, failed, before>>
      /\ workers' = [workers EXCEPT ![Now(t).e][IdOf(Now(t))] = NoProcess]
  BY DEF RemoveEntry, At, Now
<1>2. doing' = doing /\ Grows
  BY <1>1 DEF Grows
<1>3. plan' \in [Threads -> Seq(Call)] /\ Plans' /\ Others(t) /\ Returned(t)
  BY <1>1, <1>2, NothingCalled DEF Others, Returned
<1>4. Now(t).e \in Engines /\ IdOf(Now(t)) \in Identities /\ Now(t).ids = {IdOf(Now(t))}
  BY <1>1, HeadParts DEF OnEngine, OnWorker
<1>5. /\ workers' \in [Engines -> [Identities -> {NoProcess} \cup DOMAIN process']]
      /\ \A f \in Engines, j \in Identities :
             /\ workers'[f][j] = (IF f = Now(t).e /\ j = IdOf(Now(t)) THEN NoProcess
                                  ELSE workers[f][j])
             /\ workers'[f][j] # NoProcess => process'[workers'[f][j]].id = {j}
  BY <1>1, <1>4, TableType
<1>6. TypeOK'
  BY <1>1, <1>3, <1>5 DEF TypeInv, TypeOK
<1> QED
  BY <1>1, <1>3, <1>4, <1>5, <1>6 DEF TypeInv

(* An entry of the table is set, whether the call then returns or raises. *)
LEMMA RegisterStep ==
    ASSUME TypeInv, NEW t \in Threads, Register(t) \/ StatusFails(t)
    PROVE  /\ TypeInv' /\ Others(t) /\ plan[t] # <<>>
           /\ Returned(t) \/ plan'[t] = <<>>
           /\ Register(t) => Returned(t) /\ failed' = failed
           /\ StatusFails(t) => failed' = TRUE
           /\ Now(t).do = "register"
           /\ Now(t).p \in DOMAIN process /\ process[Now(t).p].id = Now(t).ids
           /\ \A f \in Engines, j \in Identities :
                  workers'[f][j] = (IF f = Now(t).e /\ {j} = Now(t).ids THEN Now(t).p
                                    ELSE workers[f][j])
           /\ UNCHANGED <<engine, process, doing, raced, before>>
<1>1. /\ plan[t] # <<>> /\ Now(t).do = "register"
      /\ UNCHANGED <<engine, created, rns, process, doing, raced, before>>
      /\ workers' = [workers EXCEPT ![Now(t).e][IdOf(Now(t))] = Now(t).p]
  BY DEF Register, StatusFails, Raise, Enter, At, Now
<1>2. doing' = doing /\ Grows
  BY <1>1 DEF Grows
<1>2a. /\ Register(t) => Proceed(t, <<>>) /\ UNCHANGED <<spent, failed>>
       /\ StatusFails(t) => /\ failed' = TRUE /\ (Proceed(t, <<>>) \/ Abort(t))
                            /\ spent.failures < MaxFailures
                            /\ spent' = [spent EXCEPT !.failures = @ + 1]
  BY DEF Register, StatusFails, Raise
<1>2b. ASSUME Proceed(t, <<>>)
       PROVE  plan' \in [Threads -> Seq(Call)] /\ Plans' /\ Others(t) /\ Returned(t)
  BY <1>1, <1>2, <1>2b, NothingCalled DEF Others, Returned
<1>2c. ASSUME Abort(t)
       PROVE  plan' \in [Threads -> Seq(Call)] /\ Plans' /\ Others(t) /\ plan'[t] = <<>>
  BY <1>2, <1>2c, AbortPlans, AbortMoves
<1>3. plan' \in [Threads -> Seq(Call)] /\ Plans' /\ Others(t)
      /\ (Returned(t) \/ plan'[t] = <<>>)
      /\ (Register(t) => Returned(t) /\ failed' = failed)
      /\ (StatusFails(t) => failed' = TRUE)
  BY <1>2a, <1>2b, <1>2c
<1>3a. spent' \in [ops : 0 .. MaxOps, failures : 0 .. MaxFailures] /\ failed' \in BOOLEAN
  BY <1>2a, FailureCounts DEF TypeInv, TypeOK
<1>4. /\ Now(t).e \in Engines /\ IdOf(Now(t)) \in Identities /\ Now(t).ids = {IdOf(Now(t))}
      /\ Now(t).p \in DOMAIN process /\ process[Now(t).p].id = Now(t).ids
  BY <1>1, HeadParts DEF OnEngine, OnWorker, OnProcess
<1>5. /\ workers' \in [Engines -> [Identities -> {NoProcess} \cup DOMAIN process']]
      /\ \A f \in Engines, j \in Identities :
             /\ workers'[f][j] = (IF f = Now(t).e /\ j = IdOf(Now(t)) THEN Now(t).p
                                  ELSE workers[f][j])
             /\ workers'[f][j] # NoProcess => process'[workers'[f][j]].id = {j}
  BY <1>1, <1>4, TableType
<1>6. TypeOK'
  BY <1>1, <1>3, <1>3a, <1>5 DEF TypeInv, TypeOK
<1> QED
  BY <1>1, <1>3, <1>4, <1>5, <1>6 DEF TypeInv

(* LxmfProcessManager.start looks at the entry. *)
LEMMA CheckStep ==
    ASSUME TypeInv, NEW t \in Threads, Check(t)
    PROVE  /\ TypeInv' /\ Quiet /\ UNCHANGED <<spent, failed>> /\ Others(t)
           /\ plan[t] # <<>> /\ Now(t).do = "check"
           /\ CallsOf(Tail(plan[t])) \subseteq CallsOf(plan'[t])
           /\ Alive(workers[Now(t).e][IdOf(Now(t))]) => Returned(t)
           /\ ~Alive(workers[Now(t).e][IdOf(Now(t))]) =>
                  /\ \A c \in CallsOf(plan'[t]) :
                         \/ c \in CallsOf(Tail(plan[t]))
                         \/ c.do \in {"pop", "spawn"} /\ c.e = Now(t).e /\ c.ids = Now(t).ids
                  /\ \E c \in CallsOf(plan'[t]) : c.do = "spawn" /\ c.ids = Now(t).ids
<1> DEFINE c == Now(t)
           existing == workers[Now(t).e][IdOf(Now(t))]
           pop == [c EXCEPT !.do = "pop"]
           spawn == [c EXCEPT !.do = "spawn"]
<1>0. /\ plan[t] # <<>> /\ c.do = "check" /\ Quiet /\ UNCHANGED <<spent, failed>>
      /\ Proceed(t, StartCalls(c, existing))
  BY DEF Check, At, Now, Quiet
<1>1. Fits(doing[t], c) /\ c \in Call
  BY <1>0, PlanParts
<1>2. /\ pop \in Call /\ pop.do = "pop" /\ pop.e = c.e /\ pop.ids = c.ids /\ pop.p = c.p
      /\ spawn \in Call /\ spawn.do = "spawn" /\ spawn.e = c.e /\ spawn.ids = c.ids
      /\ spawn.p = c.p /\ [spawn EXCEPT !.do = "pop"] = pop
  BY <1>1 DEF Call
<1>3. StartCalls(c, existing) = IF Alive(existing) THEN <<>>
                                ELSE IF existing = NoProcess THEN <<spawn>> ELSE <<pop, spawn>>
  BY DEF StartCalls, Alive
<1>4. Fits(doing[t], pop) /\ Fits(doing[t], spawn)
  BY <1>0, <1>1, <1>2 DEF Fits, Starting, Replacing, OnWorker, OnEngine, OnProcess
<1> HIDE DEF pop, spawn
<1>5. Follows(pop, spawn)
  BY <1>2 DEF Follows, Replacing, Starting
<1>6. CASE Alive(existing)
  <2>1. Proceed(t, <<>>)
    BY <1>0, <1>3, <1>6
  <2> QED
    BY <1>0, <1>6, <2>1, QuietReturns DEF Returned
<1>7. CASE ~Alive(existing)
  <2>1. PICK calls \in Seq(Call) :
            /\ Proceed(t, calls) /\ Paired(calls)
            /\ CallsOf(calls) \subseteq {pop, spawn} /\ spawn \in CallsOf(calls)
    <3>1. /\ <<spawn>> \in Seq(Call) /\ Paired(<<spawn>>) /\ CallsOf(<<spawn>>) = {spawn}
          /\ <<pop, spawn>> \in Seq(Call) /\ Paired(<<pop, spawn>>)
          /\ CallsOf(<<pop, spawn>>) = {pop, spawn}
      BY <1>2, <1>5, CallsShort
    <3>2. Proceed(t, <<spawn>>) \/ Proceed(t, <<pop, spawn>>)
      BY <1>0, <1>3, <1>7
    <3> QED
      BY <3>1, <3>2
  <2>2. /\ TypeInv' /\ Others(t)
        /\ CallsOf(plan'[t]) = CallsOf(calls) \cup CallsOf(Tail(plan[t]))
    BY <1>0, <1>2, <1>4, <2>1, QuietCalls DEF Replacing, Starting
  <2> QED
    BY <1>0, <1>2, <1>7, <2>1, <2>2
<1> QED
  BY <1>6, <1>7

(* LxmfProcessManager.stop looks at the entry. *)
LEMMA FindStep ==
    ASSUME TypeInv, NEW t \in Threads, Find(t)
    PROVE  /\ TypeInv' /\ Quiet /\ UNCHANGED <<spent, failed>> /\ Others(t)
           /\ plan[t] # <<>> /\ Now(t).do = "find"
           /\ Now(t).e \in Engines /\ IdOf(Now(t)) \in Identities /\ Now(t).ids = {IdOf(Now(t))}
           /\ CallsOf(Tail(plan[t])) \subseteq CallsOf(plan'[t])
           /\ LET p == workers[Now(t).e][IdOf(Now(t))] IN
                /\ \A c \in CallsOf(plan'[t]) :
                       \/ c \in CallsOf(Tail(plan[t]))
                       \/ /\ c.do \in {"ask", "await", "forget"} /\ c.e = Now(t).e
                          /\ c.ids = Now(t).ids /\ c.p = p
                          /\ c.do = "forget" /\ Alive(p) => Waiting(c) \in CallsOf(plan'[t])
                /\ Alive(p) => \E c \in CallsOf(plan'[t]) :
                       c.do = "await" /\ c.e = Now(t).e /\ c.ids = Now(t).ids
<1> DEFINE c == Now(t)
           i == IdOf(Now(t))
           p == workers[Now(t).e][IdOf(Now(t))]
           ask == With("ask", c.e, i, p)
           await == With("await", c.e, i, p)
           forget == With("forget", c.e, i, p)
<1>0. /\ plan[t] # <<>> /\ c.do = "find" /\ Quiet /\ UNCHANGED <<spent, failed>>
      /\ Proceed(t, IF p = NoProcess THEN <<>>
                    ELSE IF Alive(p) THEN <<ask, await, forget>> ELSE <<forget>>)
  BY DEF Find, At, Now, Quiet, StopCalls
<1>1. /\ Fits(doing[t], c) /\ c \in Call /\ c.e \in Engines /\ i \in Identities /\ c.ids = {i}
  BY <1>0, PlanParts, HeadParts DEF OnEngine, OnWorker
<1>2. p = NoProcess \/ (p \in DOMAIN process /\ process[p].id = {i})
  BY <1>1 DEF TypeInv, TypeOK
<1>3. CASE p = NoProcess
  <2>1. ~Alive(p) /\ Proceed(t, <<>>)
    BY <1>0, <1>3 DEF Alive
  <2> QED
    BY <1>0, <1>1, <2>1, QuietReturns DEF Returned
<1>4. CASE p # NoProcess
  <2>1. p \in Processes
    BY <1>2, <1>4, LifecycleAssumption DEF TypeInv, TypeOK, Processes
  <2>2. /\ ask \in Call /\ await \in Call /\ forget \in Call
        /\ ask.do = "ask" /\ ask.e = c.e /\ ask.ids = {i} /\ ask.p = p
        /\ await.do = "await" /\ await.e = c.e /\ await.ids = {i} /\ await.p = p
        /\ forget.do = "forget" /\ forget.e = c.e /\ forget.ids = {i} /\ forget.p = p
    BY <1>1, <2>1, CallsAreCalls, CallParts DEF Dos
  <2>3. Waiting(ask) = await /\ Waiting(forget) = await /\ [await EXCEPT !.do = "ask"] = ask
        /\ [forget EXCEPT !.do = "ask"] = ask
    <3>1. ask.safe = await.safe /\ forget.safe = await.safe
      BY DEF With, A
    <3> HIDE DEF ask, await, forget
    <3>2. \A x, y \in Call : x.e = y.e /\ x.ids = y.ids /\ x.p = y.p /\ x.safe = y.safe
                              => [x EXCEPT !.do = y.do] = y
      BY DEF Call
    <3>3. \A x \in {ask, await, forget} :
              x \in Call /\ x.e = c.e /\ x.ids = {i} /\ x.p = p /\ x.safe = await.safe
      BY <2>2, <3>1
    <3>4. ASSUME NEW x \in {ask, await, forget}, NEW y \in {ask, await, forget}
          PROVE  [x EXCEPT !.do = y.do] = y
      <4>1. /\ x \in Call /\ y \in Call /\ x.e = y.e /\ x.ids = y.ids /\ x.p = y.p
            /\ x.safe = y.safe
        BY <3>3
      <4> QED
        BY <3>2, <4>1
    <3>5. [ask EXCEPT !.do = "await"] = await /\ [forget EXCEPT !.do = "await"] = await
      BY <2>2, <3>4
    <3>6. [await EXCEPT !.do = "ask"] = ask /\ [forget EXCEPT !.do = "ask"] = ask
      BY <2>2, <3>4
    <3> QED
      BY <3>5, <3>6 DEF Waiting
  <2>4. \/ Proceed(t, <<ask, await, forget>>) /\ Alive(p)
        \/ Proceed(t, <<forget>>) /\ ~Alive(p)
    BY <1>0, <1>4
  <2> HIDE DEF ask, await, forget
  <2>5. Follows(ask, await) /\ Follows(ask, forget) /\ Follows(await, forget)
    BY <2>2, <2>3 DEF Follows, Replacing, Starting
  <2>6. Fits(doing[t], ask) /\ Fits(doing[t], await) /\ Fits(doing[t], forget)
    BY <1>0, <1>1, <1>2, <1>4, <2>2
       DEF Fits, Starting, Replacing, OnWorker, OnEngine, OnProcess
  <2>7. CASE Proceed(t, <<ask, await, forget>>) /\ Alive(p)
    <3>1. /\ <<ask, await, forget>> \in Seq(Call) /\ Paired(<<ask, await, forget>>)
          /\ CallsOf(<<ask, await, forget>>) = {ask, await, forget}
      BY <2>2, <2>5, CallsShort
    <3>1a. \A x \in {ask, await, forget} :
              /\ Fits(doing[t], x)
              /\ x.do \notin Replacing \cup Starting \cup {"saved", "start", "stop", "restart"}
              /\ x.do = "ask" => Waiting(x) \in {ask, await, forget}
      BY <2>2, <2>3, <2>6 DEF Replacing, Starting
    <3>2. /\ TypeInv' /\ Others(t)
          /\ CallsOf(plan'[t]) = {ask, await, forget} \cup CallsOf(Tail(plan[t]))
      BY <1>0, <2>7, <3>1, <3>1a, QuietCalls
    <3> QED
      BY <1>0, <1>1, <2>2, <2>3, <3>2
  <2>8. CASE Proceed(t, <<forget>>) /\ ~Alive(p)
    <3>1. /\ <<forget>> \in Seq(Call) /\ Paired(<<forget>>) /\ CallsOf(<<forget>>) = {forget}
      BY <2>2, CallsShort
    <3>2. /\ TypeInv' /\ Others(t)
          /\ CallsOf(plan'[t]) = {forget} \cup CallsOf(Tail(plan[t]))
      BY <1>0, <2>2, <2>6, <2>8, <3>1, QuietCalls DEF Replacing, Starting
    <3> QED
      BY <1>0, <1>1, <2>2, <2>8, <3>2
  <2> QED
    BY <2>4, <2>7, <2>8
<1> QED
  BY <1>3, <1>4

(* The processes: one more, or another state of one of them. *)
LEMMA ProcessSet ==
    ASSUME TypeInv, NEW p \in DOMAIN process,
           NEW at \in {"starting", "listens", "deaf", "asked", "exited"},
           process' = [process EXCEPT ![p].at = at]
    PROVE  /\ process' \in Seq([at : {"starting", "listens", "deaf", "asked", "exited"},
                                id : SUBSET Identities])
           /\ Len(process') = Len(process) /\ DOMAIN process' = DOMAIN process /\ Grows
           /\ process'[p].at = at
           /\ \A q \in DOMAIN process : process'[q].id = process[q].id
                                        /\ (q # p => process'[q].at = process[q].at)
<1> DEFINE R == [at : {"starting", "listens", "deaf", "asked", "exited"}, id : SUBSET Identities]
<1>1a. process \in Seq(R)
  BY DEF TypeInv, TypeOK
<1>1. process \in Seq(R) /\ p \in 1 .. Len(process) /\ process[p] \in R
  <2> HIDE DEF R
  <2> QED
    BY <1>1a
<1>2. process' = [process EXCEPT ![p] = [process[p] EXCEPT !.at = at]]
  OBVIOUS
<1>3. [process[p] EXCEPT !.at = at] \in R /\ [process[p] EXCEPT !.at = at].at = at
      /\ [process[p] EXCEPT !.at = at].id = process[p].id
  BY <1>1
<1> HIDE DEF R
<1>4. process' \in Seq(R) /\ Len(process') = Len(process) /\ DOMAIN process' = DOMAIN process
  BY <1>1, <1>2, <1>3
<1>5. process'[p] = [process[p] EXCEPT !.at = at]
      /\ \A q \in DOMAIN process : q # p => process'[q] = process[q]
  BY <1>1, <1>2
<1>6. /\ process'[p].at = at
      /\ \A q \in DOMAIN process : process'[q].id = process[q].id
                                   /\ (q # p => process'[q].at = process[q].at)
  BY <1>3, <1>5
<1> QED
  BY <1>4, <1>6 DEF R, Grows

(* Types after a step that changes a process and the plans. *)
LEMMA ProcessType ==
    ASSUME TypeInv, plan' \in [Threads -> Seq(Call)],
           process' \in Seq([at : {"starting", "listens", "deaf", "asked", "exited"},
                             id : SUBSET Identities]),
           Len(process') <= MaxProcesses, Grows,
           before' \in [Threads -> SUBSET Identities],
           UNCHANGED <<engine, created, rns, workers, doing, spent, raced, failed>>
    PROVE  TypeOK'
<1>1. workers \in [Engines -> [Identities -> {NoProcess} \cup DOMAIN process]]
      /\ \A e \in Engines, i \in Identities :
             workers[e][i] # NoProcess => process[workers[e][i]].id = {i}
  BY DEF TypeInv, TypeOK
<1>2. workers' \in [Engines -> [Identities -> {NoProcess} \cup DOMAIN process']]
  BY <1>1 DEF Grows
<1>3. \A e \in Engines, i \in Identities :
             workers'[e][i] # NoProcess => process'[workers'[e][i]].id = {i}
  <2> SUFFICES ASSUME NEW e \in Engines, NEW i \in Identities, workers[e][i] # NoProcess
               PROVE  process'[workers[e][i]].id = {i}
    OBVIOUS
  <2> QED
    BY <1>1 DEF Grows
<1> QED
  BY <1>2, <1>3 DEF TypeInv, TypeOK

(* A process is created; the call that registers it comes next. *)
LEMMA SpawnStep ==
    ASSUME TypeInv, NEW t \in Threads, Spawn(t)
    PROVE  /\ TypeInv' /\ Others(t) /\ plan[t] # <<>> /\ Now(t).do = "spawn"
           /\ Now(t).e \in Engines /\ IdOf(Now(t)) \in Identities /\ Now(t).ids = {IdOf(Now(t))}
           /\ UNCHANGED <<engine, workers, doing, raced, failed, before>>
           /\ DOMAIN process' = DOMAIN process \cup {Len(process) + 1}
           /\ Len(process) + 1 \notin DOMAIN process
           /\ \A q \in DOMAIN process : process'[q] = process[q]
           /\ process'[Len(process) + 1].id = Now(t).ids
           /\ process'[Len(process) + 1].at = "starting"
           /\ CallsOf(plan'[t]) = {Head(plan'[t])} \cup CallsOf(Tail(plan[t]))
           /\ plan'[t] # <<>> /\ Head(plan'[t]).do = "register"
           /\ Head(plan'[t]).p = Len(process) + 1
           /\ Head(plan'[t]).e = Now(t).e /\ Head(plan'[t]).ids = Now(t).ids
<1> DEFINE R == [at : {"starting", "listens", "deaf", "asked", "exited"}, id : SUBSET Identities]
           new == Len(process) + 1
           x == [at |-> "starting", id |-> Now(t).ids]
           rest == Tail(plan[t])
<1>0. /\ plan[t] # <<>> /\ Now(t).do = "spawn" /\ Len(process) < MaxProcesses
      /\ process' = Append(process, x)
      /\ Proceed(t, <<[Now(t) EXCEPT !.do = "register", !.p = Len(process')]>>)
      /\ UNCHANGED <<engine, created, rns, workers, doing, spent, raced, failed, before>>
  BY DEF Spawn, At, Now
<1>1. /\ Fits(doing[t], Now(t)) /\ Now(t).e \in Engines /\ IdOf(Now(t)) \in Identities
      /\ Now(t).ids = {IdOf(Now(t))} /\ rest \in Seq(Call)
  BY <1>0, PlanParts, HeadParts DEF OnEngine, OnWorker
<1>2. process \in Seq(R) /\ x \in R
  BY <1>1 DEF TypeInv, TypeOK
<1>2a. x.id = Now(t).ids /\ x.at = "starting"
  OBVIOUS
<1> HIDE DEF R, x
<1>3. /\ process' \in Seq(R) /\ Len(process') = new /\ new \in Nat
      /\ DOMAIN process = 1 .. Len(process) /\ DOMAIN process' = 1 .. new
      /\ process'[new] = x /\ \A q \in 1 .. Len(process) : process'[q] = process[q]
  BY <1>0, <1>2
<1>4. DOMAIN process' = DOMAIN process \cup {new} /\ new \notin DOMAIN process
  BY <1>2, <1>3
<1>5. Grows
  BY <1>3, <1>4 DEF Grows
<1>6. new \in Processes
  BY <1>0, <1>2, <1>3, LifecycleAssumption DEF Processes
<1>7. PICK c \in Call :
          /\ c.do = "register" /\ c.p = new /\ c.e = Now(t).e /\ c.ids = Now(t).ids
          /\ Proceed(t, <<c>>)
  <2> DEFINE call == [Now(t) EXCEPT !.do = "register", !.p = new]
  <2>0. Now(t) \in Call /\ new \in Processes \cup {NoProcess}
    BY <1>0, <1>6, PlanParts
  <2>1. /\ call \in Call /\ call.do = "register" /\ call.p = new /\ call.e = Now(t).e
        /\ call.ids = Now(t).ids
    BY <2>0 DEF Call
  <2>2. Proceed(t, <<call>>)
    BY <1>0, <1>3
  <2> HIDE DEF call
  <2> QED
    BY <2>1, <2>2
<1>7a. c.p \in DOMAIN process' /\ process'[c.p].id = c.ids
  BY <1>2a, <1>3, <1>4, <1>7
<1> HIDE DEF new
<1>8. <<c>> \in Seq(Call) /\ Paired(<<c>>) /\ CallsOf(<<c>>) = {c}
  BY <1>7, CallsShort
<1>9. Fits(doing[t], c)'
  BY <1>0, <1>1, <1>7, <1>7a
     DEF Fits, Starting, Replacing, OnWorker, OnEngine, OnProcess
<1>10. \A d \in CallsOf(rest) : Follows(c, d)
  BY <1>0, <1>7, PlanParts, FollowsPlain DEF Replacing, Starting
<1>11. plan' \in [Threads -> Seq(Call)] /\ Plans'
  BY <1>0, <1>5, <1>7, <1>8, <1>9, <1>10, ProceedPlans
<1>12. /\ Others(t) /\ CallsOf(plan'[t]) = {c} \cup CallsOf(rest) /\ plan'[t] = <<c>> \o rest
  BY <1>0, <1>7, <1>8, Proceeds DEF Others
<1>13. plan'[t] # <<>> /\ Head(plan'[t]) = c
  BY <1>1, <1>7, <1>12
<1>14. TypeOK'
  <2>1. before' \in [Threads -> SUBSET Identities]
    BY <1>0 DEF TypeInv, TypeOK
  <2>2. Len(process') <= MaxProcesses
    BY <1>0, <1>2, <1>3, LifecycleAssumption DEF new
  <2> QED
    BY <1>0, <1>3, <1>5, <1>11, <2>1, <2>2, ProcessType DEF R
<1> QED
  BY <1>0, <1>1, <1>2a, <1>3, <1>4, <1>7, <1>11, <1>12, <1>13, <1>14 DEF TypeInv, new

(* A worker that listens is asked to stop; the thread then waits for it. *)
LEMMA AskStep ==
    ASSUME TypeInv, NEW t \in Threads, Ask(t)
    PROVE  /\ TypeInv' /\ Others(t) /\ Returned(t) /\ plan[t] # <<>> /\ Now(t).do = "ask"
           /\ Waiting(Now(t)) \in CallsOf(Tail(plan[t]))
           /\ UNCHANGED <<engine, workers, doing, raced, failed, before>>
           /\ DOMAIN process' = DOMAIN process
           /\ \A q \in DOMAIN process :
                  /\ process'[q].id = process[q].id
                  /\ (process'[q].at = "exited") = (process[q].at = "exited")
                  /\ process'[q].at = "asked" => process[q].at = "asked" \/ q = Now(t).p
<1> DEFINE p == Now(t).p
<1>0. /\ plan[t] # <<>> /\ Now(t).do = "ask" /\ Proceed(t, <<>>)
      /\ process' = (IF process[p].at = "listens" THEN [process EXCEPT ![p].at = "asked"]
                     ELSE process)
      /\ UNCHANGED <<engine, created, rns, workers, doing, spent, raced, failed, before>>
  BY DEF Ask, At, Now
<1>1. p \in DOMAIN process
  BY <1>0, HeadParts DEF OnProcess
<1>2. Waiting(Now(t)) \in CallsOf(Tail(plan[t]))
  <2>1. /\ CallsOf(plan[t]) = {Now(t)} \cup CallsOf(Tail(plan[t])) /\ PlanOK(t)
        /\ Now(t) \in Call
    BY <1>0, PlanParts DEF TypeInv, Plans
  <2>2. Waiting(Now(t)) \in CallsOf(plan[t]) /\ Waiting(Now(t)).do = "await"
    BY <1>0, <2>1 DEF PlanOK, Waiting, Call
  <2> QED
    BY <1>0, <2>1, <2>2
<1>3. /\ process' \in Seq([at : {"starting", "listens", "deaf", "asked", "exited"},
                           id : SUBSET Identities])
      /\ Len(process') <= MaxProcesses /\ Grows /\ DOMAIN process' = DOMAIN process
      /\ \A q \in DOMAIN process :
             /\ process'[q].id = process[q].id
             /\ (process'[q].at = "exited") = (process[q].at = "exited")
             /\ process'[q].at = "asked" => process[q].at = "asked" \/ q = p
  <2>1. CASE process[p].at = "listens"
    <3>1. process' = [process EXCEPT ![p].at = "asked"]
      BY <1>0, <2>1
    <3>2. /\ process' \in Seq([at : {"starting", "listens", "deaf", "asked", "exited"},
                           id : SUBSET Identities])
          /\ Len(process') = Len(process) /\ DOMAIN process' = DOMAIN process /\ Grows
          /\ process'[p].at = "asked"
          /\ \A q \in DOMAIN process : process'[q].id = process[q].id
                                       /\ (q # p => process'[q].at = process[q].at)
      BY <1>1, <3>1, ProcessSet
    <3>3. Len(process) <= MaxProcesses
      BY DEF TypeInv, TypeOK
    <3> QED
      BY <2>1, <3>2, <3>3
  <2>2. CASE process[p].at # "listens"
    BY <1>0, <2>2 DEF TypeInv, TypeOK, Grows
  <2> QED
    BY <2>1, <2>2
<1>4. plan' \in [Threads -> Seq(Call)] /\ Plans' /\ Others(t) /\ Returned(t)
  BY <1>0, <1>3, NothingCalled DEF Others, Returned
<1>5. before' \in [Threads -> SUBSET Identities]
  BY <1>0 DEF TypeInv, TypeOK
<1>6. TypeOK'
  BY <1>0, <1>3, <1>4, <1>5, ProcessType
<1> QED
  BY <1>0, <1>2, <1>3, <1>4, <1>6 DEF TypeInv

(* The process the thread waited for has ended. *)
LEMMA AwaitStep ==
    ASSUME TypeInv, NEW t \in Threads, Await(t)
    PROVE  /\ TypeInv' /\ Others(t) /\ Returned(t) /\ plan[t] # <<>> /\ Now(t).do = "await"
           /\ Now(t).p \in DOMAIN process
           /\ UNCHANGED <<engine, workers, doing, raced, failed, before>>
           /\ DOMAIN process' = DOMAIN process
           /\ process'[Now(t).p].at = "exited"
           /\ \A q \in DOMAIN process :
                  /\ process'[q].id = process[q].id
                  /\ q # Now(t).p => process'[q].at = process[q].at
<1> DEFINE p == Now(t).p
<1>0. /\ plan[t] # <<>> /\ Now(t).do = "await" /\ Proceed(t, <<>>)
      /\ \/ ~Alive(p) /\ process' = process
         \/ process' = [process EXCEPT ![p].at = "exited"]
      /\ UNCHANGED <<engine, created, rns, workers, doing, spent, raced, failed, before>>
  BY DEF Await, At, Now
<1>1. p \in DOMAIN process
  BY <1>0, HeadParts DEF OnProcess
<1>2. /\ process' \in Seq([at : {"starting", "listens", "deaf", "asked", "exited"},
                           id : SUBSET Identities])
      /\ Len(process') <= MaxProcesses /\ Grows /\ DOMAIN process' = DOMAIN process
      /\ process'[p].at = "exited"
      /\ \A q \in DOMAIN process :
             /\ process'[q].id = process[q].id
             /\ q # p => process'[q].at = process[q].at
  <2>0. Len(process) <= MaxProcesses /\ NoProcess \notin DOMAIN process
    BY DEF TypeInv, TypeOK, NoProcess
  <2>1. CASE process' = [process EXCEPT ![p].at = "exited"]
    BY <1>1, <2>0, <2>1, ProcessSet
  <2>2. CASE ~Alive(p) /\ process' = process
    BY <1>1, <2>0, <2>2 DEF Alive, TypeInv, TypeOK, Grows
  <2> QED
    BY <1>0, <2>1, <2>2
<1>3. plan' \in [Threads -> Seq(Call)] /\ Plans' /\ Others(t) /\ Returned(t)
  BY <1>0, <1>2, NothingCalled DEF Others, Returned
<1>4. before' \in [Threads -> SUBSET Identities]
  BY <1>0 DEF TypeInv, TypeOK
<1>5. TypeOK'
  BY <1>0, <1>2, <1>3, <1>4, ProcessType
<1> QED
  BY <1>0, <1>1, <1>2, <1>3, <1>5 DEF TypeInv

(* A step of a worker process. *)
WorkerStep(p) == WorkerListens(p) \/ WorkerExit(p) \/ ControlEnds(p)

(* Worker processes only end, and change nothing but their own state. *)
LEMMA WorkerMoves ==
    ASSUME TypeInv, NEW p \in DOMAIN process, WorkerStep(p)
    PROVE  /\ TypeInv' /\ UNCHANGED <<engine, workers, plan, doing, raced, failed>>
           /\ DOMAIN process' = DOMAIN process
           /\ \A q \in DOMAIN process :
                  /\ process'[q].id = process[q].id
                  /\ process[q].at = "exited" => process'[q].at = "exited"
                  /\ q # p => process'[q].at = process[q].at
                  /\ process'[q].at = "asked" => process[q].at = "asked"
           /\ \/ Alive(p)' = Alive(p) /\ before' = before
              \/ process'[p].at = "exited" /\
                   before' = [t \in Threads |-> IF process[p].at = "asked" THEN before[t]
                                                ELSE before[t] \ process[p].id]
<1>1. PICK at \in {"listens", "deaf", "exited"} :
          /\ process' = [process EXCEPT ![p].at = at]
          /\ process[p].at # "exited"
          /\ \/ at # "exited" /\ before' = before
             \/ at = "exited" /\
                  before' = [t \in Threads |-> IF process[p].at = "asked" THEN before[t]
                                               ELSE before[t] \ process[p].id]
          /\ UNCHANGED <<engine, created, rns, workers, plan, doing, spent, raced, failed>>
  BY DEF WorkerStep, WorkerListens, WorkerExit, ControlEnds, Alive
<1>2. /\ process' \in Seq([at : {"starting", "listens", "deaf", "asked", "exited"},
                           id : SUBSET Identities])
      /\ Len(process') = Len(process) /\ DOMAIN process' = DOMAIN process /\ Grows
      /\ process'[p].at = at
      /\ \A q \in DOMAIN process : process'[q].id = process[q].id
                                   /\ (q # p => process'[q].at = process[q].at)
  BY <1>1, ProcessSet
<1>3. before' \in [Threads -> SUBSET Identities]
  BY <1>1 DEF TypeInv, TypeOK
<1>4. Len(process) <= MaxProcesses /\ NoProcess \notin DOMAIN process
      /\ plan \in [Threads -> Seq(Call)]
  BY DEF TypeInv, TypeOK, NoProcess
<1>5. TypeOK'
  BY <1>1, <1>2, <1>3, <1>4, ProcessType
<1>6. ASSUME NEW t \in Threads PROVE PlanOK(t)'
  <2>1. PlanOK(t) /\ plan' = plan /\ doing' = doing
    BY <1>1 DEF TypeInv, Plans
  <2>2. \A c \in CallsOf(plan[t]) : Fits(doing[t], c)'
    BY <1>2, <2>1, FitsStays DEF PlanOK
  <2> QED
    BY <2>1, <2>2 DEF PlanOK
<1> QED
  BY <1>1, <1>2, <1>4, <1>5, <1>6 DEF TypeInv, Plans, Alive
-----------------------------------------------------------------------------
(* Each step keeps types and plans. *)
LEMMA StepType == TypeInv /\ [Next]_vars => TypeInv'
<1> SUFFICES ASSUME TypeInv, [Next]_vars PROVE TypeInv'
  OBVIOUS
<1>1. CASE UNCHANGED vars
  BY <1>1 DEF vars, TypeInv, TypeOK, Plans, PlanOK, Fits, Alive
<1>2. ASSUME NEW t \in Threads, ThreadStep(t) PROVE TypeInv'
  BY <1>2, CreateStep, HaltStep, ClearStep, LaunchStep, RnsStepType, RnsFailsStep, EnabledStep,
     RememberStep, CallWorkerStep, CheckStep, RemoveStep, SpawnStep, StartFailsStep, RegisterStep,
     FindStep, AskStep, AwaitStep, FinishType DEF ThreadStep, EngineStep, ManagerStep
<1>3. ASSUME NEW t \in Threads, NEW r \in Requests, Begin(t, r) PROVE TypeInv'
  BY <1>3, BeginType
<1>4. ASSUME NEW p \in DOMAIN process, WorkerStep(p) PROVE TypeInv'
  BY <1>4, WorkerMoves
<1> QED
  BY <1>1, <1>2, <1>3, <1>4 DEF Next, WorkerStep

(* The supervisor's state, the tables, the processes and the plans of all threads
   (EngineSupervisor, EngineMain, LxmfProcessManager) are well formed. *)
THEOREM TypeCorrect == Spec => []TypeOK
<1>1. Spec => []TypeInv
  BY InitType, StepType, PTL DEF Spec
<1>2. TypeInv => TypeOK
  BY DEF TypeInv
<1> QED
  BY <1>1, <1>2, PTL

-----------------------------------------------------------------------------
(* No two requests that may start the same worker are served at once.      *)
Apart == \A t, u \in Threads :
    t # u /\ doing[t].op # "none" /\ doing[u].op # "none" /\ Overlap(doing[t], doing[u])
        => ~Starts(doing[t]) /\ ~Starts(doing[u])

(* What the calls still to be made rely on: that the engine is still there, *)
(* that the place of the worker is free, ... *)
Current(c) == c.do \in Needed => c.e = engine

Free(c) ==
    c.do \in {"pop", "spawn", "register"} =>
        \A p \in DOMAIN process :
            Alive(p) /\ process[p].id = c.ids => c.do = "register" /\ p = c.p

(* ... that the process found is the one in the table, and has ended when  *)
(* it is dropped, ...                                                      *)
Ends(t, c) ==
    c.do \in {"ask", "await", "forget"} =>
        \A i \in Identities : c.ids = {i} /\ Alive(workers[c.e][i]) =>
            /\ workers[c.e][i] = c.p
            /\ c.do = "forget" => Waiting(c) \in CallsOf(plan[t])

(* ... and that no worker is left when the engine is given up. *)
Has(t, dos) == \E c \in CallsOf(plan[t]) : c.do \in dos

Halted(t, c) ==
    c.do \in {"clear", "replace"} /\ engine # NoEngine /\ ~Has(t, {"halt"}) =>
        \A i \in Identities : Alive(workers[engine][i]) =>
            \E d \in CallsOf(plan[t]) :
                d.do \in {"find", "await"} /\ d.e = engine /\ d.ids = {i}

Relies(t) == \A c \in CallsOf(plan[t]) : Current(c) /\ Free(c) /\ Ends(t, c) /\ Halted(t, c)

AllKnown == \A p \in DOMAIN process : Alive(p) => Known(p)
OneEach == \A p, q \in DOMAIN process :
               Alive(p) /\ Alive(q) /\ process[p].id = process[q].id => p = q

Orderly == Apart /\ (\A t \in Threads : Relies(t)) /\ AllKnown /\ OneEach

(* Calls that two threads cannot have at the same time. *)
LEMMA Exclusive ==
    ASSUME TypeInv, Apart, NEW t \in Threads, NEW u \in Threads, t # u,
           NEW c \in CallsOf(plan[t]), NEW d \in CallsOf(plan[u]),
           c.do \in Starting \cup {"create", "replace", "launch", "restart"}
    PROVE  /\ d.do \notin Replacing \cup {"rnsStart", "rnsStop", "enabled", "saved"}
           /\ c.do \notin Replacing \cup {"rnsStart", "rnsStop", "enabled", "saved"}
           /\ c.do \in OnWorker /\ d.do \in OnWorker => c.ids # d.ids
<1>1. /\ Fits(doing[t], c) /\ Fits(doing[u], d)
      /\ doing[t].op # "none" /\ doing[u].op # "none"
  <2>1. PlanOK(t) /\ PlanOK(u)
    BY DEF TypeInv, Plans
  <2>2. plan[t] # <<>> /\ plan[u] # <<>>
    BY CallsShort
  <2> QED
    BY <2>1, <2>2 DEF PlanOK
<1>2. Starts(doing[t])
  BY <1>1 DEF Fits
<1>3. ~Overlap(doing[t], doing[u])
  BY <1>1, <1>2 DEF Apart
<1>4. doing[t].op \in WorkerOps /\ doing[u].op \in WorkerOps
      /\ doing[t].ids \cap doing[u].ids = {}
  BY <1>3 DEF Overlap
<1>5. c.ids = doing[t].ids /\ d.ids = doing[u].ids
  BY <1>1, <1>4 DEF Fits
<1>6. c.do \in OnWorker => c.ids # {}
  BY <1>1 DEF Fits
<1> QED
  BY <1>1, <1>4, <1>5, <1>6 DEF Fits

(* What a step of thread t does to the rest of the system. *)
Touches(t) ==
    /\ engine' = engine \/ Now(t).do \in {"create", "replace"}
                        \/ (Now(t).do = "clear" /\ engine' = NoEngine)
    /\ Grows
    /\ \A q \in DOMAIN process : Alive(q)' => Alive(q)
    /\ \A q \in DOMAIN process' \ DOMAIN process :
           Now(t).do = "spawn" /\ process'[q].id = Now(t).ids
    /\ \A e \in Engines, i \in Identities :
           Alive(workers[e][i])' =>
               \/ workers'[e][i] = workers[e][i] /\ Alive(workers[e][i])
               \/ Now(t).do = "register" /\ Now(t).ids = {i}

(* What another thread relies on survives a step of thread t. *)
LEMMA OthersRely ==
    ASSUME TypeInv, Apart, NEW t \in Threads, plan[t] # <<>>, Touches(t), Others(t),
           NEW u \in Threads, u # t, Relies(u)
    PROVE  Relies(u)'
<1>1. plan'[u] = plan[u] /\ Now(t) \in CallsOf(plan[t])
  BY PlanParts DEF Others
<1> SUFFICES ASSUME NEW d \in CallsOf(plan[u])
             PROVE  Current(d)' /\ Free(d)' /\ Ends(u, d)' /\ Halted(u, d)'
  BY <1>1 DEF Relies
<1>2. Current(d) /\ Free(d) /\ Ends(u, d) /\ Halted(u, d)
  BY DEF Relies
<1>3. /\ d.do \in OnWorker => d.ids # {} /\ \E i \in Identities : d.ids = {i}
      /\ d.do \in OnEngine => d.e \in Engines
  BY DEF TypeInv, Plans, PlanOK, Fits
<1>4. Current(d)'
  <2>1. CASE engine' = engine
    BY <1>2, <2>1 DEF Current
  <2>2. CASE Now(t).do \in Replacing
    <3>1. d.do \notin Needed
      BY <1>1, <2>2, Exclusive DEF Needed, Starting
    <3> QED
      BY <3>1 DEF Current
  <2> QED
    BY <2>1, <2>2 DEF Touches, Replacing
<1>5. Free(d)'
  <2> SUFFICES ASSUME d.do \in {"pop", "spawn", "register"}, NEW q \in DOMAIN process',
                      Alive(q)', process'[q].id = d.ids
               PROVE  d.do = "register" /\ q = d.p
    BY DEF Free
  <2>1. q \in DOMAIN process
    <3> SUFFICES ASSUME q \notin DOMAIN process PROVE FALSE
      OBVIOUS
    <3>1. Now(t).do = "spawn" /\ d.ids = Now(t).ids
      BY DEF Touches
    <3> QED
      BY <1>1, <3>1, Exclusive DEF Starting, OnWorker
  <2>2. Alive(q) /\ process[q].id = d.ids
    BY <2>1 DEF Touches, Grows
  <2> QED
    BY <1>2, <2>1, <2>2 DEF Free
<1>6. Ends(u, d)'
  <2> SUFFICES ASSUME d.do \in {"ask", "await", "forget"}, NEW i \in Identities, d.ids = {i},
                      Alive(workers[d.e][i])'
               PROVE  /\ workers'[d.e][i] = d.p
                      /\ d.do = "forget" => Waiting(d) \in CallsOf(plan[u])
    BY <1>1 DEF Ends
  <2>1. ~(Now(t).do = "register" /\ Now(t).ids = {i})
    BY <1>1, Exclusive DEF Starting, OnWorker
  <2>2. d.e \in Engines
    BY <1>3 DEF OnEngine
  <2> QED
    BY <1>2, <2>1, <2>2 DEF Touches, Ends
<1>7. Halted(u, d)'
  <2> SUFFICES ASSUME d.do \in {"clear", "replace"}, engine' # NoEngine, ~Has(u, {"halt"})',
                      NEW i \in Identities, Alive(workers[engine][i])'
               PROVE  \E c \in CallsOf(plan[u]) :
                          c.do \in {"find", "await"} /\ c.e = engine' /\ c.ids = {i}
    BY <1>1 DEF Halted
  <2>1. Now(t).do \notin {"create", "replace", "register"}
    BY <1>1, Exclusive DEF Starting, Replacing
  <2>2. engine' = engine /\ engine \in Engines
    BY <2>1 DEF Touches, TypeInv, TypeOK
  <2>3. Alive(workers[engine][i])
    BY <2>1, <2>2 DEF Touches
  <2>4. ~Has(u, {"halt"})
    BY <1>1 DEF Has
  <2> QED
    BY <1>2, <2>2, <2>3, <2>4 DEF Halted
<1> QED
  BY <1>4, <1>5, <1>6, <1>7

(* The calls of the thread itself that wait behind the one that was made. *)
LEMMA TailRely ==
    ASSUME TypeInv, NEW t \in Threads, plan[t] # <<>>, Touches(t), Relies(t),
           NEW d \in CallsOf(Tail(plan[t]))
    PROVE  Current(d)' /\ Free(d)'
<1>1. /\ Follows(Now(t), d) /\ d \in CallsOf(plan[t]) /\ d \in Call /\ Now(t) \in Call
  BY PlanParts
<1>2. Current(d) /\ Free(d)
  BY <1>1 DEF Relies
<1>3. Current(d)'
  <2>1. CASE engine' = engine
    BY <1>2, <2>1 DEF Current
  <2>2. CASE Now(t).do \in Replacing
    BY <1>1, <2>2 DEF Current, Follows, Needed, Replacing
  <2> QED
    BY <2>1, <2>2 DEF Touches, Replacing
<1>4. Free(d)'
  <2> SUFFICES ASSUME d.do \in {"pop", "spawn", "register"}, NEW q \in DOMAIN process',
                      Alive(q)', process'[q].id = d.ids
               PROVE  d.do = "register" /\ q = d.p
    BY DEF Free
  <2>1. q \in DOMAIN process
    <3> SUFFICES ASSUME q \notin DOMAIN process PROVE FALSE
      OBVIOUS
    <3>1. Now(t).do = "spawn"
      BY DEF Touches
    <3> QED
      BY <1>1, <3>1, FollowsFacts DEF Follows
  <2>2. Alive(q) /\ process[q].id = d.ids
    BY <2>1 DEF Touches, Grows
  <2> QED
    BY <1>2, <2>1, <2>2 DEF Free
<1> QED
  BY <1>3, <1>4

(* The thread's own calls of a stop still name the process of the table. *)
LEMMA TailEnds ==
    ASSUME TypeInv, NEW t \in Threads, plan[t] # <<>>, Touches(t), Relies(t),
           NEW d \in CallsOf(Tail(plan[t])), Now(t).do # "await",
           CallsOf(Tail(plan[t])) \subseteq CallsOf(plan'[t])
    PROVE  Ends(t, d)'
<1>1. /\ Follows(Now(t), d) /\ d \in CallsOf(plan[t]) /\ d \in Call /\ Now(t) \in Call
      /\ CallsOf(plan[t]) = {Now(t)} \cup CallsOf(Tail(plan[t]))
      /\ Fits(doing[t], d)
  BY PlanParts
<1>2. Ends(t, d)
  BY <1>1 DEF Relies
<1> SUFFICES ASSUME d.do \in {"ask", "await", "forget"}, NEW i \in Identities, d.ids = {i},
                    Alive(workers[d.e][i])'
             PROVE  /\ workers'[d.e][i] = d.p
                    /\ d.do = "forget" => Waiting(d) \in CallsOf(plan'[t])
  BY DEF Ends
<1>3. Now(t).do = "ask"
  BY <1>1, FollowsFacts DEF Follows
<1>4. d.e \in Engines
  BY <1>1 DEF Fits, OnEngine
<1>5. workers'[d.e][i] = workers[d.e][i] /\ Alive(workers[d.e][i])
  BY <1>3, <1>4 DEF Touches
<1>6. /\ workers[d.e][i] = d.p
      /\ d.do = "forget" => Waiting(d) \in CallsOf(plan[t])
  BY <1>2, <1>5 DEF Ends
<1>7. Waiting(d).do = "await"
  BY <1>1 DEF Waiting, Call
<1> QED
  BY <1>1, <1>3, <1>5, <1>6, <1>7

(* The engine is still given up only after its workers were stopped. *)
LEMMA TailHalted ==
    ASSUME TypeInv, NEW t \in Threads, plan[t] # <<>>, Touches(t), Relies(t),
           NEW d \in CallsOf(Tail(plan[t])),
           Now(t).do \notin {"halt", "find", "await"},
           CallsOf(Tail(plan[t])) \subseteq CallsOf(plan'[t])
    PROVE  Halted(t, d)'
<1>1. /\ Follows(Now(t), d) /\ d \in CallsOf(plan[t])
      /\ CallsOf(plan[t]) = {Now(t)} \cup CallsOf(Tail(plan[t]))
  BY PlanParts
<1>2. Halted(t, d)
  BY <1>1 DEF Relies
<1> SUFFICES ASSUME d.do \in {"clear", "replace"}, engine' # NoEngine, ~Has(t, {"halt"})',
                    NEW i \in Identities, Alive(workers[engine][i])'
             PROVE  \E c \in CallsOf(plan'[t]) :
                        c.do \in {"find", "await"} /\ c.e = engine' /\ c.ids = {i}
  BY DEF Halted
<1>3. Now(t).do \notin {"clear", "replace", "create", "register"}
  BY <1>1 DEF Follows, Starting
<1>4. engine' = engine /\ engine \in Engines
  BY <1>3 DEF Touches, TypeInv, TypeOK
<1>5. Alive(workers[engine][i])
  BY <1>3, <1>4 DEF Touches
<1>6. ~Has(t, {"halt"})
  BY <1>1 DEF Has
<1>7. PICK c \in CallsOf(plan[t]) : c.do \in {"find", "await"} /\ c.e = engine /\ c.ids = {i}
  BY <1>2, <1>4, <1>5, <1>6 DEF Halted
<1> QED
  BY <1>1, <1>4, <1>7

(* A step that changes neither engine, table nor processes. *)
Still == UNCHANGED <<engine, workers, process, doing>>

(* A step that touches nothing. *)
LEMMA StillTouches ==
    ASSUME Still, NEW t
    PROVE  Touches(t)
  BY DEF Still, Touches, Grows, Alive

(* Such a step keeps order if the thread itself can still rely on what it needs. *)
LEMMA StillOrderly ==
    ASSUME TypeInv, Orderly, NEW t \in Threads, plan[t] # <<>>, Still, Others(t),
           Now(t).do # "register", Relies(t)'
    PROVE  Orderly'
<1>1. Apart' /\ OneEach'
  BY DEF Orderly, Still, Apart, OneEach, Alive
<1>2. \A u \in Threads : Relies(u)'
  BY StillTouches, OthersRely DEF Orderly
<1>3. ASSUME NEW p \in DOMAIN process, Alive(p) PROVE Known(p)'
  <2>1. Known(p)
    BY <1>3 DEF Orderly, AllKnown
  <2>2. ASSUME NEW u \in Threads, At(u, "register"), Now(u).p = p
        PROVE  At(u, "register")' /\ Now(u)'.p = p
    BY <2>2 DEF At, Now, Others
  <2> QED
    BY <2>1, <2>2 DEF Known, Still
<1>4. AllKnown'
  BY <1>3 DEF AllKnown, Still, Alive
<1> QED
  BY <1>1, <1>2, <1>4 DEF Orderly

(* Without calls there is nothing to rely on. *)
LEMMA NoCalls ==
    ASSUME NEW t, plan'[t] = <<>>
    PROVE  Relies(t)'
  BY CallsShort DEF Relies

(* The call returned, and what waits behind it can still rely on the rest. *)
LEMMA ReturnedRely ==
    ASSUME TypeInv, NEW t \in Threads, plan[t] # <<>>, Touches(t), Relies(t),
           Returned(t), Now(t).do \notin {"halt", "find", "await"}
    PROVE  Relies(t)'
<1>1. CallsOf(Tail(plan[t])) \subseteq CallsOf(plan'[t])
  BY DEF Returned
<1>2. \A d \in CallsOf(Tail(plan[t])) : Current(d)' /\ Free(d)' /\ Ends(t, d)' /\ Halted(t, d)'
  BY <1>1, TailRely, TailEnds, TailHalted
<1> QED
  BY <1>2 DEF Relies, Returned

(* engine.stop lists every worker of the table before the engine is given up. *)
LEMMA HaltOrderly ==
    ASSUME TypeInv, Orderly, NEW t \in Threads, Halt(t)
    PROVE  Orderly'
<1>1. plan[t] # <<>> /\ Now(t).do = "halt" /\ Relies(t)
  BY DEF Halt, At, Now, Orderly
<1>2. Still /\ Others(t)
  BY HaltStep DEF Quiet, Still, Others
<1>3. Touches(t)
  BY <1>2, StillTouches
<1>4. CASE engine # NoEngine
  <2> DEFINE finds == {On("find", engine, i) : i \in Entries(engine)}
  <2>1. CallsOf(plan'[t]) = finds \cup {[A("rnsStop") EXCEPT !.e = engine]}
                                  \cup CallsOf(Tail(plan[t]))
    BY <1>4, HaltStep
  <2>2. [A("rnsStop") EXCEPT !.e = engine].do = "rnsStop"
    BY DEF A
  <2>3. \A c \in finds : c.do = "find"
    BY CallParts
  <2>4. \A c \in finds \cup {[A("rnsStop") EXCEPT !.e = engine]} :
            Current(c)' /\ Free(c)' /\ Ends(t, c)' /\ Halted(t, c)'
    BY <2>2, <2>3 DEF Current, Free, Ends, Halted, Needed
  <2>5. ASSUME NEW d \in CallsOf(Tail(plan[t])) PROVE Ends(t, d)'
    BY <1>1, <1>3, <2>1, TailEnds
  <2>6. ASSUME NEW d \in CallsOf(Tail(plan[t])) PROVE Halted(t, d)'
    <3> SUFFICES ASSUME NEW i \in Identities, Alive(workers[engine][i])
                 PROVE  \E c \in CallsOf(plan'[t]) :
                            c.do \in {"find", "await"} /\ c.e = engine /\ c.ids = {i}
      BY <1>2 DEF Halted, Still, Alive
    <3>1. On("find", engine, i) \in finds
      BY DEF Entries, Alive
    <3> QED
      BY <2>1, <3>1, CallParts
  <2> HIDE DEF finds
  <2>7. Relies(t)'
    BY <1>1, <1>3, <2>1, <2>4, <2>5, <2>6, TailRely DEF Relies
  <2> QED
    BY <1>1, <1>2, <2>7, StillOrderly
<1>5. CASE engine = NoEngine
  <2>1. \A c \in CallsOf(plan'[t]) : c.do \in {"create", "launch", "saved"}
    BY <1>5, HaltStep, CallsShort
  <2>2. Relies(t)'
    BY <2>1 DEF Relies, Current, Free, Ends, Halted, Needed
  <2> QED
    BY <1>1, <1>2, <2>2, StillOrderly
<1> QED
  BY <1>4, <1>5

(* The calls of a start are made on the engine there is. *)
LEMMA LaunchOrderly ==
    ASSUME TypeInv, Orderly, NEW t \in Threads, Launch(t)
    PROVE  Orderly'
<1>1. plan[t] # <<>> /\ Now(t).do = "launch" /\ Relies(t)
  BY DEF Launch, At, Now, Orderly
<1>2. Still /\ Others(t)
  BY LaunchStep DEF Quiet, Still
<1>3. Touches(t)
  BY <1>2, StillTouches
<1>4. CASE engine # NoEngine
  <2>1. CallsOf(Tail(plan[t])) \subseteq CallsOf(plan'[t])
    BY <1>4, LaunchStep
  <2>2. \A d \in CallsOf(Tail(plan[t])) : Current(d)' /\ Free(d)' /\ Ends(t, d)' /\ Halted(t, d)'
    BY <1>1, <1>3, <2>1, TailRely, TailEnds, TailHalted
  <2>3. \A c : c.do \in {"rnsStart", "enabled"} /\ c.e = engine
               => Current(c)' /\ Free(c)' /\ Ends(t, c)' /\ Halted(t, c)'
    BY <1>2 DEF Current, Free, Ends, Halted, Still
  <2>4. \A c \in CallsOf(plan'[t]) : c \in CallsOf(Tail(plan[t]))
                                     \/ (c.do \in {"rnsStart", "enabled"} /\ c.e = engine)
    BY <1>4, LaunchStep
  <2>5. Relies(t)'
    BY <2>2, <2>3, <2>4 DEF Relies
  <2> QED
    BY <1>1, <1>2, <2>5, StillOrderly
<1>5. CASE engine = NoEngine
  BY <1>1, <1>2, <1>5, LaunchStep, NoCalls, StillOrderly
<1> QED
  BY <1>4, <1>5

(* RNS starts, stops or fails; a worker cannot be started. *)
LEMMA RnsOrderly ==
    ASSUME TypeInv, Orderly, NEW t \in Threads, RnsStep(t) \/ RnsStartFails(t) \/ StartFails(t)
    PROVE  Orderly'
<1>1. /\ plan[t] # <<>> /\ Now(t).do \in {"rnsStart", "rnsStop", "check", "spawn"} /\ Relies(t)
      /\ Still /\ Others(t) /\ (Returned(t) \/ plan'[t] = <<>>)
  BY RnsStepType, RnsFailsStep, StartFailsStep DEF Orderly, Quiet, Still
<1>2. Relies(t)'
  BY <1>1, StillTouches, ReturnedRely, NoCalls
<1> QED
  BY <1>1, <1>2, StillOrderly

(* The enabled workers are looked up in the engine there is. *)
LEMMA EnabledOrderly ==
    ASSUME TypeInv, Orderly, NEW t \in Threads, StartEnabled(t)
    PROVE  Orderly'
<1>1. /\ plan[t] # <<>> /\ Now(t).do = "enabled" /\ Relies(t) /\ Others(t) /\ Still
      /\ CallsOf(Tail(plan[t])) \subseteq CallsOf(plan'[t])
      /\ \A c \in CallsOf(plan'[t]) :
             c \in CallsOf(Tail(plan[t])) \/ (c.do = "check" /\ c.e = Now(t).e)
  BY EnabledStep DEF Orderly, Quiet, Still
<1>2. Touches(t)
  BY <1>1, StillTouches
<1>3. Now(t).e = engine
  BY <1>1, PlanParts DEF Relies, Current, Needed
<1>4. \A d \in CallsOf(Tail(plan[t])) : Current(d)' /\ Free(d)' /\ Ends(t, d)' /\ Halted(t, d)'
  BY <1>1, <1>2, TailRely, TailEnds, TailHalted
<1>5. \A c : c.do = "check" /\ c.e = engine
             => Current(c)' /\ Free(c)' /\ Ends(t, c)' /\ Halted(t, c)'
  BY <1>1 DEF Current, Free, Ends, Halted, Still
<1>6. Relies(t)'
  BY <1>1, <1>3, <1>4, <1>5 DEF Relies
<1> QED
  BY <1>1, <1>6, StillOrderly

(* running_lxmf_identity_ids only reads. *)
LEMMA RememberOrderly ==
    ASSUME TypeInv, Orderly, NEW t \in Threads, Remember(t)
    PROVE  Orderly'
<1>1. /\ plan[t] # <<>> /\ Now(t).do = "remember" /\ Still /\ Others(t)
  BY RememberStep DEF Remember, At, Quiet, Still
<1>2. CASE engine = NoEngine
  BY <1>1, <1>2, RememberStep, NoCalls, StillOrderly
<1>3. CASE engine # NoEngine
  <2> DEFINE saved == [A("saved") EXCEPT !.ids = {i \in Identities : Alive(workers[engine][i])}]
  <2>1. CallsOf(plan'[t]) = {A("halt"), A("replace"), A("launch"), saved}
    BY <1>3, RememberStep
  <2>2. /\ saved.do = "saved" /\ A("halt").do = "halt" /\ A("replace").do = "replace"
        /\ A("launch").do = "launch"
    BY DEF A
  <2> HIDE DEF saved
  <2>3. Has(t, {"halt"})' /\ \A c \in CallsOf(plan'[t]) :
                                c.do \in {"halt", "replace", "launch", "saved"}
    BY <2>1, <2>2 DEF Has
  <2>4. Relies(t)'
    BY <2>3 DEF Relies, Current, Free, Ends, Halted, Needed
  <2> QED
    BY <1>1, <2>4, StillOrderly
<1> QED
  BY <1>2, <1>3

(* The calls for one identity read the engine anew. *)
LEMMA CallWorkerOrderly ==
    ASSUME TypeInv, Orderly, NEW t \in Threads, CallWorker(t)
    PROVE  Orderly'
<1>1. /\ plan[t] # <<>> /\ Now(t).do \in {"saved", "start", "stop", "restart"}
      /\ Still /\ Others(t)
      /\ \A c \in CallsOf(plan'[t]) :
             (c.do \in {"find", "check"} /\ c.e = engine) \/ c.do = "saved"
  BY CallWorkerStep DEF Quiet, Still
<1>2. Relies(t)'
  BY <1>1 DEF Relies, Current, Free, Ends, Halted, Needed, Still
<1> QED
  BY <1>1, <1>2, StillOrderly

(* start goes on to create a process only where no worker of the identity runs. *)
LEMMA CheckOrderly ==
    ASSUME TypeInv, Orderly, NEW t \in Threads, Check(t)
    PROVE  Orderly'
<1> DEFINE i == IdOf(Now(t))
           e == Now(t).e
<1>1. /\ plan[t] # <<>> /\ Now(t).do = "check" /\ Relies(t) /\ Others(t) /\ Still
      /\ CallsOf(Tail(plan[t])) \subseteq CallsOf(plan'[t])
  BY CheckStep DEF Orderly, Quiet, Still
<1>2. Touches(t)
  BY <1>1, StillTouches
<1>3. e = engine /\ e \in Engines /\ i \in Identities /\ Now(t).ids = {i}
      /\ Now(t) \in CallsOf(plan[t])
  BY <1>1, PlanParts, HeadParts DEF Relies, Current, Needed, OnEngine, OnWorker
<1>4. \A d \in CallsOf(Tail(plan[t])) : Current(d)' /\ Free(d)' /\ Ends(t, d)' /\ Halted(t, d)'
  BY <1>1, <1>2, TailRely, TailEnds, TailHalted
<1>5. CASE Alive(workers[e][i])
  <2>1. Returned(t)
    BY <1>5, CheckStep
  <2>2. Relies(t)'
    BY <1>4, <2>1 DEF Relies, Returned
  <2> QED
    BY <1>1, <2>2, StillOrderly
<1>6. CASE ~Alive(workers[e][i])
  <2>1. ASSUME NEW p \in DOMAIN process, Alive(p), process[p].id = {i} PROVE FALSE
    <3>1. Known(p)
      BY <2>1 DEF Orderly, AllKnown
    <3>2. ASSUME NEW j \in Identities, workers[engine][j] = p PROVE FALSE
      <4>1. process[p].id = {j}
        BY <1>3, <2>1, <3>2 DEF TypeInv, TypeOK, Alive
      <4> QED
        BY <1>3, <1>6, <2>1, <3>2, <4>1
    <3>3. ASSUME NEW u \in Threads, At(u, "register"), Now(u).p = p PROVE FALSE
      <4>1. u # t /\ plan[u] # <<>> /\ Now(u).do = "register"
        BY <1>1, <3>3 DEF At, Now
      <4>2. Now(u).ids = {i} /\ Now(u) \in CallsOf(plan[u])
        BY <2>1, <3>3, <4>1, HeadParts, PlanParts DEF OnProcess
      <4> QED
        BY <1>1, <1>3, <4>1, <4>2, Exclusive DEF Orderly, Starting, OnWorker
    <3> QED
      BY <3>1, <3>2, <3>3 DEF Known
  <2>2. ASSUME NEW c, c.do \in {"pop", "spawn"}, c.e = e, c.ids = {i}
        PROVE  Current(c)' /\ Free(c)' /\ Ends(t, c)' /\ Halted(t, c)'
    BY <1>1, <1>3, <2>1, <2>2 DEF Current, Free, Ends, Halted, Still, Alive
  <2>3. \A c \in CallsOf(plan'[t]) : \/ c \in CallsOf(Tail(plan[t]))
                                     \/ c.do \in {"pop", "spawn"} /\ c.e = e /\ c.ids = {i}
    BY <1>3, <1>6, CheckStep
  <2>4. Relies(t)'
    BY <1>4, <2>2, <2>3 DEF Relies
  <2> QED
    BY <1>1, <2>4, StillOrderly
<1> QED
  BY <1>5, <1>6

(* stop takes the process from the table, and waits for it before it drops the entry. *)
LEMMA FindOrderly ==
    ASSUME TypeInv, Orderly, NEW t \in Threads, Find(t)
    PROVE  Orderly'
<1> DEFINE i == IdOf(Now(t))
           e == Now(t).e
           p == workers[e][i]
<1>1. /\ plan[t] # <<>> /\ Now(t).do = "find" /\ Relies(t) /\ Others(t) /\ Still
      /\ CallsOf(Tail(plan[t])) \subseteq CallsOf(plan'[t])
      /\ e \in Engines /\ i \in Identities /\ Now(t).ids = {i}
  BY FindStep DEF Orderly, Quiet, Still
<1>2. /\ \A c \in CallsOf(plan'[t]) :
             \/ c \in CallsOf(Tail(plan[t]))
             \/ /\ c.do \in {"ask", "await", "forget"} /\ c.e = e /\ c.ids = {i} /\ c.p = p
                /\ c.do = "forget" /\ Alive(p) => Waiting(c) \in CallsOf(plan'[t])
      /\ Alive(p) => \E c \in CallsOf(plan'[t]) : c.do = "await" /\ c.e = e /\ c.ids = {i}
  BY <1>1, FindStep
<1>3. Touches(t)
  BY <1>1, StillTouches
<1>4. \A d \in CallsOf(Tail(plan[t])) : Current(d)' /\ Free(d)' /\ Ends(t, d)'
  BY <1>1, <1>3, TailRely, TailEnds
<1>5. ASSUME NEW d \in CallsOf(Tail(plan[t])) PROVE Halted(t, d)'
  <2>1. d \in CallsOf(plan[t]) /\ CallsOf(plan[t]) = {Now(t)} \cup CallsOf(Tail(plan[t]))
    BY <1>1, PlanParts
  <2>2. Halted(t, d)
    BY <2>1 DEF Orderly, Relies
  <2> SUFFICES ASSUME d.do \in {"clear", "replace"}, engine # NoEngine, ~Has(t, {"halt"})',
                      NEW j \in Identities, Alive(workers[engine][j])
               PROVE  \E c \in CallsOf(plan'[t]) :
                          c.do \in {"find", "await"} /\ c.e = engine /\ c.ids = {j}
    BY <1>1 DEF Halted, Still, Alive
  <2>3. ~Has(t, {"halt"})
    BY <1>1, <2>1 DEF Has
  <2>4. PICK c \in CallsOf(plan[t]) : c.do \in {"find", "await"} /\ c.e = engine /\ c.ids = {j}
    BY <2>2, <2>3 DEF Halted
  <2>5. CASE c = Now(t)
    <3>1. e = engine /\ i = j
      BY <1>1, <2>4, <2>5
    <3> QED
      BY <1>2, <3>1
  <2>6. CASE c # Now(t)
    BY <1>1, <2>1, <2>4, <2>6
  <2> QED
    BY <2>5, <2>6
<1>6. ASSUME NEW c \in CallsOf(plan'[t]), c.do \in {"ask", "await", "forget"}, c.e = e,
             c.ids = {i}, c.p = p,
             c.do = "forget" /\ Alive(p) => Waiting(c) \in CallsOf(plan'[t])
      PROVE  Current(c)' /\ Free(c)' /\ Ends(t, c)' /\ Halted(t, c)'
  <2>1. Current(c)' /\ Free(c)' /\ Halted(t, c)'
    BY <1>6 DEF Current, Free, Halted, Needed
  <2>2. Ends(t, c)'
    <3> SUFFICES ASSUME NEW j \in Identities, {i} = {j}, Alive(workers[e][j])
                 PROVE  /\ workers[e][j] = c.p
                        /\ c.do = "forget" => Waiting(c) \in CallsOf(plan'[t])
      BY <1>1, <1>6 DEF Ends, Still, Alive
    <3>1. i = j
      OBVIOUS
    <3> QED
      BY <1>6, <3>1
  <2> QED
    BY <2>1, <2>2
<1>7. Relies(t)'
  BY <1>2, <1>4, <1>5, <1>6 DEF Relies
<1> QED
  BY <1>1, <1>7, StillOrderly

(* No worker runs when the engine is given up or replaced, or created. *)
LEMMA NoneAlive ==
    ASSUME TypeInv, Orderly, NEW t \in Threads, plan[t] # <<>>,
           Now(t).do \in {"clear", "replace"} \/ (Now(t).do = "create" /\ engine = NoEngine)
    PROVE  \A p \in DOMAIN process : ~Alive(p)
<1> SUFFICES ASSUME NEW p \in DOMAIN process, Alive(p) PROVE FALSE
  OBVIOUS
<1>1. Known(p)
  BY DEF Orderly, AllKnown
<1>2. /\ Now(t) \in CallsOf(plan[t]) /\ \A d \in CallsOf(Tail(plan[t])) : Follows(Now(t), d)
      /\ CallsOf(plan[t]) = {Now(t)} \cup CallsOf(Tail(plan[t]))
  BY PlanParts
<1>3. ASSUME NEW u \in Threads, At(u, "register"), Now(u).p = p PROVE FALSE
  <2>1. u # t /\ plan[u] # <<>> /\ Now(u).do = "register"
    BY <1>3 DEF At, Now
  <2>2. Now(u) \in CallsOf(plan[u])
    BY <2>1, PlanParts
  <2> QED
    BY <1>2, <2>1, <2>2, Exclusive DEF Orderly, Starting, Replacing
<1>4. ASSUME engine # NoEngine, NEW i \in Identities, workers[engine][i] = p PROVE FALSE
  <2>1. \A d \in CallsOf(plan[t]) : d.do \notin {"halt", "find", "await"}
    BY <1>2, <1>4 DEF Follows
  <2>2. Halted(t, Now(t)) /\ ~Has(t, {"halt"})
    BY <1>2, <2>1 DEF Orderly, Relies, Has
  <2> QED
    BY <1>4, <2>1, <2>2 DEF Halted
<1> QED
  BY <1>1, <1>3, <1>4 DEF Known

(* No two processes of an identity, when processes and their states stay. *)
LEMMA SameOne ==
    ASSUME OneEach, Grows, \A q \in DOMAIN process' : Alive(q)' => q \in DOMAIN process /\ Alive(q)
    PROVE  OneEach'
  BY DEF OneEach, Grows

(* Requests stay apart when none begins or ends. *)
LEMMA SameApart ==
    ASSUME Apart, doing' = doing
    PROVE  Apart'
  BY DEF Apart

(* A new engine replaces one whose workers have all been stopped. *)
LEMMA CreateOrderly ==
    ASSUME TypeInv, Orderly, NEW t \in Threads, Create(t)
    PROVE  Orderly'
<1>1. /\ plan[t] # <<>> /\ Now(t).do \in {"create", "replace"} /\ Others(t) /\ Returned(t)
      /\ workers' = workers /\ process' = process /\ doing' = doing
      /\ Now(t).do = "create" /\ engine' # engine => engine = NoEngine
  BY CreateStep
<1>2. Touches(t)
  BY <1>1 DEF Touches, Grows, Alive
<1>3. \A u \in Threads : Relies(u)'
  BY <1>1, <1>2, OthersRely, ReturnedRely DEF Orderly
<1>4. CASE engine' = engine
  BY <1>1, <1>3, <1>4, StillOrderly DEF Still
<1>5. CASE engine' # engine
  <2>1. \A p \in DOMAIN process : ~Alive(p)
    BY <1>1, <1>5, NoneAlive
  <2> QED
    BY <1>1, <1>3, <2>1, SameApart DEF Orderly, AllKnown, OneEach, Alive
<1> QED
  BY <1>4, <1>5

(* An engine is given up when its workers have all been stopped. *)
LEMMA ClearOrderly ==
    ASSUME TypeInv, Orderly, NEW t \in Threads, Clear(t)
    PROVE  Orderly'
<1>1. /\ plan[t] # <<>> /\ Now(t).do = "clear" /\ Others(t) /\ Returned(t) /\ engine' = NoEngine
      /\ workers' = workers /\ process' = process /\ doing' = doing
  BY ClearStep
<1>2. Touches(t)
  BY <1>1 DEF Touches, Grows, Alive
<1>3. \A u \in Threads : Relies(u)'
  BY <1>1, <1>2, OthersRely, ReturnedRely DEF Orderly
<1>4. \A p \in DOMAIN process : ~Alive(p)
  BY <1>1, NoneAlive
<1> QED
  BY <1>1, <1>3, <1>4, SameApart DEF Orderly, AllKnown, OneEach, Alive

(* A process stays known when no step of another thread drops it. *)
LEMMA StaysKnown ==
    ASSUME NEW p, Known(p), NEW t \in Threads, Others(t), engine' = engine,
           Now(t).do # "register",
           \A i \in Identities : workers[engine][i] = p => workers'[engine][i] = p
    PROVE  Known(p)'
<1>1. ASSUME NEW u \in Threads, At(u, "register"), Now(u).p = p
      PROVE  At(u, "register")' /\ Now(u)'.p = p
  BY <1>1 DEF At, Now, Others
<1> QED
  BY <1>1 DEF Known

(* An entry is dropped only when its process has ended. *)
LEMMA RemoveOrderly ==
    ASSUME TypeInv, Orderly, NEW t \in Threads, RemoveEntry(t)
    PROVE  Orderly'
<1>1. /\ plan[t] # <<>> /\ Now(t).do \in {"pop", "forget"} /\ Others(t) /\ Returned(t)
      /\ engine' = engine /\ process' = process /\ doing' = doing
      /\ \A f \in Engines, j \in Identities :
             workers'[f][j] = (IF f = Now(t).e /\ {j} = Now(t).ids THEN NoProcess
                               ELSE workers[f][j])
  BY RemoveStep
<1>2. Touches(t)
  BY <1>1 DEF Touches, Grows, Alive
<1>3. \A u \in Threads : Relies(u)'
  BY <1>1, <1>2, OthersRely, ReturnedRely DEF Orderly
<1>4. /\ Now(t) \in CallsOf(plan[t]) /\ \A d \in CallsOf(Tail(plan[t])) : Follows(Now(t), d)
      /\ CallsOf(plan[t]) = {Now(t)} \cup CallsOf(Tail(plan[t]))
      /\ Now(t) \in Call /\ CallsOf(Tail(plan[t])) \subseteq Call
  BY <1>1, PlanParts
<1>5. Free(Now(t)) /\ Ends(t, Now(t))
  BY <1>4 DEF Orderly, Relies
<1>6. ASSUME NEW p \in DOMAIN process, Alive(p) PROVE Known(p)'
  <2>1. Known(p)
    BY <1>6 DEF Orderly, AllKnown
  <2>2. CASE engine = NoEngine
    <3>1. PICK u \in Threads : At(u, "register") /\ Now(u).p = p
      BY <2>1, <2>2 DEF Known
    <3>2. At(u, "register")' /\ Now(u)'.p = p
      BY <1>1, <3>1 DEF At, Now, Others
    <3> QED
      BY <3>2 DEF Known
  <2>3. CASE engine # NoEngine
    <3>1. engine \in Engines
      BY <2>3 DEF TypeInv, TypeOK
    <3>2. ASSUME NEW i \in Identities, workers[engine][i] = p, engine = Now(t).e, {i} = Now(t).ids
          PROVE  FALSE
      <4>1. process[p].id = {i}
        BY <1>6, <3>1, <3>2 DEF TypeInv, TypeOK, Alive
      <4>2. CASE Now(t).do = "pop"
        BY <1>5, <1>6, <3>2, <4>1, <4>2 DEF Free
      <4>3. CASE Now(t).do = "forget"
        <5>1. Waiting(Now(t)) \in CallsOf(plan[t])
          BY <1>5, <1>6, <3>2, <4>3 DEF Ends
        <5>2. Waiting(Now(t)).do = "await"
          BY <1>4 DEF Waiting, Call
        <5>3. Waiting(Now(t)) \in CallsOf(Tail(plan[t]))
          BY <1>4, <4>3, <5>1, <5>2
        <5> QED
          BY <1>4, <4>3, <5>2, <5>3, FollowsFacts
      <4> QED
        BY <1>1, <4>2, <4>3
    <3>3. \A i \in Identities : workers[engine][i] = p => workers'[engine][i] = p
      BY <1>1, <3>1, <3>2
    <3> QED
      BY <1>1, <2>1, <3>3, StaysKnown
  <2> QED
    BY <2>2, <2>3
<1>7. AllKnown'
  BY <1>1, <1>6 DEF AllKnown, Alive
<1>8. OneEach'
  BY <1>1 DEF Orderly, OneEach, Alive
<1> QED
  BY <1>1, <1>3, <1>7, <1>8, SameApart DEF Orderly

(* The process just created is entered where no running one is. *)
LEMMA RegisterOrderly ==
    ASSUME TypeInv, Orderly, NEW t \in Threads, Register(t) \/ StatusFails(t)
    PROVE  Orderly'
<1>1. /\ plan[t] # <<>> /\ Now(t).do = "register" /\ Others(t)
      /\ (Returned(t) \/ plan'[t] = <<>>)
      /\ engine' = engine /\ process' = process /\ doing' = doing
      /\ Now(t).p \in DOMAIN process /\ process[Now(t).p].id = Now(t).ids
      /\ \A f \in Engines, j \in Identities :
             workers'[f][j] = (IF f = Now(t).e /\ {j} = Now(t).ids THEN Now(t).p
                               ELSE workers[f][j])
  BY RegisterStep
<1>2. Touches(t)
  BY <1>1 DEF Touches, Grows, Alive
<1>3. \A u \in Threads : Relies(u)'
  BY <1>1, <1>2, OthersRely, ReturnedRely, NoCalls DEF Orderly
<1>4. Now(t) \in CallsOf(plan[t])
  BY <1>1, PlanParts
<1>5. Free(Now(t)) /\ Now(t).e = engine
  BY <1>1, <1>4 DEF Orderly, Relies, Current, Needed
<1>6. Now(t).e \in Engines /\ IdOf(Now(t)) \in Identities /\ Now(t).ids = {IdOf(Now(t))}
  BY <1>1, HeadParts DEF OnEngine, OnWorker
<1>7. engine # NoEngine
  BY <1>5, <1>6 DEF Engines, NoEngine
<1>8. ASSUME NEW p \in DOMAIN process, Alive(p) PROVE Known(p)'
  <2>1. CASE p = Now(t).p
    <3>1. workers'[engine][IdOf(Now(t))] = p
      BY <1>1, <1>5, <1>6, <2>1
    <3> QED
      BY <1>1, <1>6, <1>7, <3>1 DEF Known
  <2>2. CASE p # Now(t).p
    <3>1. Known(p)
      BY <1>8 DEF Orderly, AllKnown
    <3>2. ASSUME NEW u \in Threads, At(u, "register"), Now(u).p = p PROVE Known(p)'
      <4>1. At(u, "register")' /\ Now(u)'.p = p
        BY <1>1, <2>2, <3>2 DEF At, Now, Others
      <4> QED
        BY <4>1 DEF Known
    <3>3. ASSUME NEW i \in Identities, workers[engine][i] = p PROVE Known(p)'
      <4>1. process[p].id = {i}
        BY <1>5, <1>6, <1>8, <3>3 DEF TypeInv, TypeOK, Alive
      <4>2. {i} # Now(t).ids
        BY <1>1, <1>5, <1>8, <2>2, <4>1 DEF Free
      <4>3. workers'[engine][i] = p
        BY <1>1, <1>5, <1>6, <3>3, <4>2
      <4> QED
        BY <1>1, <1>7, <4>3 DEF Known
    <3> QED
      BY <3>1, <3>2, <3>3 DEF Known
  <2> QED
    BY <2>1, <2>2
<1>9. AllKnown'
  BY <1>1, <1>8 DEF AllKnown, Alive
<1>10. OneEach'
  BY <1>1 DEF Orderly, OneEach, Alive
<1> QED
  BY <1>1, <1>3, <1>9, <1>10, SameApart DEF Orderly

(* The new process is the only one of its identity. *)
LEMMA SpawnOrderly ==
    ASSUME TypeInv, Orderly, NEW t \in Threads, Spawn(t)
    PROVE  Orderly'
<1> DEFINE new == Len(process) + 1
<1>1. /\ plan[t] # <<>> /\ Now(t).do = "spawn" /\ Others(t)
      /\ engine' = engine /\ workers' = workers /\ doing' = doing
      /\ DOMAIN process' = DOMAIN process \cup {new} /\ new \notin DOMAIN process
      /\ \A q \in DOMAIN process : process'[q] = process[q]
      /\ process'[new].id = Now(t).ids
      /\ CallsOf(plan'[t]) = {Head(plan'[t])} \cup CallsOf(Tail(plan[t]))
      /\ plan'[t] # <<>> /\ Head(plan'[t]).do = "register"
      /\ Head(plan'[t]).p = new
      /\ Head(plan'[t]).e = Now(t).e /\ Head(plan'[t]).ids = Now(t).ids
  BY SpawnStep
<1> HIDE DEF new
<1>2. \A q \in DOMAIN process : Alive(q)' = Alive(q)
  BY <1>1 DEF Alive
<1>3. \A e \in Engines, i \in Identities : workers[e][i] = NoProcess
                                            \/ workers[e][i] \in DOMAIN process
  BY DEF TypeInv, TypeOK
<1>4. Touches(t)
  <2>1. \A e \in Engines, i \in Identities :
           Alive(workers[e][i])' => workers'[e][i] = workers[e][i] /\ Alive(workers[e][i])
    BY <1>1, <1>3 DEF Alive
  <2> QED
    BY <1>1, <1>2, <2>1 DEF Touches, Grows
<1>5. Now(t) \in CallsOf(plan[t])
  BY <1>1, PlanParts
<1>6. Free(Now(t)) /\ Now(t).e = engine
  BY <1>1, <1>5 DEF Orderly, Relies, Current, Needed
<1>7. \A q \in DOMAIN process : Alive(q) => process[q].id # Now(t).ids
  BY <1>1, <1>6 DEF Free
<1>8. ASSUME NEW c, c.do = "register", c.p = new, c.e = engine, c.ids = Now(t).ids
      PROVE  Current(c)' /\ Free(c)' /\ Ends(t, c)' /\ Halted(t, c)'
  BY <1>1, <1>2, <1>7, <1>8 DEF Current, Free, Ends, Halted
<1>9. \A d \in CallsOf(Tail(plan[t])) : Current(d)' /\ Free(d)' /\ Ends(t, d)' /\ Halted(t, d)'
  BY <1>1, <1>4, TailRely, TailEnds, TailHalted DEF Orderly
<1>10. Relies(t)'
  BY <1>1, <1>6, <1>8, <1>9 DEF Relies
<1>11. \A u \in Threads : Relies(u)'
  BY <1>1, <1>4, <1>10, OthersRely DEF Orderly
<1>12. ASSUME NEW p \in DOMAIN process', Alive(p)' PROVE Known(p)'
  <2>1. CASE p = new
    <3>1. At(t, "register")' /\ Now(t)'.p = p
      BY <1>1, <2>1 DEF At, Now
    <3> QED
      BY <3>1 DEF Known
  <2>2. CASE p \in DOMAIN process
    <3>1. Known(p)
      BY <1>2, <1>12, <2>2 DEF Orderly, AllKnown
    <3> QED
      BY <1>1, <3>1, StaysKnown
  <2> QED
    BY <1>1, <2>1, <2>2
<1>13. OneEach'
  <2> SUFFICES ASSUME NEW p \in DOMAIN process', NEW q \in DOMAIN process', Alive(p)', Alive(q)',
                      process'[p].id = process'[q].id
               PROVE  p = q
    BY DEF OneEach
  <2>1. CASE p \in DOMAIN process /\ q \in DOMAIN process
    BY <1>1, <1>2, <2>1 DEF Orderly, OneEach
  <2>2. CASE p = new /\ q \in DOMAIN process
    BY <1>1, <1>2, <1>7, <2>2
  <2>3. CASE p \in DOMAIN process /\ q = new
    BY <1>1, <1>2, <1>7, <2>3
  <2> QED
    BY <1>1, <2>1, <2>2, <2>3
<1> QED
  BY <1>1, <1>11, <1>12, <1>13, SameApart DEF Orderly, AllKnown

(* Steps that end processes, or ask them to end. *)
LEMMA FewerKnown ==
    ASSUME Orderly, NEW t \in Threads, Others(t), engine' = engine, workers' = workers,
           Now(t).do # "register", DOMAIN process' = DOMAIN process,
           \A q \in DOMAIN process : process'[q].id = process[q].id /\ (Alive(q)' => Alive(q))
    PROVE  AllKnown' /\ OneEach'
<1>1. ASSUME NEW p \in DOMAIN process, Alive(p) PROVE Known(p)'
  BY <1>1, StaysKnown DEF Orderly, AllKnown
<1> QED
  BY <1>1 DEF Orderly, AllKnown, OneEach

(* A step that only ends processes. *)
LEMMA FewerTouches ==
    ASSUME TypeInv, NEW t, engine' = engine, workers' = workers, DOMAIN process' = DOMAIN process,
           \A q \in DOMAIN process : process'[q].id = process[q].id /\ (Alive(q)' => Alive(q))
    PROVE  Touches(t)
<1>1. \A e \in Engines, i \in Identities : workers[e][i] = NoProcess
                                            \/ workers[e][i] \in DOMAIN process
  BY DEF TypeInv, TypeOK
<1>2. \A e \in Engines, i \in Identities :
           Alive(workers[e][i])' => workers'[e][i] = workers[e][i] /\ Alive(workers[e][i])
  BY <1>1 DEF Alive
<1> QED
  BY <1>2 DEF Touches, Grows

(* Asking a worker to stop ends nothing yet. *)
LEMMA AskOrderly ==
    ASSUME TypeInv, Orderly, NEW t \in Threads, Ask(t)
    PROVE  Orderly'
<1>1. /\ plan[t] # <<>> /\ Now(t).do = "ask" /\ Others(t) /\ Returned(t)
      /\ engine' = engine /\ workers' = workers /\ doing' = doing
      /\ DOMAIN process' = DOMAIN process
      /\ \A q \in DOMAIN process :
             /\ process'[q].id = process[q].id
             /\ (process'[q].at = "exited") = (process[q].at = "exited")
  BY AskStep
<1>2. \A q \in DOMAIN process : Alive(q)' => Alive(q)
  BY <1>1 DEF Alive
<1>3. Touches(t)
  BY <1>1, <1>2, FewerTouches
<1>4. \A u \in Threads : Relies(u)'
  BY <1>1, <1>3, OthersRely, ReturnedRely DEF Orderly
<1>5. AllKnown' /\ OneEach'
  BY <1>1, <1>2, FewerKnown
<1> QED
  BY <1>1, <1>4, <1>5, SameApart DEF Orderly

(* After the wait the entry may be dropped, and the engine be given up. *)
LEMMA AwaitOrderly ==
    ASSUME TypeInv, Orderly, NEW t \in Threads, Await(t)
    PROVE  Orderly'
<1>1. /\ plan[t] # <<>> /\ Now(t).do = "await" /\ Others(t) /\ Returned(t)
      /\ engine' = engine /\ workers' = workers /\ doing' = doing
      /\ Now(t).p \in DOMAIN process
      /\ DOMAIN process' = DOMAIN process /\ process'[Now(t).p].at = "exited"
      /\ \A q \in DOMAIN process :
             /\ process'[q].id = process[q].id
             /\ q # Now(t).p => process'[q].at = process[q].at
  BY AwaitStep
<1>2. \A q \in DOMAIN process : Alive(q)' => Alive(q)
  BY <1>1 DEF Alive
<1>3. Touches(t)
  BY <1>1, <1>2, FewerTouches
<1>4. /\ Now(t) \in CallsOf(plan[t]) /\ \A d \in CallsOf(Tail(plan[t])) : Follows(Now(t), d)
      /\ CallsOf(plan[t]) = {Now(t)} \cup CallsOf(Tail(plan[t]))
      /\ Now(t) \in Call /\ CallsOf(Tail(plan[t])) \subseteq Call
      /\ \A d \in CallsOf(Tail(plan[t])) : Fits(doing[t], d)
  BY <1>1, PlanParts
<1>5. ASSUME NEW e \in Engines, NEW i \in Identities, Alive(workers[e][i])'
      PROVE  Alive(workers[e][i]) /\ workers[e][i] # Now(t).p
  <2>1. workers[e][i] \in DOMAIN process
    BY <1>1, <1>5 DEF TypeInv, TypeOK, Alive
  <2> QED
    BY <1>1, <1>5, <2>1 DEF Alive
<1>6. ASSUME NEW d \in CallsOf(Tail(plan[t])) PROVE Ends(t, d)'
  <2> SUFFICES ASSUME d.do \in {"ask", "await", "forget"}, NEW i \in Identities, d.ids = {i},
                      Alive(workers[d.e][i])'
               PROVE  FALSE
    BY DEF Ends
  <2>1. d.do = "forget" /\ Now(t) = Waiting(d) /\ d \in Call
    BY <1>1, <1>4, FollowsFacts DEF Follows
  <2>2. Now(t).p = d.p
    BY <2>1 DEF Waiting, Call
  <2>3. d.e \in Engines
    BY <1>4 DEF Fits, OnEngine
  <2>4. workers[d.e][i] = d.p
    BY <1>4, <1>5, <2>3 DEF Orderly, Relies, Ends
  <2> QED
    BY <1>5, <2>2, <2>3, <2>4
<1>7. ASSUME NEW d \in CallsOf(Tail(plan[t])) PROVE Halted(t, d)'
  <2> SUFFICES ASSUME d.do \in {"clear", "replace"}, engine # NoEngine, ~Has(t, {"halt"})',
                      NEW j \in Identities, Alive(workers[engine][j])'
               PROVE  \E c \in CallsOf(plan'[t]) :
                          c.do \in {"find", "await"} /\ c.e = engine /\ c.ids = {j}
    BY <1>1 DEF Halted
  <2>1. engine \in Engines
    BY DEF TypeInv, TypeOK
  <2>2. ~Has(t, {"halt"})
    BY <1>1, <1>4 DEF Has, Returned
  <2>3. Halted(t, d) /\ Ends(t, Now(t))
    BY <1>4 DEF Orderly, Relies
  <2>4. Alive(workers[engine][j]) /\ workers[engine][j] # Now(t).p
    BY <1>1, <1>5, <2>1
  <2>5. PICK c \in CallsOf(plan[t]) : c.do \in {"find", "await"} /\ c.e = engine /\ c.ids = {j}
    BY <2>2, <2>3, <2>4 DEF Halted
  <2>6. c # Now(t)
    BY <1>1, <2>3, <2>4, <2>5 DEF Ends
  <2> QED
    BY <1>1, <1>4, <2>5, <2>6 DEF Returned
<1>8. Relies(t)'
  BY <1>1, <1>3, <1>6, <1>7, TailRely DEF Orderly, Relies, Returned
<1>9. \A u \in Threads : Relies(u)'
  BY <1>1, <1>3, <1>8, OthersRely DEF Orderly
<1>10. AllKnown' /\ OneEach'
  BY <1>1, <1>2, FewerKnown
<1> QED
  BY <1>1, <1>9, <1>10, SameApart DEF Orderly

(* Workers that end by themselves disturb nobody. *)
LEMMA WorkerOrderly ==
    ASSUME TypeInv, Orderly, NEW p \in DOMAIN process, WorkerStep(p)
    PROVE  Orderly'
<1>1. /\ UNCHANGED <<engine, workers, plan, doing>>
      /\ DOMAIN process' = DOMAIN process
      /\ \A q \in DOMAIN process :
             /\ process'[q].id = process[q].id
             /\ process[q].at = "exited" => process'[q].at = "exited"
  BY WorkerMoves
<1>2. \A q \in DOMAIN process : Alive(q)' => Alive(q)
  BY <1>1 DEF Alive
<1>3. \A e \in Engines, i \in Identities : workers[e][i] = NoProcess
                                            \/ workers[e][i] \in DOMAIN process
  BY DEF TypeInv, TypeOK
<1>4. \A e \in Engines, i \in Identities :
          Alive(workers[e][i])' => workers'[e][i] = workers[e][i] /\ Alive(workers[e][i])
  BY <1>1, <1>2, <1>3 DEF Alive
<1>5. ASSUME NEW u \in Threads PROVE Relies(u)'
  <2> SUFFICES ASSUME NEW c \in CallsOf(plan[u])
               PROVE  Current(c)' /\ Free(c)' /\ Ends(u, c)' /\ Halted(u, c)'
    BY <1>1 DEF Relies
  <2>1. Current(c) /\ Free(c) /\ Ends(u, c) /\ Halted(u, c) /\ Fits(doing[u], c)
    BY DEF Orderly, Relies, TypeInv, Plans, PlanOK
  <2>2. Current(c)' /\ Free(c)'
    BY <1>1, <1>2, <2>1 DEF Current, Free
  <2>3. Ends(u, c)'
    BY <1>1, <1>4, <2>1 DEF Ends, Fits, OnEngine
  <2>4. Halted(u, c)'
    <3> SUFFICES ASSUME c.do \in {"clear", "replace"}, engine # NoEngine, ~Has(u, {"halt"})',
                        NEW i \in Identities, Alive(workers[engine][i])'
                 PROVE  \E d \in CallsOf(plan[u]) :
                            d.do \in {"find", "await"} /\ d.e = engine /\ d.ids = {i}
      BY <1>1 DEF Halted
    <3>1. engine \in Engines /\ ~Has(u, {"halt"})
      BY <1>1 DEF TypeInv, TypeOK, Has
    <3>2. Alive(workers[engine][i])
      BY <1>1, <1>4, <3>1
    <3> QED
      BY <2>1, <3>1, <3>2 DEF Halted
  <2> QED
    BY <2>2, <2>3, <2>4
<1>6. AllKnown'
  BY <1>1, <1>2 DEF Orderly, AllKnown, Known, At, Now
<1>7. OneEach'
  BY <1>1, <1>2 DEF Orderly, OneEach
<1> QED
  BY <1>1, <1>5, <1>6, <1>7, SameApart DEF Orderly

(* The other threads go on as before when one begins or ends a request. *)
LEMMA PlanChanged ==
    ASSUME Orderly, NEW t \in Threads, plan[t] = <<>>,
           UNCHANGED <<engine, workers, process>>,
           \A u \in Threads \ {t} : plan'[u] = plan[u], Relies(t)', Apart'
    PROVE  Orderly'
<1>1. ASSUME NEW u \in Threads, u # t PROVE Relies(u)'
  <2>1. plan'[u] = plan[u]
    BY <1>1
  <2> SUFFICES ASSUME NEW c \in CallsOf(plan[u])
               PROVE  Current(c)' /\ Free(c)' /\ Ends(u, c)' /\ Halted(u, c)'
    BY <2>1 DEF Relies
  <2>2. Current(c) /\ Free(c) /\ Ends(u, c) /\ Halted(u, c)
    BY DEF Orderly, Relies
  <2>3. Current(c)' /\ Free(c)'
    BY <2>2 DEF Current, Free, Alive
  <2>4. Ends(u, c)'
    BY <2>1, <2>2 DEF Ends, Alive
  <2>5. Halted(u, c)'
    BY <2>1, <2>2 DEF Halted, Has, Alive
  <2> QED
    BY <2>3, <2>4, <2>5
<1>2. OneEach'
  BY DEF Orderly, OneEach, Alive
<1>3. ASSUME NEW p \in DOMAIN process, Alive(p) PROVE Known(p)'
  <2>1. Known(p)
    BY <1>3 DEF Orderly, AllKnown
  <2>2. ASSUME NEW u \in Threads, At(u, "register"), Now(u).p = p
        PROVE  At(u, "register")' /\ Now(u)'.p = p
    <3>1. plan'[u] = plan[u]
      BY <2>2 DEF At
    <3> QED
      BY <2>2, <3>1 DEF At, Now
  <2> QED
    BY <2>1, <2>2 DEF Known
<1>4. AllKnown'
  BY <1>3 DEF AllKnown, Alive
<1> QED
  BY <1>1, <1>2, <1>4 DEF Orderly

(* A request that overlaps none of those that start workers finds everything in order. *)
LEMMA BeginOrderly ==
    ASSUME TypeInv, Orderly, NEW t \in Threads, NEW r \in Requests, Begin(t, r), ~raced'
    PROVE  Orderly'
<1>1. /\ doing[t].op = "none" /\ UNCHANGED <<engine, workers, process>>
      /\ plan'[t] = Program(r) /\ doing'[t] = r
      /\ \A u \in Threads \ {t} : plan'[u] = plan[u] /\ doing'[u] = doing[u]
      /\ \A u \in Threads : doing[u].op # "none" /\ Overlap(doing[u], r)
                              => ~Starts(doing[u]) /\ ~Starts(r)
  BY DEF TypeInv, TypeOK, Begin
<1>2. plan[t] = <<>>
  BY <1>1 DEF TypeInv, Plans, PlanOK
<1>3. Relies(t)'
  <2> SUFFICES ASSUME NEW c \in CallsOf(Program(r))
               PROVE  Current(c)' /\ Free(c)' /\ Ends(t, c)' /\ Halted(t, c)'
    BY <1>1 DEF Relies
  <2>1. /\ c.do \notin OnProcess \cup Needed
        /\ c.do \in {"clear", "replace"} => \E d \in CallsOf(Program(r)) : d.do = "halt"
    BY ProgramShape
  <2>2. Current(c)' /\ Free(c)' /\ Ends(t, c)'
    BY <2>1 DEF Current, Free, Ends, OnProcess, Needed
  <2>3. Halted(t, c)'
    BY <1>1, <2>1 DEF Halted, Has
  <2> QED
    BY <2>2, <2>3
<1>4. Apart'
  <2> SUFFICES ASSUME NEW u \in Threads, NEW v \in Threads, u # v,
                      doing'[u].op # "none", doing'[v].op # "none",
                      Overlap(doing'[u], doing'[v])
               PROVE  ~Starts(doing'[u]) /\ ~Starts(doing'[v])
    BY DEF Apart, Overlap, Starts
  <2>1. CASE u # t /\ v # t
    BY <1>1, <2>1 DEF Orderly, Apart
  <2>2. CASE u = t
    <3>1. doing'[v] = doing[v] /\ Overlap(doing[v], r)
      BY <1>1, <2>2 DEF Overlap
    <3> QED
      BY <1>1, <2>2, <3>1
  <2>3. CASE v = t
    BY <1>1, <2>3
  <2> QED
    BY <2>1, <2>2, <2>3
<1> QED
  BY <1>1, <1>2, <1>3, <1>4, PlanChanged

(* A request that ends relied on nothing any more. *)
LEMMA FinishOrderly ==
    ASSUME TypeInv, Orderly, NEW t \in Threads, Finish(t)
    PROVE  Orderly'
<1>1. /\ plan[t] = <<>> /\ UNCHANGED <<engine, workers, process, plan>>
      /\ doing'[t].op = "none" /\ \A u \in Threads \ {t} : doing'[u] = doing[u]
  BY DEF TypeInv, TypeOK, Finish, Idle
<1>2. Relies(t)'
  BY <1>1, NoCalls
<1>3. Apart'
  BY <1>1 DEF Orderly, Apart, Overlap, Starts
<1> QED
  BY <1>1, <1>2, <1>3, PlanChanged

(* Before the application starts there is no process. *)
LEMMA InitOrderly == Init => Orderly
<1> SUFFICES ASSUME Init PROVE Orderly
  OBVIOUS
<1>1. DOMAIN process = {} /\ engine = NoEngine
  BY DEF Init
<1>2. \A t \in Threads : plan[t] = <<>> \/ plan[t] = StartEngine
  BY DEF Init
<1>3. \A c \in CallsOf(StartEngine) : c.do \in {"create", "launch"}
  BY StartProgram DEF A
<1>4. ASSUME NEW t \in Threads, NEW c \in CallsOf(plan[t])
      PROVE  Current(c) /\ Free(c) /\ Ends(t, c) /\ Halted(t, c)
  <2>1. c.do \in {"create", "launch"}
    BY <1>2, <1>3, CallsShort
  <2> QED
    BY <2>1 DEF Current, Needed, Free, Ends, Halted
<1>5. Apart
  BY DEF Apart, Init, Idle
<1> QED
  BY <1>1, <1>4, <1>5 DEF Orderly, Relies, AllKnown, OneEach

(* Only a request that begins can race others. *)
LEMMA RacedStays ==
    ASSUME NEW t \in Threads, ThreadStep(t)
    PROVE  raced' = raced
  BY DEF ThreadStep, EngineStep, ManagerStep, Create, Halt, Clear, Launch, RnsStep, RnsStartFails,
         StartEnabled, Remember, CallWorker, Check, RemoveEntry, Spawn, StartFails, Register,
         StatusFails, Raise, Find, Ask, Await, Finish

(* Order is kept by each step for as long as no requests race. *)
LEMMA StepOrderly == TypeInv /\ (~raced => Orderly) /\ [Next]_vars => (~raced => Orderly)'
<1> SUFFICES ASSUME TypeInv, ~raced => Orderly, [Next]_vars, ~raced' PROVE Orderly'
  OBVIOUS
<1>1. CASE UNCHANGED vars
  <2>1. Orderly
    BY <1>1 DEF vars
  <2> QED
    BY <1>1, <2>1 DEF vars, Orderly, Apart, Relies, Current, Free, Ends, Halted, Has, AllKnown,
       OneEach, Known, Alive, At, Now
<1>2. ASSUME NEW t \in Threads, ThreadStep(t) PROVE Orderly'
  <2>1. Orderly
    BY <1>2, RacedStays
  <2> QED
    BY <1>2, <2>1, CreateOrderly, HaltOrderly, ClearOrderly, LaunchOrderly, RnsOrderly,
       EnabledOrderly, RememberOrderly, CallWorkerOrderly, CheckOrderly, RemoveOrderly, SpawnOrderly,
       RegisterOrderly, FindOrderly, AskOrderly, AwaitOrderly, FinishOrderly
       DEF ThreadStep, EngineStep, ManagerStep
<1>3. ASSUME NEW t \in Threads, NEW r \in Requests, Begin(t, r) PROVE Orderly'
  <2>1. Orderly
    BY <1>3 DEF Begin
  <2> QED
    BY <1>3, <2>1, BeginOrderly
<1>4. ASSUME NEW p \in DOMAIN process, WorkerStep(p) PROVE Orderly'
  <2>1. Orderly
    BY <1>4, WorkerMoves
  <2> QED
    BY <1>4, <2>1, WorkerOrderly
<1> QED
  BY <1>1, <1>2, <1>3, <1>4 DEF Next, WorkerStep

(* The inductive invariant. *)
LEMMA AlwaysOrderly == Spec => [](TypeInv /\ (~raced => Orderly))
  BY InitType, StepType, InitOrderly, StepOrderly, PTL DEF Spec

(* As long as no two requests overlap one of which starts workers, every worker
   process that runs is in the table of the engine there is, or about to be entered
   (LxmfProcessManager.start and stop, EngineSupervisor.stop, restart_reticulum). *)
THEOREM NobodyLost == Spec => []AliveIsKnown
<1>1. TypeInv /\ (~raced => Orderly) => AliveIsKnown
  BY DEF Orderly, AllKnown, AliveIsKnown
<1> QED
  BY <1>1, AlwaysOrderly, PTL

(* And no identity has two running worker processes (LxmfProcessManager.start). *)
THEOREM OneWorker == Spec => []OneWorkerPerIdentity
<1>1. TypeInv /\ (~raced => Orderly) => OneWorkerPerIdentity
  BY DEF Orderly, OneEach, OneWorkerPerIdentity
<1> QED
  BY <1>1, AlwaysOrderly, PTL
-----------------------------------------------------------------------------
(* Restarts of Reticulum. *)

(* A worker that was asked to stop is waited for. *)
AskedAwaits ==
    \A p \in DOMAIN process : process[p].at = "asked" =>
        \E t \in Threads : \E c \in CallsOf(plan[t]) : c.do = "await" /\ c.p = p

(* A thread whose next call is one of these waits for no process. *)
LEMMA NoneAwaited ==
    ASSUME TypeInv, NEW t \in Threads, plan[t] # <<>>,
           Now(t).do \in Replacing \cup Starting \cup {"stop", "restart"},
           NEW c \in CallsOf(plan[t])
    PROVE  c.do # "await"
<1>1. CASE c \in CallsOf(Tail(plan[t]))
  BY <1>1, PlanParts DEF Follows, Replacing, Starting
<1>2. CASE c = Now(t)
  BY <1>2 DEF Replacing, Starting
<1> QED
  BY <1>1, <1>2, PlanParts

(* What every step of a thread leaves alone. *)
LEMMA ThreadFacts ==
    ASSUME TypeInv, NEW t \in Threads, ThreadStep(t)
    PROVE  /\ Others(t) /\ doing[t].op # "none"
           /\ \A u \in Threads \ {t} : doing'[u] = doing[u] /\ before'[u] = before[u]
           /\ Finish(t) \/ (plan[t] # <<>> /\ doing' = doing /\ before' = before)
           /\ failed => failed'
           /\ process' = process \/ Spawn(t) \/ Ask(t) \/ Await(t)
<1>1. Finish(t) \/ (plan[t] # <<>> /\ doing' = doing /\ before' = before)
  BY DEF ThreadStep, EngineStep, ManagerStep, At, Create, Halt, Clear, Launch, RnsStep,
         RnsStartFails, StartEnabled, Remember, CallWorker, Check, RemoveEntry, Spawn, StartFails,
         Register, StatusFails, Raise, Find, Ask, Await
<1>2. failed => failed'
  BY DEF ThreadStep, EngineStep, ManagerStep, Create, Halt, Clear, Launch, RnsStep,
         RnsStartFails, StartEnabled, Remember, CallWorker, Check, RemoveEntry, Spawn, StartFails,
         Register, StatusFails, Raise, Find, Ask, Await, Finish
<1>3. process' = process \/ Spawn(t) \/ Ask(t) \/ Await(t)
  BY DEF ThreadStep, EngineStep, ManagerStep, Create, Halt, Clear, Launch, RnsStep,
         RnsStartFails, StartEnabled, Remember, CallWorker, Check, RemoveEntry, StartFails,
         Register, StatusFails, Raise, Find, Finish
<1>4. doing[t].op # "none"
  BY <1>1, PlanParts DEF Finish
<1>5. \A u \in Threads \ {t} : doing'[u] = doing[u] /\ before'[u] = before[u]
  BY <1>1 DEF Finish, TypeInv, TypeOK
<1>6. Finish(t) => Others(t)
  BY DEF Finish, Others
<1>7. Others(t)
  <2>1. Halt(t) => Others(t)
    BY HaltStep DEF Others
  <2>2. Create(t) \/ Clear(t) \/ Launch(t) => Others(t)
    BY CreateStep, ClearStep, LaunchStep
  <2>3. RnsStep(t) \/ RnsStartFails(t) \/ StartEnabled(t) => Others(t)
    BY RnsStepType, RnsFailsStep, EnabledStep
  <2>4. Remember(t) \/ CallWorker(t) \/ Check(t) => Others(t)
    BY RememberStep, CallWorkerStep, CheckStep
  <2>5. RemoveEntry(t) \/ Spawn(t) \/ StartFails(t) => Others(t)
    BY RemoveStep, SpawnStep, StartFailsStep
  <2>6. Register(t) \/ StatusFails(t) \/ Find(t) \/ Ask(t) \/ Await(t) => Others(t)
    BY RegisterStep, FindStep, AskStep, AwaitStep
  <2> QED
    BY <1>6, <2>1, <2>2, <2>3, <2>4, <2>5, <2>6 DEF ThreadStep, EngineStep, ManagerStep
<1> QED
  BY <1>1, <1>2, <1>3, <1>4, <1>5, <1>7

(* A thread that waits for a process goes on waiting until it has ended. *)
LEMMA AwaitsStay ==
    ASSUME TypeInv, NEW t \in Threads, ThreadStep(t), NEW c \in CallsOf(plan[t]), c.do = "await"
    PROVE  c \in CallsOf(plan'[t]) \/ (Await(t) /\ c = Now(t))
<1>1. plan[t] # <<>>
  BY CallsShort
<1>2. Now(t).do \notin Replacing \cup Starting \cup {"stop", "restart"}
  BY <1>1, NoneAwaited
<1>3. ~Finish(t)
  BY <1>1 DEF Finish
<1>4. \/ RnsStep(t) \/ RemoveEntry(t) \/ Find(t) \/ Ask(t) \/ Await(t)
  BY <1>2, <1>3 DEF ThreadStep, EngineStep, ManagerStep, At, Now, Create, Halt, Clear, Launch,
     RnsStartFails, StartEnabled, Remember, CallWorker, Check, Spawn, StartFails,
     Register, StatusFails, Raise, Replacing, Starting
<1>5. /\ CallsOf(Tail(plan[t])) \subseteq CallsOf(plan'[t])
      /\ Await(t) \/ Now(t).do # "await"
  BY <1>4, RnsStepType, RemoveStep, FindStep, AskStep, AwaitStep DEF Returned
<1> QED
  BY <1>1, <1>5, PlanParts

(* At first nothing was asked to stop. *)
LEMMA InitAwaits == Init => AskedAwaits
  BY DEF Init, AskedAwaits

(* Each step keeps that a worker asked to stop is waited for. *)
LEMMA StepAwaits == TypeInv /\ AskedAwaits /\ [Next]_vars => AskedAwaits'
<1> SUFFICES ASSUME TypeInv, AskedAwaits, [Next]_vars PROVE AskedAwaits'
  OBVIOUS
<1>1. CASE UNCHANGED vars
  BY <1>1 DEF vars, AskedAwaits
<1>2. ASSUME NEW t \in Threads, ThreadStep(t), NEW p \in DOMAIN process', process'[p].at = "asked"
      PROVE  \E u \in Threads : \E c \in CallsOf(plan'[u]) : c.do = "await" /\ c.p = p
  <2>1. \/ p \in DOMAIN process /\ process[p].at = "asked" /\ ~(Await(t) /\ p = Now(t).p)
        \/ Ask(t) /\ p = Now(t).p
    <3>1. CASE process' = process
      <4>1. ~(Await(t) /\ p = Now(t).p)
        BY <1>2, AwaitStep
      <4> QED
        BY <1>2, <3>1, <4>1
    <3>2. CASE Spawn(t)
      <4>1. ~(Await(t) /\ p = Now(t).p)
        BY <1>2, AwaitStep
      <4> QED
        BY <1>2, <3>2, <4>1, SpawnStep
    <3>3. CASE Ask(t)
      <4>1. ~(Await(t) /\ p = Now(t).p)
        BY <1>2, AwaitStep
      <4> QED
        BY <1>2, <3>3, <4>1, AskStep
    <3>4. CASE Await(t)
      BY <1>2, <3>4, AwaitStep
    <3> QED
      BY <1>2, <3>1, <3>2, <3>3, <3>4, ThreadFacts
  <2>2. CASE Ask(t) /\ p = Now(t).p
    <3>1. Waiting(Now(t)) \in CallsOf(plan'[t]) /\ Now(t) \in Call
      BY <2>2, AskStep, PlanParts DEF Returned
    <3>2. Waiting(Now(t)).do = "await" /\ Waiting(Now(t)).p = p
      BY <2>2, <3>1 DEF Waiting, Call
    <3> QED
      BY <3>1, <3>2
  <2>3. CASE p \in DOMAIN process /\ process[p].at = "asked" /\ ~(Await(t) /\ p = Now(t).p)
    <3>0. PICK u \in Threads : \E c \in CallsOf(plan[u]) : c.do = "await" /\ c.p = p
      BY <2>3 DEF AskedAwaits
    <3>1. PICK c \in CallsOf(plan[u]) : c.do = "await" /\ c.p = p
      BY <3>0
    <3>2. CASE u = t
      BY <1>2, <2>3, <3>1, <3>2, AwaitsStay
    <3>3. CASE u # t
      BY <1>2, <3>1, <3>3, ThreadFacts DEF Others
    <3> QED
      BY <3>2, <3>3
  <2> QED
    BY <2>1, <2>2, <2>3
<1>3. ASSUME NEW t \in Threads, NEW r \in Requests, Begin(t, r) PROVE AskedAwaits'
  <2>1. /\ CallsOf(plan[t]) = {} /\ process' = process
        /\ \A u \in Threads \ {t} : plan'[u] = plan[u]
    BY <1>3, CallsShort DEF Begin, TypeInv, TypeOK, Plans, PlanOK
  <2>2. ASSUME NEW p \in DOMAIN process, process[p].at = "asked"
        PROVE  \E u \in Threads : \E c \in CallsOf(plan'[u]) : c.do = "await" /\ c.p = p
    <3>1. PICK u \in Threads : \E c \in CallsOf(plan[u]) : c.do = "await" /\ c.p = p
      BY <2>2 DEF AskedAwaits
    <3>2. plan'[u] = plan[u]
      BY <2>1, <3>1
    <3> QED
      BY <3>1, <3>2
  <2> QED
    BY <2>1, <2>2 DEF AskedAwaits
<1>4. ASSUME NEW p \in DOMAIN process, WorkerStep(p) PROVE AskedAwaits'
  <2>1. /\ plan' = plan /\ DOMAIN process' = DOMAIN process
        /\ \A q \in DOMAIN process : process'[q].at = "asked" => process[q].at = "asked"
    BY <1>4, WorkerMoves
  <2> QED
    BY <2>1 DEF AskedAwaits
<1>5. ASSUME NEW t \in Threads, ThreadStep(t) PROVE AskedAwaits'
  BY <1>2, <1>5 DEF AskedAwaits
<1> QED
  BY <1>1, <1>3, <1>4, <1>5 DEF Next, WorkerStep

(* While a restart goes on, each worker that ran before it still runs, is   *)
(* among the calls still to be made, or is in the table again for good.    *)
Comes(t, i) ==
    \E c \in CallsOf(plan[t]) : c.do \in {"saved", "check", "spawn", "register"} /\ i \in c.ids

Back(t, i) ==
    /\ engine # NoEngine /\ i \in Entries(engine)
    /\ \A c \in CallsOf(plan[t]) : c.do \in Starting /\ (c.do = "pop" => i \notin c.ids)

BringsBack(t) ==
    IF Has(t, {"remember"})
    THEN \A i \in before[t] : engine # NoEngine /\ Alive(workers[engine][i])
    ELSE /\ plan[t] # <<>> => engine # NoEngine
         /\ \A i \in before[t] : Comes(t, i) \/ Back(t, i)

Restores == \A t \in Threads : doing[t].op = "restartReticulum" /\ ~failed => BringsBack(t)

(* Once the running workers are remembered, none of them is forgotten. *)
LEMMA NothingRemembered ==
    ASSUME TypeInv, NEW t \in Threads, plan[t] # <<>>, Now(t).do # "remember", BringsBack(t)
    PROVE  engine # NoEngine /\ \A i \in before[t] : Comes(t, i) \/ Back(t, i)
<1>1. ~Has(t, {"remember"})
  BY PlanParts DEF Has
<1> QED
  BY <1>1 DEF BringsBack

(* Calls before the new engine runs leave the remembered workers to the later ones. *)
LEMMA TailBringsBack ==
    ASSUME TypeInv, NEW t \in Threads, plan[t] # <<>>, BringsBack(t),
           Now(t).do \notin Starting \cup {"remember"}, engine' # NoEngine, before' = before,
           CallsOf(Tail(plan[t])) \subseteq CallsOf(plan'[t]),
           \A c \in CallsOf(plan'[t]) : c \in CallsOf(Tail(plan[t])) \/ c.do # "remember"
    PROVE  BringsBack(t)'
<1>1. ~Has(t, {"remember"})'
  BY PlanParts DEF Has
<1>2. ASSUME NEW i \in before[t] PROVE Comes(t, i)'
  <2>1. ~Back(t, i)
    BY PlanParts DEF Back
  <2>2. PICK c \in CallsOf(plan[t]) :
            c.do \in {"saved", "check", "spawn", "register"} /\ i \in c.ids
    BY <2>1, NothingRemembered DEF Comes
  <2>3. c # Now(t)
    BY <2>2 DEF Starting
  <2> QED
    BY <2>2, <2>3, PlanParts DEF Comes
<1> QED
  BY <1>1, <1>2 DEF BringsBack

(* Calls that start workers deal with the identities they name. *)
LEMMA StartBringsBack ==
    ASSUME TypeInv, NEW t \in Threads, plan[t] # <<>>, BringsBack(t), Now(t).do \in Starting,
           engine' = engine, before' = before,
           CallsOf(Tail(plan[t])) \subseteq CallsOf(plan'[t]),
           \A c \in CallsOf(plan'[t]) :
               \/ c \in CallsOf(Tail(plan[t]))
               \/ c.do \in Starting
                  /\ (c.do = "pop" => Now(t).do = "check" /\ c.ids = Now(t).ids),
           \A i \in Entries(engine) :
               i \in Entries(engine)' \/ (Now(t).do = "pop" /\ i \in Now(t).ids),
           \A i \in before[t] :
               Now(t).do \in {"saved", "check", "spawn", "register"} /\ i \in Now(t).ids
                   => \/ \E c \in CallsOf(plan'[t]) :
                            c.do \in {"saved", "check", "spawn", "register"} /\ i \in c.ids
                      \/ i \in Entries(engine)' /\ Returned(t)
    PROVE  BringsBack(t)'
<1>1. /\ engine # NoEngine /\ \A i \in before[t] : Comes(t, i) \/ Back(t, i)
      /\ CallsOf(plan[t]) = {Now(t)} \cup CallsOf(Tail(plan[t]))
      /\ \A d \in CallsOf(Tail(plan[t])) : d.do \in Starting \ {"pop"}
  BY NothingRemembered, PlanParts DEF Follows, Starting
<1>2. ~Has(t, {"remember"})'
  BY <1>1 DEF Has, Starting
<1>3. ASSUME NEW i \in before[t] PROVE Comes(t, i)' \/ Back(t, i)'
  <2>1. CASE Now(t).do \in {"saved", "check", "spawn", "register"} /\ i \in Now(t).ids
    <3>1. CASE i \in Entries(engine)' /\ Returned(t)
      BY <1>1, <3>1 DEF Back, Returned
    <3> QED
      BY <2>1, <3>1 DEF Comes
  <2>2. CASE ~(Now(t).do \in {"saved", "check", "spawn", "register"} /\ i \in Now(t).ids)
    <3>1. CASE Comes(t, i)
      <4>1. PICK c \in CallsOf(plan[t]) :
                c.do \in {"saved", "check", "spawn", "register"} /\ i \in c.ids
        BY <3>1 DEF Comes
      <4> QED
        BY <1>1, <2>2, <4>1 DEF Comes
    <3>2. CASE Back(t, i)
      <4>1. i \in Entries(engine)'
        BY <1>1, <3>2 DEF Back
      <4>2. \A c \in CallsOf(plan'[t]) : c.do \in Starting /\ (c.do = "pop" => i \notin c.ids)
        BY <1>1, <2>2
      <4> QED
        BY <1>1, <4>1, <4>2 DEF Back
    <3> QED
      BY <1>1, <3>1, <3>2
  <2> QED
    BY <2>1, <2>2
<1> QED
  BY <1>1, <1>2, <1>3 DEF BringsBack

(* The steps of the engine in a restart of Reticulum. *)
LEMMA EngineBringsBack ==
    ASSUME TypeInv, NEW t \in Threads, EngineStep(t), doing[t].op = "restartReticulum",
           BringsBack(t), ~failed'
    PROVE  BringsBack(t)'
<1>1. CASE Create(t)
  <2>1. /\ Returned(t) /\ plan[t] # <<>> /\ Now(t).do \in {"create", "replace"}
        /\ engine' # NoEngine /\ before' = before
    BY <1>1, CreateStep
  <2> QED
    BY <2>1, TailBringsBack DEF Returned, Starting
<1>2. CASE Halt(t)
  <2>1. plan[t] # <<>> /\ Now(t).do = "halt" /\ engine' = engine /\ before' = before
    BY <1>2, HaltStep DEF Halt, At, Now, Quiet
  <2>2. engine # NoEngine
    BY <2>1, NothingRemembered
  <2>3. CallsOf(plan'[t]) = {On("find", engine, i) : i \in Entries(engine)}
                               \cup {[A("rnsStop") EXCEPT !.e = engine]}
                               \cup CallsOf(Tail(plan[t]))
    BY <1>2, <2>2, HaltStep
  <2>4. [A("rnsStop") EXCEPT !.e = engine].do = "rnsStop"
    BY DEF A
  <2>5. \A i : On("find", engine, i).do # "remember"
    BY CallParts
  <2>6. \A c \in CallsOf(plan'[t]) : c \in CallsOf(Tail(plan[t])) \/ c.do # "remember"
    BY <2>3, <2>4, <2>5
  <2> QED
    BY <2>1, <2>2, <2>3, <2>6, TailBringsBack DEF Starting
<1>3. CASE Clear(t)
  <2>1. plan[t] # <<>> /\ Now(t).do = "clear"
    BY <1>3, ClearStep
  <2> QED
    BY <2>1, PlanParts DEF Fits
<1>4. CASE Launch(t)
  <2>1. plan[t] # <<>> /\ Now(t).do = "launch" /\ engine' = engine /\ before' = before
    BY <1>4, LaunchStep DEF Launch, At, Now, Quiet
  <2>2. engine # NoEngine
    BY <2>1, NothingRemembered
  <2>3. /\ CallsOf(Tail(plan[t])) \subseteq CallsOf(plan'[t])
        /\ \A c \in CallsOf(plan'[t]) : c \in CallsOf(Tail(plan[t])) \/ c.do # "remember"
    BY <1>4, <2>2, LaunchStep
  <2> QED
    BY <2>1, <2>2, <2>3, TailBringsBack DEF Starting
<1>5. CASE RnsStep(t)
  <2>1. /\ Returned(t) /\ plan[t] # <<>> /\ Now(t).do \in {"rnsStart", "rnsStop"}
        /\ UNCHANGED <<engine, workers, before>>
    BY <1>5, RnsStepType
  <2>2. engine # NoEngine
    BY <2>1, NothingRemembered
  <2>3. CASE Now(t).do = "rnsStop"
    BY <2>1, <2>2, <2>3, TailBringsBack DEF Returned, Starting
  <2>4. CASE Now(t).do = "rnsStart"
    BY <2>1, <2>4, StartBringsBack DEF Returned, Starting, Entries
  <2> QED
    BY <2>1, <2>3, <2>4
<1>6. CASE RnsStartFails(t)
  BY <1>6, RnsFailsStep
<1>7. CASE StartEnabled(t)
  <2>1. /\ plan[t] # <<>> /\ Now(t).do = "enabled" /\ UNCHANGED <<engine, workers, before>>
        /\ CallsOf(Tail(plan[t])) \subseteq CallsOf(plan'[t])
        /\ \A c \in CallsOf(plan'[t]) : c \in CallsOf(Tail(plan[t])) \/ c.do = "check"
    BY <1>7, EnabledStep DEF Quiet
  <2> QED
    BY <2>1, StartBringsBack DEF Starting, Entries
<1>8. CASE Remember(t)
  <2>1. /\ Now(t).do = "remember" /\ plan[t] # <<>> /\ UNCHANGED <<engine, before>>
        /\ engine = NoEngine => plan'[t] = <<>>
        /\ engine # NoEngine => plan'[t] # <<>> /\
              CallsOf(plan'[t]) =
                  {A("halt"), A("replace"), A("launch"),
                   [A("saved") EXCEPT !.ids = {i \in Identities : Alive(workers[engine][i])}]}
    BY <1>8, RememberStep DEF Remember, At, Quiet
  <2>2. Has(t, {"remember"})
    BY <2>1, PlanParts DEF Has
  <2>3. \A i \in before[t] : i \in Identities /\ engine # NoEngine /\ Alive(workers[engine][i])
    BY <2>2 DEF BringsBack, TypeInv, TypeOK
  <2>4. CASE engine = NoEngine
    <3>1. CallsOf(plan'[t]) = {} /\ before'[t] = {}
      BY <2>1, <2>3, <2>4, CallsShort
    <3> QED
      BY <2>1, <2>4, <3>1 DEF BringsBack, Has
  <2>5. CASE engine # NoEngine
    <3> DEFINE saved == [A("saved") EXCEPT !.ids = {i \in Identities : Alive(workers[engine][i])}]
    <3>1. saved.do = "saved" /\ saved.ids = {i \in Identities : Alive(workers[engine][i])}
      BY DEF A
    <3>2. CallsOf(plan'[t]) = {A("halt"), A("replace"), A("launch"), saved}
      BY <2>1, <2>5
    <3>4. A("halt").do = "halt" /\ A("replace").do = "replace" /\ A("launch").do = "launch"
      BY CallParts
    <3> HIDE DEF saved
    <3>5. ~Has(t, {"remember"})'
      BY <3>1, <3>2, <3>4 DEF Has
    <3>3. \A i \in before[t] : Comes(t, i)'
      BY <2>3, <3>1, <3>2 DEF Comes
    <3> QED
      BY <2>1, <2>5, <3>3, <3>5 DEF BringsBack
  <2> QED
    BY <2>4, <2>5
<1>9. CASE CallWorker(t)
  <2>1. /\ plan[t] # <<>> /\ Now(t).do \in {"saved", "start", "stop", "restart"}
        /\ UNCHANGED <<engine, workers, before>>
        /\ \A c \in CallsOf(plan'[t]) :
               \/ c.do = "find" /\ Now(t).do \in {"stop", "restart"}
               \/ c.do \in {"check", "saved"}
        /\ engine # NoEngine /\ Now(t).do = "saved" =>
               \A i \in Now(t).ids :
                   \E c \in CallsOf(plan'[t]) : c.do \in {"check", "saved"} /\ i \in c.ids
    BY <1>9, CallWorkerStep DEF Quiet
  <2>2. engine # NoEngine
    BY <2>1, NothingRemembered
  <2>3. CallsOf(Tail(plan[t])) = {}
    BY <2>1, LastCall, CallsShort
  <2>4. CASE Now(t).do \in {"stop", "restart"}
    BY <2>1, <2>2, <2>3, <2>4, TailBringsBack DEF Starting
  <2>5. CASE Now(t).do \in {"saved", "start"}
    <3>1. ASSUME NEW i \in before[t], i \in Now(t).ids, Now(t).do = "saved"
          PROVE  \E c \in CallsOf(plan'[t]) : c.do \in {"saved", "check"} /\ i \in c.ids
      BY <2>1, <2>2, <3>1
    <3>2. \A c \in CallsOf(plan'[t]) : c.do \in Starting /\ c.do # "pop"
      BY <2>1, <2>5 DEF Starting
    <3>3. Entries(engine)' = Entries(engine)
      BY <2>1 DEF Entries
    <3>4. Now(t).do \in Starting /\ Now(t).do \notin {"check", "spawn", "register"}
      BY <2>5 DEF Starting
    <3> QED
      BY <2>1, <2>3, <3>1, <3>2, <3>3, <3>4, StartBringsBack
  <2> QED
    BY <2>1, <2>4, <2>5
<1> QED
  BY <1>1, <1>2, <1>3, <1>4, <1>5, <1>6, <1>7, <1>8, <1>9 DEF EngineStep

(* The steps of the process manager in it. *)
LEMMA ManagerBringsBack ==
    ASSUME TypeInv, Orderly, NEW t \in Threads, ManagerStep(t), BringsBack(t), ~failed'
    PROVE  BringsBack(t)'
<1>1. CASE Check(t)
  <2>1. /\ plan[t] # <<>> /\ Now(t).do = "check" /\ UNCHANGED <<engine, workers, before>>
        /\ CallsOf(Tail(plan[t])) \subseteq CallsOf(plan'[t])
    BY <1>1, CheckStep DEF Quiet
  <2>2. Now(t).e = engine /\ Now(t).ids = {IdOf(Now(t))}
    BY <2>1, HeadParts, PlanParts DEF Orderly, Relies, Current, Needed, OnWorker
  <2>3. CASE Alive(workers[Now(t).e][IdOf(Now(t))])
    <3>1. Returned(t) /\ IdOf(Now(t)) \in Entries(engine)
      BY <1>1, <2>1, <2>2, <2>3, CheckStep, HeadParts DEF Entries, Alive, OnWorker
    <3>2. \A i \in Now(t).ids : i \in Entries(engine)'
      BY <2>1, <2>2, <3>1 DEF Entries
    <3> QED
      BY <2>1, <3>1, <3>2, StartBringsBack DEF Starting, Entries, Returned
  <2>4. CASE ~Alive(workers[Now(t).e][IdOf(Now(t))])
    <3>1. /\ \A c \in CallsOf(plan'[t]) :
                 \/ c \in CallsOf(Tail(plan[t]))
                 \/ c.do \in {"pop", "spawn"} /\ c.ids = Now(t).ids
          /\ \E c \in CallsOf(plan'[t]) : c.do = "spawn" /\ c.ids = Now(t).ids
      BY <1>1, <2>4, CheckStep
    <3>2. \A i \in Now(t).ids : \E c \in CallsOf(plan'[t]) : c.do = "spawn" /\ i \in c.ids
      BY <3>1
    <3>3. Entries(engine)' = Entries(engine)
      BY <2>1 DEF Entries
    <3>4. "pop" \in Starting /\ "spawn" \in Starting /\ "check" \in Starting
      BY DEF Starting
    <3> QED
      BY <2>1, <3>1, <3>2, <3>3, <3>4, StartBringsBack
  <2> QED
    BY <2>3, <2>4
<1>2. CASE RemoveEntry(t)
  <2>1. /\ Returned(t) /\ plan[t] # <<>> /\ Now(t).do \in {"pop", "forget"}
        /\ UNCHANGED <<engine, before>>
        /\ \A f \in Engines, j \in Identities :
               workers'[f][j] = (IF f = Now(t).e /\ {j} = Now(t).ids THEN NoProcess
                                 ELSE workers[f][j])
    BY <1>2, RemoveStep
  <2>2. engine # NoEngine /\ engine \in Engines
    BY <2>1, NothingRemembered DEF TypeInv, TypeOK
  <2>3. CASE Now(t).do = "forget"
    BY <2>1, <2>2, <2>3, TailBringsBack DEF Returned, Starting
  <2>4. CASE Now(t).do = "pop"
    <3>1. \A i \in Entries(engine) : i \in Entries(engine)' \/ i \in Now(t).ids
      BY <2>1, <2>2 DEF Entries
    <3> QED
      BY <2>1, <2>4, <3>1, StartBringsBack DEF Starting, Returned
  <2> QED
    BY <2>1, <2>3, <2>4
<1>3. CASE Spawn(t)
  <2>1. /\ plan[t] # <<>> /\ Now(t).do = "spawn" /\ UNCHANGED <<engine, workers, before>>
        /\ CallsOf(plan'[t]) = {Head(plan'[t])} \cup CallsOf(Tail(plan[t]))
        /\ Head(plan'[t]).do = "register" /\ Head(plan'[t]).ids = Now(t).ids
    BY <1>3, SpawnStep
  <2>2. \A i \in Now(t).ids : \E c \in CallsOf(plan'[t]) : c.do = "register" /\ i \in c.ids
    BY <2>1
  <2>3. Entries(engine)' = Entries(engine)
    BY <2>1 DEF Entries
  <2>4. "spawn" \in Starting /\ "register" \in Starting
    BY DEF Starting
  <2> QED
    BY <2>1, <2>2, <2>3, <2>4, StartBringsBack
<1>4. CASE StartFails(t)
  BY <1>4, StartFailsStep
<1>5. CASE Register(t)
  <2>1. /\ Returned(t) /\ plan[t] # <<>> /\ Now(t).do = "register"
        /\ Now(t).p \in DOMAIN process /\ UNCHANGED <<engine, before>>
        /\ \A f \in Engines, j \in Identities :
               workers'[f][j] = (IF f = Now(t).e /\ {j} = Now(t).ids THEN Now(t).p
                                 ELSE workers[f][j])
    BY <1>5, RegisterStep
  <2>2. Now(t).e = engine /\ Now(t).ids = {IdOf(Now(t))} /\ IdOf(Now(t)) \in Identities
        /\ Now(t).p # NoProcess
    BY <2>1, HeadParts, PlanParts DEF Orderly, Relies, Current, Needed, OnWorker, TypeInv, TypeOK,
       NoProcess
  <2>3. engine \in Engines
    BY <2>1, NothingRemembered DEF TypeInv, TypeOK
  <2>4. /\ \A i \in Entries(engine) : i \in Entries(engine)'
        /\ \A i \in Now(t).ids : i \in Entries(engine)'
    BY <2>1, <2>2, <2>3 DEF Entries
  <2> QED
    BY <2>1, <2>4, StartBringsBack DEF Starting, Returned
<1>5a. CASE StatusFails(t)
  BY <1>5a, RegisterStep
<1>6. CASE Find(t)
  <2>1. /\ plan[t] # <<>> /\ Now(t).do = "find" /\ UNCHANGED <<engine, before>>
        /\ CallsOf(Tail(plan[t])) \subseteq CallsOf(plan'[t])
        /\ \A c \in CallsOf(plan'[t]) : c \in CallsOf(Tail(plan[t])) \/ c.do # "remember"
    BY <1>6, FindStep DEF Quiet
  <2> QED
    BY <2>1, NothingRemembered, TailBringsBack DEF Starting
<1>7. CASE Ask(t) \/ Await(t)
  <2>1. /\ plan[t] # <<>> /\ Now(t).do \in {"ask", "await"} /\ UNCHANGED <<engine, before>>
        /\ Returned(t)
    BY <1>7, AskStep, AwaitStep
  <2> QED
    BY <2>1, NothingRemembered, TailBringsBack DEF Starting, Returned
<1> QED
  BY <1>1, <1>2, <1>3, <1>4, <1>5, <1>5a, <1>6, <1>7 DEF ManagerStep

(* Nothing else is served while Reticulum restarts, unless requests raced. *)
LEMMA Alone ==
    ASSUME TypeInv, Apart, NEW t \in Threads, NEW u \in Threads, u # t,
           doing[t].op = "restartReticulum"
    PROVE  doing[u].op = "none" /\ plan[u] = <<>>
<1>1. Overlap(doing[t], doing[u]) /\ Starts(doing[t]) /\ doing[t].op # "none"
  BY DEF Overlap, Starts, WorkerOps
<1>2. doing[u].op = "none"
  BY <1>1 DEF Apart
<1> QED
  BY <1>2 DEF TypeInv, Plans, PlanOK

(* At first no restart is served. *)
LEMMA InitRestores == Init => Restores
  BY DEF Init, Restores, Idle

(* A step of a thread: of the one that restarts Reticulum, the others are idle. *)
LEMMA ThreadRestores ==
    ASSUME TypeInv, Orderly, Restores, NEW t \in Threads, ThreadStep(t)
    PROVE  Restores'
<1> SUFFICES ASSUME NEW u \in Threads, doing'[u].op = "restartReticulum", ~failed'
             PROVE  BringsBack(u)'
  BY DEF Restores
<1>1. ~Finish(t) \/ u # t
  BY DEF Finish, Idle, TypeInv, TypeOK
<1>2. doing[u].op = "restartReticulum" /\ ~failed
  BY <1>1, ThreadFacts
<1>3. u = t
  BY <1>2, ThreadFacts, Alone DEF Orderly
<1>4. BringsBack(t) /\ (EngineStep(t) \/ ManagerStep(t))
  BY <1>1, <1>2, <1>3 DEF Restores, ThreadStep
<1> QED
  BY <1>2, <1>3, <1>4, EngineBringsBack, ManagerBringsBack

(* When a restart begins, each running worker is in the table of the engine. *)
LEMMA BeginRestores ==
    ASSUME TypeInv, Orderly, Restores, NEW t \in Threads, NEW r \in Requests, Begin(t, r), ~raced'
    PROVE  Restores'
<1>1. /\ doing[t].op = "none" /\ UNCHANGED <<engine, workers, process, failed>>
      /\ plan'[t] = Program(r) /\ doing'[t] = r
      /\ \A u \in Threads \ {t} : doing'[u] = doing[u]
      /\ \A u \in Threads : doing[u].op # "none" /\ Overlap(doing[u], r)
                              => ~Starts(doing[u]) /\ ~Starts(r)
  BY DEF TypeInv, TypeOK, Begin
<1> SUFFICES ASSUME NEW u \in Threads, doing'[u].op = "restartReticulum"
             PROVE  BringsBack(u)'
  BY DEF Restores
<1>2. u = t /\ r.op = "restartReticulum"
  <2>1. CASE u # t
    <3>1. doing[u].op = "restartReticulum"
      BY <1>1, <2>1
    <3> QED
      BY <1>1, <3>1 DEF Overlap, Starts, WorkerOps
  <2> QED
    BY <1>1, <2>1
<1>3. \A v \in Threads : doing[v].op = "none" /\ plan[v] = <<>>
  <2> SUFFICES ASSUME NEW v \in Threads PROVE doing[v].op = "none"
    BY DEF TypeInv, Plans, PlanOK
  <2> QED
    BY <1>1, <1>2 DEF Overlap, Starts, WorkerOps
<1>4. Has(t, {"remember"})'
  <2>1. plan'[t] = RestartReticulum /\ A("remember") \in CallsOf(RestartReticulum)
    BY <1>1, <1>2, ProgramShape, ReticulumProgram
  <2> QED
    BY <2>1, CallParts DEF Has
<1>5. ASSUME NEW i \in before'[t] PROVE engine # NoEngine /\ Alive(workers[engine][i])
  <2>1. PICK p \in DOMAIN process : Alive(p) /\ process[p].id = {i}
    BY <1>2, <1>5 DEF Begin
  <2>2. engine # NoEngine /\ \E j \in Identities : workers[engine][j] = p
    BY <1>3, <2>1 DEF Orderly, AllKnown, Known, At
  <2>3. PICK j \in Identities : workers[engine][j] = p
    BY <2>2
  <2>4. process[p].id = {j}
    BY <2>1, <2>2, <2>3 DEF TypeInv, TypeOK, Alive
  <2> QED
    BY <2>1, <2>2, <2>3, <2>4
<1> QED
  BY <1>1, <1>2, <1>4, <1>5 DEF BringsBack, Alive

(* A worker that ends in a restart was not asked to, or was remembered before. *)
LEMMA WorkerRestores ==
    ASSUME TypeInv, AskedAwaits, Orderly, Restores, NEW p \in DOMAIN process, WorkerStep(p)
    PROVE  Restores'
<1>1. /\ UNCHANGED <<engine, workers, plan, doing, failed>>
      /\ DOMAIN process' = DOMAIN process
      /\ \A q \in DOMAIN process : q # p => process'[q].at = process[q].at
      /\ \/ Alive(p)' = Alive(p) /\ before' = before
         \/ process'[p].at = "exited" /\
              before' = [t \in Threads |-> IF process[p].at = "asked" THEN before[t]
                                           ELSE before[t] \ process[p].id]
  BY WorkerMoves
<1> SUFFICES ASSUME NEW t \in Threads, doing[t].op = "restartReticulum", ~failed
             PROVE  BringsBack(t)'
  BY <1>1 DEF Restores
<1>2. BringsBack(t)
  BY DEF Restores
<1>3. before'[t] \subseteq before[t]
  BY <1>1
<1>4. CASE ~Has(t, {"remember"})
  <2>1. ~Has(t, {"remember"})'
    BY <1>1, <1>4 DEF Has
  <2>2. \A i \in before[t] : Comes(t, i) \/ Back(t, i)
    BY <1>2, <1>4 DEF BringsBack
  <2>3. \A i \in before[t] : Comes(t, i)' \/ Back(t, i)'
    BY <1>1, <2>2 DEF Comes, Back, Entries
  <2> QED
    BY <1>1, <1>2, <1>3, <1>4, <2>1, <2>3 DEF BringsBack
<1>5. CASE Has(t, {"remember"})
  <2>1. Has(t, {"remember"})'
    BY <1>1, <1>5 DEF Has
  <2>2. process[p].at # "asked"
    <3>1. \A c \in CallsOf(plan[t]) : c.do # "await"
      <4>1. plan[t] = RestartReticulum
        BY <1>5 DEF Has, TypeInv, Plans, PlanOK
      <4> QED
        BY <4>1, ReticulumProgram, CallParts
    <3>2. \A u \in Threads \ {t} : CallsOf(plan[u]) = {}
      BY Alone, CallsShort DEF Orderly
    <3> QED
      BY <3>1, <3>2 DEF AskedAwaits
  <2>3. ASSUME NEW i \in before'[t] PROVE engine # NoEngine /\ Alive(workers[engine][i])'
    <3>1. /\ i \in Identities /\ engine # NoEngine /\ engine \in Engines
          /\ Alive(workers[engine][i])
      BY <1>2, <1>3, <1>5 DEF BringsBack, TypeInv, TypeOK
    <3>2. CASE workers[engine][i] # p
      BY <1>1, <3>1, <3>2 DEF Alive, TypeInv, TypeOK
    <3>3. CASE workers[engine][i] = p
      <4>1. process[p].id = {i}
        BY <3>1, <3>3 DEF TypeInv, TypeOK, Alive
      <4>2. Alive(p)' = Alive(p)
        BY <1>1, <2>2, <2>3, <4>1
      <4> QED
        BY <1>1, <3>1, <3>3, <4>2
    <3> QED
      BY <3>2, <3>3
  <2> QED
    BY <1>1, <2>1, <2>3 DEF BringsBack
<1> QED
  BY <1>4, <1>5

(* Each step keeps it. *)
LEMMA StepRestores ==
    TypeInv /\ AskedAwaits /\ (~raced => Orderly) /\ (~raced => Restores) /\ [Next]_vars
        => (~raced => Restores)'
<1> SUFFICES ASSUME TypeInv, AskedAwaits, ~raced => Orderly, ~raced => Restores, [Next]_vars, ~raced'
             PROVE  Restores'
  OBVIOUS
<1>1. CASE UNCHANGED vars
  <2>1. Restores
    BY <1>1 DEF vars
  <2> QED
    BY <1>1, <2>1 DEF vars, Restores, BringsBack, Comes, Back, Has, Entries, Alive
<1>2. ASSUME NEW t \in Threads, ThreadStep(t) PROVE Restores'
  BY <1>2, RacedStays, ThreadRestores
<1>3. ASSUME NEW t \in Threads, NEW r \in Requests, Begin(t, r) PROVE Restores'
  <2>1. ~raced
    BY <1>3 DEF Begin
  <2> QED
    BY <1>3, <2>1, BeginRestores
<1>4. ASSUME NEW p \in DOMAIN process, WorkerStep(p) PROVE Restores'
  <2>1. ~raced
    BY <1>4, WorkerMoves
  <2> QED
    BY <1>4, <2>1, WorkerRestores
<1> QED
  BY <1>1, <1>2, <1>3, <1>4 DEF Next, WorkerStep

(* A restart of Reticulum that met no failure and no other request has each worker
   back that ran before and did not end by itself (restart_reticulum). *)
THEOREM AllBack == Spec => []RestartBringsBack
<1>1. Spec => []AskedAwaits
  BY InitType, StepType, InitAwaits, StepAwaits, PTL DEF Spec
<1>2. Spec => [](~raced => Restores)
  BY <1>1, AlwaysOrderly, InitRestores, StepRestores, PTL DEF Spec
<1>3. (~raced => Restores) => RestartBringsBack
  <2> SUFFICES ASSUME ~raced => Restores, NEW t \in Threads, doing[t].op = "restartReticulum",
                      plan[t] = <<>>, engine # NoEngine, ~raced, ~failed
               PROVE  before[t] \subseteq Entries(engine)
    BY DEF RestartBringsBack
  <2>1. CallsOf(plan[t]) = {} /\ BringsBack(t)
    BY CallsShort DEF Restores
  <2> QED
    BY <2>1 DEF BringsBack, Has, Comes, Back
<1> QED
  BY <1>2, <1>3, PTL
==============================================================================
