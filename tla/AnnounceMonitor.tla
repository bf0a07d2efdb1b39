--------------------------- MODULE AnnounceMonitor ---------------------------
(***************************************************************************)
(* The announces of one RnsRuntime (engine/rns_runtime.py).  Its monitor   *)
(* thread announces an interface when it is new or its connection changed, *)
(* at most once per interval; HTTP threads announce on request; one of     *)
(* them stops the runtime.  They share the time of the last announce of    *)
(* each interface, without a lock.                                         *)
(*                                                                         *)
(* The signature of an interface is the version of its connection, negated *)
(* when it is offline.  It is announced for all destinations in one step,  *)
(* which may fail at any of them.                                          *)
(***************************************************************************)
EXTENDS Integers

CONSTANTS Interfaces,    \* in the order of Transport.interfaces
          Callers,       \* threads that call make_announce
          Interval,      \* seconds between automatic announces
          MaxTime,       \* bound: the clock
          MaxChanges,    \* bound: changes and losses of connections
          MaxCalls       \* bound: manual announces

ASSUME MonitorAssumption ==
    /\ Interval \in Nat \ {0}
    /\ MaxTime \in Nat /\ MaxTime >= Interval /\ MaxChanges \in Nat /\ MaxCalls \in Nat
    /\ \A j, k \in DOMAIN Interfaces : Interfaces[j] = Interfaces[k] => j = k

Names == {Interfaces[k] : k \in DOMAIN Interfaces}
Versions == 1 .. MaxChanges + 1
Nothing == 0
Signatures == Versions \cup {Nothing} \cup {-v : v \in Versions}
Times == 0 .. MaxTime
Never == 0
NoAnnounce == [sent |-> Never, round |-> Never]

VARIABLES
    clock,
    online, version,  \* of each interface: can it send, and its connection
    changes, calls,
    loaded,           \* self.RNS is not None
    stop,             \* how far stop() is
    seen,             \* _interface_signatures
    last,             \* _interface_announce_last
    monitor, caller,  \* the monitor thread and the others
    auto              \* history: when the last automatic announce went out, and
                      \* when the pass that sent it began, unless the time kept
                      \* is older

links == <<online, version, changes>>
memory == <<seen, last>>
vars == <<clock, links, calls, loaded, stop, memory, monitor, caller, auto>>

\* A thread between rounds; todo are the places of the interfaces a round has
\* still to do, which it takes in order.
Idle == [pc |-> "idle", now |-> Never, todo |-> {}]

TypeOK ==
    /\ clock \in Times /\ changes \in 0 .. MaxChanges /\ calls \in 0 .. MaxCalls
    /\ online \in [Names -> BOOLEAN] /\ version \in [Names -> Versions]
    /\ loaded \in BOOLEAN /\ stop \in {"no", "joining", "stopped"}
    /\ seen \in [Names -> Signatures] /\ \A i \in Names : seen[i] <= version[i]
    /\ last \in [Names -> Times] /\ \A i \in Names : last[i] <= clock
    /\ \A w \in {monitor} \cup {caller[t] : t \in Callers} :
           /\ w.pc \in {"idle", "look", "send", "record", "ended"}
           /\ w.now \in 0 .. clock /\ w.todo \subseteq DOMAIN Interfaces
           /\ w.pc \in {"look", "send", "record"} => w.todo # {}
    /\ auto \in [Names -> [sent : Times, round : Times]]
    /\ \A i \in Names : auto[i].round <= auto[i].sent /\ auto[i].sent <= clock

\* start() has just ended.
Init ==
    /\ clock = Interval /\ changes = 0 /\ calls = 0
    /\ online = [i \in Names |-> TRUE] /\ version = [i \in Names |-> 1]
    /\ loaded = TRUE /\ stop = "no"
    /\ seen = [i \in Names |-> Nothing] /\ last = [i \in Names |-> Never]
    /\ monitor = Idle /\ caller = [t \in Callers |-> Idle]
    /\ auto = [i \in Names |-> NoAnnounce]
-----------------------------------------------------------------------------
Tick ==
    /\ clock < MaxTime /\ clock' = clock + 1
    /\ UNCHANGED <<links, calls, loaded, stop, memory, monitor, caller, auto>>

\* Reticulum connects, loses or replaces a connection.
Change(i) ==
    /\ changes < MaxChanges /\ changes' = changes + 1
    /\ \/ online' = [online EXCEPT ![i] = ~online[i]] /\ UNCHANGED version
       \/ version' = [version EXCEPT ![i] = version[i] + 1] /\ UNCHANGED online
    /\ UNCHANGED <<clock, calls, loaded, stop, memory, monitor, caller, auto>>

\* _select_announce_interfaces; without a module there is none.
Selected ==
    IF loaded THEN {k \in DOMAIN Interfaces : online[Interfaces[k]]} ELSE {}

\* A round over interfaces that starts now.
Round(pc, todo) == IF todo = {} THEN Idle ELSE [pc |-> pc, now |-> clock, todo |-> todo]
First(todo) == CHOOSE k \in todo : \A j \in todo : k <= j
Rest(todo) == todo \ {First(todo)}
Current(w) == Interfaces[First(w.todo)]
\* Variant: it goes on whether there is another interface or not.
AlwaysFollowing(w, pc) == [w EXCEPT !.pc = pc, !.todo = Rest(w.todo)]
\* It goes on with the next interface.
Following(w, pc) ==
    IF Rest(w.todo) = {} THEN Idle ELSE [w EXCEPT !.pc = pc, !.todo = Rest(w.todo)]
On(w, pc, i) == w.pc = pc /\ Current(w) = i

\* Variant: the time is kept for manual announces only.
NotRecorded(w, i) == last[i]
\* The time the round began.
Recorded(w, i) == w.now

\* _record_interface_announce
Record(w, i) == last' = [last EXCEPT ![i] = Recorded(w, i)]
-----------------------------------------------------------------------------
(***************************************************************************)
(* _announce_monitor_loop                                                  *)
(***************************************************************************)
\* A pass begins, every two seconds.
BeginPass ==
    /\ monitor.pc = "idle" /\ stop = "no"
    /\ monitor' = Round("look", Selected)
    /\ UNCHANGED <<clock, links, calls, loaded, stop, memory, caller, auto>>

\* The event is set: the loop ends.
EndMonitor ==
    /\ monitor.pc = "idle" /\ stop # "no"
    /\ monitor' = [Idle EXCEPT !.pc = "ended"]
    /\ UNCHANGED <<clock, links, calls, loaded, stop, memory, caller, auto>>

\* _interface_connection_signature
Signature(i) == IF online[i] THEN version[i] ELSE -version[i]
Due(i) == Signature(i) # seen[i]
HeldBack(i) == monitor.now - last[i] < Interval

\* One interface of _announce_changed_interfaces: its signature is compared
\* and kept before the interval is looked at.
Look(i) ==
    /\ On(monitor, "look", i)
    /\ seen' = [seen EXCEPT ![i] = Signature(i)]
    /\ IF Due(i) /\ ~HeldBack(i)
       THEN monitor' = [monitor EXCEPT !.pc = "send"]
       ELSE monitor' = Following(monitor, "look")
    /\ UNCHANGED <<clock, links, calls, loaded, stop, last, caller, auto>>

\* destination.announce
MonitorSend(i) ==
    /\ On(monitor, "send", i)
    /\ monitor' = [monitor EXCEPT !.pc = "record"]
    /\ auto' = [auto EXCEPT ![i] = [sent |-> clock, round |-> monitor.now]]
    /\ UNCHANGED <<clock, links, calls, loaded, stop, memory, caller>>

\* Variant: the exception leaves the loop.
FailureEndsMonitor(i) ==
    /\ On(monitor, "send", i)
    /\ monitor' = [Idle EXCEPT !.pc = "ended"]
    /\ UNCHANGED <<clock, links, calls, loaded, stop, memory, caller, auto>>

\* It raises, as for an interface that is gone: announce.auto_error is
\* published and the pass is over.  Announced for some of the destinations
\* already, the interface has no time kept for it.
MonitorSendFails(i) ==
    /\ On(monitor, "send", i)
    /\ monitor' = Idle
    /\ auto' \in {auto, [auto EXCEPT ![i] = NoAnnounce]}
    /\ UNCHANGED <<clock, links, calls, loaded, stop, memory, caller>>

MonitorRecord(i) ==
    /\ On(monitor, "record", i)
    /\ Record(monitor, i)
    /\ monitor' = Following(monitor, "look")
    /\ UNCHANGED <<clock, links, calls, loaded, stop, seen, caller, auto>>
-----------------------------------------------------------------------------
(***************************************************************************)
(* make_announce, for all interfaces or for one.                           *)
(***************************************************************************)
CallAnnounce(t, wanted) ==
    /\ caller[t].pc = "idle" /\ calls < MaxCalls /\ calls' = calls + 1
    /\ caller' = [caller EXCEPT ![t] = Round("send", {k \in Selected : Interfaces[k] \in wanted})]
    /\ UNCHANGED <<clock, links, loaded, stop, memory, monitor, auto>>

\* An announce that fails is an entry of the answer; the round goes on.
CallerSend(t) ==
    /\ caller[t].pc = "send"
    /\ \/ caller' = [caller EXCEPT ![t].pc = "record"]
       \/ caller' = [caller EXCEPT ![t] = Following(caller[t], "send")]
    /\ UNCHANGED <<clock, links, calls, loaded, stop, memory, monitor, auto>>

CallerRecord(t) ==
    /\ caller[t].pc = "record"
    /\ LET i == Current(caller[t]) IN
         /\ Record(caller[t], i)
         /\ auto' = IF caller[t].now < auto[i].round THEN [auto EXCEPT ![i] = NoAnnounce] ELSE auto
    /\ caller' = [caller EXCEPT ![t] = Following(caller[t], "send")]
    /\ UNCHANGED <<clock, links, calls, loaded, stop, seen, monitor>>
-----------------------------------------------------------------------------
(***************************************************************************)
(* stop()                                                                  *)
(***************************************************************************)
BeginStop ==
    /\ stop = "no" /\ stop' = "joining"
    /\ UNCHANGED <<clock, links, calls, loaded, memory, monitor, caller, auto>>

\* The monitor has ended, or two seconds are over.
Unload ==
    /\ stop = "joining" /\ stop' = "stopped"
    /\ loaded' = FALSE
    /\ UNCHANGED <<clock, links, calls, memory, monitor, caller, auto>>
-----------------------------------------------------------------------------
MonitorStep ==
    \/ BeginPass \/ EndMonitor
    \/ \E i \in Names : Look(i) \/ MonitorSend(i) \/ MonitorSendFails(i) \/ MonitorRecord(i)
CallerStep(t) == CallerSend(t) \/ CallerRecord(t)

Next ==
    \/ Tick \/ (\E i \in Names : Change(i)) \/ BeginStop
    \/ MonitorStep \/ Unload
    \/ \E t \in Callers :
           CallerStep(t) \/ \E w \in {{i} : i \in Names} \cup {Names} : CallAnnounce(t, w)

Spec == Init /\ [][Next]_vars
-----------------------------------------------------------------------------
\* An announce is late by the time its pass took to come to it.
Late(i) == auto[i].sent - auto[i].round

\* Automatic announces of an interface keep their distance, however often its
\* connection changes and whoever announces it by hand meanwhile: the interval,
\* less what the earlier one was late.  Not so when the time kept is older than
\* the earlier one, by a slow manual announce or a failure half-way.
AnnouncesPaced ==
    [][\A i \in Names :
           On(monitor, "send", i) /\ monitor' # monitor /\ auto[i] # NoAnnounce
               => clock - auto[i].sent >= Interval - Late(i)]_vars

\* The monitor has announced the connection, held it back or failed with it.
Answered(i) ==
    seen[i] = Signature(i) /\ ~On(monitor, "send", i) /\ ~On(monitor, "record", i)

\* Every new connection that lasts is answered: an interface whose announce
\* fails at every attempt does not keep the monitor from those behind it.
ChangesNoticed ==
    \A i \in Names : (online[i] /\ ~Answered(i)) ~> (Answered(i) \/ ~online[i] \/ stop # "no")
=============================================================================
