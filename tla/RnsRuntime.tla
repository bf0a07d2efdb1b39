----------------------------- MODULE RnsRuntime ------------------------------
(***************************************************************************)
(* One RnsRuntime with all that use it: the monitor and the callers of     *)
(* make_announce (AnnounceMonitor), and the callers of fetch_nomadnet_page *)
(* (PageFetch), which are HTTP threads as well.  stop() takes the module   *)
(* away from all of them.                                                  *)
(***************************************************************************)
EXTENDS AnnounceMonitor

CONSTANT Candidates

ASSUME RuntimeAssumption == Candidates \in Nat

VARIABLES path, fetch, link, established

\* MaxCalls bounds the requests of both kinds together.
Pages == INSTANCE PageFetch WITH Fetchers <- Callers, MaxFetches <- MaxCalls, fetches <- calls

pageVars == <<path, fetch, link, established>>
announceVars == <<clock, links, stop, memory, monitor, caller, auto>>
allVars == <<vars, pageVars>>

RuntimeInit == Init /\ Pages!Init

CallPage(t) ==
    /\ caller[t].pc = "idle" /\ Pages!Fetch(t)
    /\ UNCHANGED announceVars

CallManual(t) ==
    /\ Pages!At(t, "idle") /\ \E w \in {{i} : i \in Names} \cup {Names} : CallAnnounce(t, w)
    /\ UNCHANGED pageVars

RequestStep(t) ==
    \/ Pages!FetchStep(t) /\ UNCHANGED announceVars
    \/ CallerStep(t) /\ UNCHANGED pageVars
ThreadOfMonitor == MonitorStep /\ UNCHANGED pageVars
StopThread == Unload /\ UNCHANGED pageVars

Outside ==
    \/ Pages!ReticulumStep /\ UNCHANGED announceVars
    \/ (Tick \/ (\E i \in Names : Change(i)) \/ BeginStop) /\ UNCHANGED pageVars

RuntimeNext ==
    \/ Outside \/ ThreadOfMonitor \/ StopThread
    \/ \E t \in Callers : CallPage(t) \/ CallManual(t) \/ RequestStep(t)

\* Every thread runs, and each of its waits has a timeout; nothing is asked
\* of Reticulum, of the clock or of who makes requests.
RuntimeSpec ==
    /\ RuntimeInit /\ [][RuntimeNext]_allVars
    /\ WF_allVars(ThreadOfMonitor) /\ WF_allVars(StopThread)
    /\ \A t \in Callers : WF_allVars(RequestStep(t))
-----------------------------------------------------------------------------
\* The states of both modules are well formed.
RuntimeTypeOK == TypeOK /\ Pages!TypeOK

\* A fetch that is over leaves no link behind, if it can close it (PageFetch).
NoLinkLeft == Pages!NoLinkLeft

Serving(t) == caller[t].pc # "idle" \/ ~Pages!At(t, "idle")

\* stop() ends whatever the monitor does, and the monitor after it; every
\* request is answered, by page or by error, whatever Reticulum does.
UsersEnd ==
    /\ (stop # "no") ~> (stop = "stopped" /\ monitor.pc = "ended")
    /\ \A t \in Callers : Serving(t) ~> ~Serving(t)
=============================================================================
