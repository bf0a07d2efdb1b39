-------------------------- MODULE RnsRuntime_proofs --------------------------
(***************************************************************************)
(* The links of page fetches and the distance of automatic announces, for  *)
(* any number of HTTP threads, requests, interfaces and candidates.        *)
(***************************************************************************)
EXTENDS RnsRuntime, TLAPS

\* Steps of a fetch before it has opened its link.
Early == {"path", "ask", "await", "recall", "open"}

\* NoLinkLeft is not inductive: a fetch that gives up early must not have
\* opened a link.
LinkInv ==
    /\ DOMAIN fetch = Callers
    /\ link \in [Callers -> {"none", "pending", "open", "closed", "left"}]
    /\ \A t \in Callers :
         /\ fetch[t].pc = "idle" => link[t] \in {"none", "left"}
         /\ fetch[t].pc \in Early => link[t] = "none"

\* A step of one fetch, and what it is to leave.
LEMMA LinkStep ==
    ASSUME LinkInv, NEW t \in Callers,
           DOMAIN fetch' = Callers,
           \A u \in Callers \ {t} : fetch'[u] = fetch[u],
           link' \in [Callers -> {"none", "pending", "open", "closed", "left"}],
           \A u \in Callers \ {t} : link'[u] = link[u],
           fetch'[t].pc = "idle" => link'[t] \in {"none", "left"},
           fetch'[t].pc \in Early => link'[t] = "none"
    PROVE  LinkInv'
BY DEF LinkInv

LEMMA FetchKeeps == ASSUME LinkInv, NEW t \in Callers, Pages!Fetch(t) PROVE LinkInv'
BY LinkStep DEF LinkInv, Pages!Fetch, Pages!At, Pages!Idle, Early

LEMMA FetchStepKeeps == ASSUME LinkInv, NEW t \in Callers, Pages!FetchStep(t) PROVE LinkInv'
<1> USE DEF LinkInv, Early, Pages!At, Pages!Go, Pages!Done, Pages!Idle, Pages!Close
<1>1. CASE Pages!FindPath(t)
    BY <1>1, LinkStep DEF Pages!FindPath
<1>2. CASE Pages!AskPath(t)
    BY <1>2, LinkStep DEF Pages!AskPath
<1>3. CASE Pages!AwaitPath(t)
    BY <1>3, LinkStep DEF Pages!AwaitPath
<1>4. CASE Pages!Recall(t)
    BY <1>4, LinkStep DEF Pages!Recall
<1>5. CASE Pages!OpenLink(t)
    <2>0. fetch[t].pc = "open"
        BY <1>5 DEF Pages!OpenLink
    <2>1. CASE Pages!Done(t) /\ UNCHANGED link
        BY <2>0, <2>1, LinkStep
    <2>2. CASE Pages!Go(t, "establish") /\ link' = [link EXCEPT ![t] = "pending"]
        BY <2>2, LinkStep
    <2> QED
        BY <1>5, <2>1, <2>2 DEF Pages!OpenLink
<1>6. CASE Pages!AwaitLink(t)
    BY <1>6, LinkStep DEF Pages!AwaitLink
<1>7. CASE Pages!AbandonLink(t)
    BY <1>7, LinkStep DEF Pages!AbandonLink
<1>8. CASE Pages!Request(t)
    <2>1. CASE Pages!Go(t, "teardown") /\ UNCHANGED link
        BY <2>1, LinkStep
    <2>2. CASE Pages!Go(t, "answer") /\ UNCHANGED link
        BY <2>2, LinkStep
    <2> QED
        BY <1>8, <2>1, <2>2 DEF Pages!Request
<1>9. CASE Pages!AwaitAnswer(t)
    BY <1>9, LinkStep DEF Pages!AwaitAnswer
<1>10. CASE Pages!Teardown(t)
    BY <1>10, LinkStep DEF Pages!Teardown
<1> QED
    BY <1>1, <1>2, <1>3, <1>4, <1>5, <1>6, <1>7, <1>8, <1>9, <1>10 DEF Pages!FetchStep

\* Reticulum's callbacks come at any time, also for a link given up.
LEMMA ReticulumKeeps == ASSUME LinkInv, Pages!ReticulumStep PROVE LinkInv'
<1>1. CASE Pages!PathComes
    BY <1>1 DEF LinkInv, Pages!PathComes
<1>2. ASSUME NEW t \in Callers, Pages!Established(t) PROVE LinkInv'
    BY <1>2, LinkStep DEF LinkInv, Early, Pages!Established
<1>3. ASSUME NEW t \in Callers, Pages!Closed(t) PROVE LinkInv'
    BY <1>3, LinkStep DEF LinkInv, Early, Pages!Closed
<1> QED
    BY <1>1, <1>2, <1>3 DEF Pages!ReticulumStep
-----------------------------------------------------------------------------
LEMMA LinkNext == LinkInv /\ [RuntimeNext]_allVars => LinkInv'
<1> SUFFICES ASSUME LinkInv, [RuntimeNext]_allVars PROVE LinkInv'
    OBVIOUS
<1>1. ASSUME UNCHANGED pageVars PROVE LinkInv'
    BY <1>1 DEF LinkInv, pageVars
<1>2. CASE Outside
    BY <1>1, <1>2, ReticulumKeeps DEF Outside
<1>3. CASE ThreadOfMonitor \/ StopThread
    BY <1>1, <1>3 DEF ThreadOfMonitor, StopThread
<1>4. ASSUME NEW t \in Callers, CallPage(t) \/ CallManual(t) \/ RequestStep(t) PROVE LinkInv'
    BY <1>1, <1>4, FetchKeeps, FetchStepKeeps DEF CallPage, CallManual, RequestStep
<1>5. CASE UNCHANGED allVars
    BY <1>1, <1>5 DEF allVars
<1> QED
    BY <1>2, <1>3, <1>4, <1>5 DEF RuntimeNext

\* A fetch that is over leaves no link behind (the finally of fetch_page and
\* the teardown in _open_link), whatever Reticulum, its timeouts and stop() do,
\* but for a teardown that raised.
THEOREM LinksClosed == RuntimeSpec => []NoLinkLeft
<1>1. RuntimeInit => LinkInv
    BY DEF RuntimeInit, Pages!Init, Pages!Idle, LinkInv, Early
<1>2. LinkInv => NoLinkLeft
    BY DEF LinkInv, NoLinkLeft, Pages!NoLinkLeft, Pages!At
<1> QED
    BY <1>1, <1>2, LinkNext, PTL DEF RuntimeSpec
-----------------------------------------------------------------------------
(***************************************************************************)
(* The distance of automatic announces.  What the monitor looks at is      *)
(* last, which callers of make_announce write as well; PaceInv says that   *)
(* it is not before the pass of the last automatic announce, except while  *)
(* that one is still to be recorded.                                       *)
(***************************************************************************)
Far(i) == auto[i] # NoAnnounce => monitor.now - auto[i].round >= Interval

IsRound(w) == DOMAIN w = {"pc", "now", "todo"} /\ w.now \in Int /\ w.now <= clock

PaceTypes ==
    /\ clock \in Nat
    /\ IsRound(monitor) /\ DOMAIN caller = Callers /\ \A t \in Callers : IsRound(caller[t])
    /\ last \in [Names -> Int] /\ auto \in [Names -> [sent : Int, round : Int]]

Paced(i) ==
    /\ On(monitor, "record", i) => auto[i] = NoAnnounce \/ auto[i].round = monitor.now
    /\ On(monitor, "send", i) => Far(i)
    /\ ~On(monitor, "record", i) => auto[i] = NoAnnounce \/ auto[i].round <= last[i]

PaceInv == PaceTypes /\ \A i \in Names : Paced(i)

\* A round that begins has the time of the clock.
LEMMA RoundBegins ==
    ASSUME NEW pc, NEW todo, clock \in Nat
    PROVE  IsRound(Round(pc, todo)) /\ Round(pc, todo).pc \in {"idle", pc}
BY DEF Round, Idle, Never, IsRound

\* One that goes on keeps its time.
LEMMA RoundGoesOn ==
    ASSUME NEW pc, NEW w, IsRound(w), clock \in Nat
    PROVE  IsRound(Following(w, pc)) /\ Following(w, pc).pc \in {"idle", pc}
BY DEF Following, Idle, Never, IsRound

\* A round of the monitor begins, ends or goes on with the next interface.
LEMMA MonitorMoves ==
    ASSUME PaceInv, IsRound(monitor'), monitor'.pc \notin {"send", "record"},
           \A i \in Names : ~On(monitor, "record", i), UNCHANGED <<clock, caller, last>>,
           auto' \in [Names -> [sent : Int, round : Int]],
           \A i \in Names : auto'[i] \in {auto[i], NoAnnounce}
    PROVE  PaceInv'
<1>1. PaceTypes'
    BY DEF PaceInv, PaceTypes, IsRound
<1>2. \A i \in Names : Paced(i)'
    BY DEF PaceInv, Paced, On
<1> QED
    BY <1>1, <1>2 DEF PaceInv

\* A record without an announce.
LEMMA NoAnnounceType == NoAnnounce \in [sent : Int, round : Int]
BY DEF NoAnnounce, Never

LEMMA MonitorKeeps == ASSUME PaceInv, MonitorStep PROVE PaceInv'
<1>1. CASE BeginPass
    BY <1>1, RoundBegins, MonitorMoves DEF BeginPass, PaceInv, PaceTypes, On, memory
<1>2. CASE EndMonitor
    <2>1. IsRound(monitor') /\ monitor'.pc = "ended"
        BY <1>2 DEF EndMonitor, Idle, Never, IsRound, PaceInv, PaceTypes
    <2> QED
        BY <1>2, <2>1, MonitorMoves DEF EndMonitor, On, memory, PaceInv, PaceTypes
<1>3. ASSUME NEW i \in Names, Look(i) PROVE PaceInv'
    <2>1. CASE ~(Due(i) /\ ~HeldBack(i))
        BY <1>3, <2>1, RoundGoesOn, MonitorMoves DEF Look, PaceInv, PaceTypes, On
    <2>2. CASE Due(i) /\ ~HeldBack(i)
        <3>1. /\ monitor' = [monitor EXCEPT !.pc = "send"] /\ On(monitor, "look", i)
              /\ UNCHANGED <<clock, caller, last, auto>>
            BY <1>3, <2>2 DEF Look
        <3>2. IsRound(monitor') /\ monitor'.pc = "send" /\ monitor'.now = monitor.now
              /\ monitor'.todo = monitor.todo
            BY <3>1 DEF PaceInv, PaceTypes, IsRound
        <3>3. PaceTypes'
            BY <3>1, <3>2 DEF PaceInv, PaceTypes, IsRound
        <3>4. Far(i)'
            <4>1. monitor.now - last[i] >= Interval /\ (auto[i] = NoAnnounce \/ auto[i].round <= last[i])
                BY <2>2, <3>1, MonitorAssumption DEF HeldBack, PaceInv, PaceTypes, IsRound, Paced, On
            <4> QED
                BY <3>1, <3>2, <4>1, MonitorAssumption DEF Far, PaceInv, PaceTypes, IsRound
        <3>5. \A j \in Names : Paced(j)'
            BY <3>1, <3>2, <3>4 DEF PaceInv, Paced, On, Current
        <3> QED
            BY <3>3, <3>5 DEF PaceInv
    <2> QED
        BY <2>1, <2>2
<1>4. ASSUME NEW i \in Names, MonitorSend(i) PROVE PaceInv'
    <2>1. /\ monitor' = [monitor EXCEPT !.pc = "record"] /\ On(monitor, "send", i)
          /\ auto' = [auto EXCEPT ![i] = [sent |-> clock, round |-> monitor.now]]
          /\ UNCHANGED <<clock, caller, last>>
        BY <1>4 DEF MonitorSend, memory
    <2>2. IsRound(monitor') /\ monitor'.pc = "record" /\ monitor'.now = monitor.now
          /\ monitor'.todo = monitor.todo
        BY <2>1 DEF PaceInv, PaceTypes, IsRound
    <2>3. PaceTypes'
        BY <2>1, <2>2 DEF PaceInv, PaceTypes, IsRound
    <2>4. \A j \in Names : Paced(j)'
        BY <2>1, <2>2 DEF PaceInv, PaceTypes, Paced, On, Current
    <2> QED
        BY <2>3, <2>4 DEF PaceInv
<1>5. ASSUME NEW i \in Names, MonitorSendFails(i) PROVE PaceInv'
    <2>1. IsRound(monitor') /\ monitor'.pc = "idle"
        BY <1>5 DEF MonitorSendFails, Idle, Never, IsRound, PaceInv, PaceTypes
    <2>2. /\ auto' \in [Names -> [sent : Int, round : Int]]
          /\ \A j \in Names : auto'[j] \in {auto[j], NoAnnounce}
        BY <1>5, NoAnnounceType DEF MonitorSendFails, PaceInv, PaceTypes
    <2> QED
        BY <1>5, <2>1, <2>2, MonitorMoves DEF MonitorSendFails, On, memory
<1>6. ASSUME NEW i \in Names, MonitorRecord(i) PROVE PaceInv'
    <2>1. /\ monitor' = Following(monitor, "look") /\ On(monitor, "record", i)
          /\ Record(monitor, i) /\ UNCHANGED <<clock, caller, auto>>
        BY <1>6 DEF MonitorRecord
    <2>2. IsRound(monitor') /\ monitor'.pc \in {"idle", "look"}
        BY <2>1, RoundGoesOn DEF PaceInv, PaceTypes
    <2>3. /\ last' \in [Names -> Int] /\ last'[i] = monitor.now
          /\ \A j \in Names \ {i} : last'[j] = last[j]
        BY <2>1 DEF Record, Recorded, PaceInv, PaceTypes, IsRound
    <2>4. PaceTypes'
        BY <2>1, <2>2, <2>3 DEF PaceInv, PaceTypes, IsRound
    <2>5. \A j \in Names : Paced(j)'
        BY <2>1, <2>2, <2>3 DEF PaceInv, PaceTypes, IsRound, Paced, On
    <2> QED
        BY <2>4, <2>5 DEF PaceInv
<1> QED
    BY <1>1, <1>2, <1>3, <1>4, <1>5, <1>6 DEF MonitorStep

\* A caller of make_announce may put an older time over the one there is.
LEMMA CallerKeeps ==
    ASSUME PaceInv, NEW t \in Callers,
           CallerStep(t) \/ \E w \in {{i} : i \in Names} \cup {Names} : CallAnnounce(t, w)
    PROVE  PaceInv'
<1>1. ASSUME UNCHANGED <<clock, monitor, memory, auto>>, NEW w, IsRound(w),
             caller' = [caller EXCEPT ![t] = w]
      PROVE  PaceInv'
    <2>1. PaceTypes'
        BY <1>1 DEF PaceInv, PaceTypes, IsRound, memory
    <2>2. \A i \in Names : Paced(i)'
        BY <1>1 DEF PaceInv, Paced, Far, On, memory
    <2> QED
        BY <2>1, <2>2 DEF PaceInv
<1>2. CASE CallerSend(t)
    <2>1. IsRound([caller[t] EXCEPT !.pc = "record"])
        BY DEF PaceInv, PaceTypes, IsRound
    <2>2. IsRound(Following(caller[t], "send"))
        BY RoundGoesOn DEF PaceInv, PaceTypes
    <2>3. \/ caller' = [caller EXCEPT ![t] = [caller[t] EXCEPT !.pc = "record"]]
          \/ caller' = [caller EXCEPT ![t] = Following(caller[t], "send")]
        BY <1>2 DEF CallerSend, PaceInv, PaceTypes
    <2> QED
        BY <1>1, <1>2, <2>1, <2>2, <2>3 DEF CallerSend
<1>3. CASE CallerRecord(t)
    <2> DEFINE i == Current(caller[t])
    <2>1. /\ caller' = [caller EXCEPT ![t] = Following(caller[t], "send")]
          /\ Record(caller[t], i) /\ UNCHANGED <<clock, monitor>>
          /\ auto' = IF caller[t].now < auto[i].round THEN [auto EXCEPT ![i] = NoAnnounce] ELSE auto
        BY <1>3 DEF CallerRecord
    <2>2. IsRound(Following(caller[t], "send"))
        BY RoundGoesOn DEF PaceInv, PaceTypes
    <2> HIDE DEF i
    <2>3. CASE i \in Names
        <3>1. /\ last' \in [Names -> Int] /\ last'[i] = caller[t].now
              /\ \A j \in Names \ {i} : last'[j] = last[j]
            BY <2>1, <2>3 DEF Record, Recorded, PaceInv, PaceTypes, IsRound
        <3>4. /\ auto' \in [Names -> [sent : Int, round : Int]]
              /\ \A j \in Names \ {i} : auto'[j] = auto[j]
              /\ auto'[i] = NoAnnounce \/ (auto'[i] = auto[i] /\ auto[i].round <= caller[t].now)
            BY <2>1, <2>3, NoAnnounceType DEF PaceInv, PaceTypes, IsRound
        <3>2. PaceTypes'
            BY <2>1, <2>2, <3>1, <3>4 DEF PaceInv, PaceTypes, IsRound
        <3>3. \A j \in Names : Paced(j)'
            BY <2>1, <3>1, <3>4 DEF PaceInv, PaceTypes, IsRound, Paced, Far, On
        <3> QED
            BY <3>2, <3>3 DEF PaceInv
    <2>4. CASE i \notin Names
        <3>1. UNCHANGED <<last, auto>>
            BY <2>1, <2>4 DEF Record, PaceInv, PaceTypes
        <3> QED
            BY <1>1, <1>3, <2>1, <2>2, <3>1 DEF CallerRecord, memory
    <2> QED
        BY <2>3, <2>4
<1>4. ASSUME NEW w, CallAnnounce(t, w) PROVE PaceInv'
    <2>1. PICK todo : caller' = [caller EXCEPT ![t] = Round("send", todo)]
        BY <1>4 DEF CallAnnounce
    <2>2. IsRound(Round("send", todo))
        BY RoundBegins DEF PaceInv, PaceTypes
    <2> QED
        BY <1>1, <1>4, <2>1, <2>2 DEF CallAnnounce
<1> QED
    BY <1>2, <1>3, <1>4 DEF CallerStep

LEMMA PaceNext == PaceInv /\ [RuntimeNext]_allVars => PaceInv'
<1> SUFFICES ASSUME PaceInv, [RuntimeNext]_allVars PROVE PaceInv'
    OBVIOUS
<1>1. ASSUME UNCHANGED <<monitor, caller, last, auto>>, clock' \in Nat, clock <= clock' PROVE PaceInv'
    BY <1>1 DEF PaceInv, PaceTypes, IsRound, Paced, Far, On
<1>2. CASE Outside
    <2>1. clock' \in Nat /\ clock <= clock'
        BY <1>2 DEF Outside, PaceInv, PaceTypes, Tick, Change, BeginStop, announceVars
    <2> QED
        BY <1>1, <1>2, <2>1 DEF Outside, Tick, Change, BeginStop, announceVars, memory
<1>3. CASE ThreadOfMonitor
    BY <1>3, MonitorKeeps DEF ThreadOfMonitor
<1>4. CASE StopThread
    BY <1>1, <1>4 DEF StopThread, Unload, memory, PaceInv, PaceTypes
<1>5. ASSUME NEW t \in Callers, CallPage(t) \/ CallManual(t) \/ RequestStep(t) PROVE PaceInv'
    <2>1. CASE UNCHANGED announceVars
        BY <1>1, <2>1 DEF announceVars, memory, PaceInv, PaceTypes
    <2>2. CASE CallManual(t) \/ CallerStep(t)
        BY <2>2, CallerKeeps DEF CallManual
    <2> QED
        BY <1>5, <2>1, <2>2 DEF CallPage, RequestStep
<1>6. CASE UNCHANGED allVars
    BY <1>1, <1>6 DEF allVars, vars, memory, PaceInv, PaceTypes
<1> QED
    BY <1>2, <1>3, <1>4, <1>5, <1>6 DEF RuntimeNext

\* Automatic announces of an interface keep their distance (the interval of
\* _announce_changed_interfaces, less what the pass of the earlier one took to
\* come to it), however often its connection changes and whoever announces it
\* by hand meanwhile, unless the time kept is older than the earlier announce.
THEOREM AlwaysPaced == RuntimeSpec => AnnouncesPaced
<1>1. RuntimeInit => PaceInv
    BY MonitorAssumption DEF RuntimeInit, Init, Idle, Never, NoAnnounce, PaceInv, PaceTypes, IsRound, Paced, On
<1>2. PaceInv /\ [RuntimeNext]_allVars =>
          [\A i \in Names :
              On(monitor, "send", i) /\ monitor' # monitor /\ auto[i] # NoAnnounce
                  => clock - auto[i].sent >= Interval - Late(i)]_vars
    BY MonitorAssumption DEF PaceInv, PaceTypes, IsRound, Paced, Far, Late
<1> QED
    BY <1>1, <1>2, PaceNext, PTL DEF RuntimeSpec, AnnouncesPaced
-----------------------------------------------------------------------------
(***************************************************************************)
(* Type correctness.  Every change makes at most one new version, so that  *)
(* their number bounds the versions.                                       *)
(***************************************************************************)
RoundType(w) ==
    /\ w.pc \in {"idle", "look", "send", "record", "ended"}
    /\ w.now \in 0 .. clock /\ w.todo \subseteq DOMAIN Interfaces
    /\ w.pc \in {"look", "send", "record"} => w.todo # {}
    /\ DOMAIN w = {"pc", "now", "todo"}

VersionsCounted == \A i \in Names : version[i] <= changes + 1

\* What is written to by the threads.
ThreadTypes ==
    /\ seen \in [Names -> Signatures] /\ \A i \in Names : seen[i] <= version[i]
    /\ last \in [Names -> Times] /\ \A i \in Names : last[i] <= clock
    /\ RoundType(monitor) /\ DOMAIN caller = Callers /\ \A t \in Callers : RoundType(caller[t])
    /\ auto \in [Names -> [sent : Times, round : Times]]
    /\ \A i \in Names : auto[i].round <= auto[i].sent /\ auto[i].sent <= clock

\* What is written to from outside.
OutsideTypes ==
    /\ clock \in Times /\ changes \in 0 .. MaxChanges /\ calls \in 0 .. MaxCalls
    /\ online \in [Names -> BOOLEAN] /\ version \in [Names -> Versions]
    /\ loaded \in BOOLEAN /\ stop \in {"no", "joining", "stopped"}
    /\ VersionsCounted

RuntimeTypeInv == OutsideTypes /\ ThreadTypes /\ Pages!TypeOK

LEMMA RoundTypeBegins ==
    ASSUME NEW pc \in {"look", "send"}, NEW todo \in SUBSET DOMAIN Interfaces, clock \in Nat
    PROVE  RoundType(Round(pc, todo))
BY DEF RoundType, Round, Idle, Never

LEMMA RoundTypeGoesOn ==
    ASSUME NEW pc \in {"look", "send"}, NEW w, RoundType(w), clock \in Nat
    PROVE  RoundType(Following(w, pc))
<1>1. RoundType(Idle)
    BY DEF RoundType, Idle, Never
<1>2. Rest(w.todo) \subseteq DOMAIN Interfaces
    BY DEF RoundType, Rest
<1>3. Rest(w.todo) # {} => RoundType([w EXCEPT !.pc = pc, !.todo = Rest(w.todo)])
    BY <1>2 DEF RoundType
<1> QED
    BY <1>1, <1>3 DEF Following

\* One that takes its next step with the same interface.
LEMMA RoundTypeTurns ==
    ASSUME NEW pc \in {"send", "record"}, NEW w, RoundType(w), w.pc \in {"look", "send"}
    PROVE  RoundType([w EXCEPT !.pc = pc])
BY DEF RoundType

LEMMA RecordTypes ==
    ASSUME OutsideTypes, ThreadTypes, NEW w, RoundType(w), NEW i, Record(w, i)
    PROVE  last' \in [Names -> Times] /\ \A j \in Names : last'[j] <= clock
<1>1. clock \in Nat /\ w.now \in Times /\ w.now <= clock
    BY MonitorAssumption DEF OutsideTypes, RoundType, Times
<1>2. last' = [last EXCEPT ![i] = w.now]
    BY DEF Record, Recorded
<1> QED
    BY <1>1, <1>2 DEF ThreadTypes

\* The history when it is changed for one interface.
LEMMA HistoryTypes ==
    ASSUME OutsideTypes, ThreadTypes, NEW i, NEW e \in [sent : Times, round : Times],
           e.round <= e.sent, e.sent <= clock, auto' = [auto EXCEPT ![i] = e]
    PROVE  /\ auto' \in [Names -> [sent : Times, round : Times]]
           /\ \A j \in Names : auto'[j].round <= auto'[j].sent /\ auto'[j].sent <= clock
BY DEF ThreadTypes

LEMMA NoAnnounceTypes ==
    ASSUME OutsideTypes, ThreadTypes, NEW i, auto' = [auto EXCEPT ![i] = NoAnnounce]
    PROVE  /\ auto' \in [Names -> [sent : Times, round : Times]]
           /\ \A j \in Names : auto'[j].round <= auto'[j].sent /\ auto'[j].sent <= clock
<1>1. /\ NoAnnounce \in [sent : Times, round : Times]
      /\ NoAnnounce.round <= NoAnnounce.sent /\ NoAnnounce.sent <= clock
    BY MonitorAssumption DEF NoAnnounce, Never, Times, OutsideTypes
<1> QED
    BY <1>1, HistoryTypes

LEMMA SelectedTypes == Selected \subseteq DOMAIN Interfaces
BY DEF Selected

\* A thread whose round is still well formed, and that may have recorded.
LEMMA ThreadsMove ==
    ASSUME OutsideTypes, ThreadTypes, UNCHANGED <<clock, version>>,
           RoundType(monitor)', DOMAIN caller' = Callers, \A t \in Callers : RoundType(caller[t])',
           seen' \in [Names -> Signatures], \A i \in Names : seen'[i] <= version[i],
           last' \in [Names -> Times], \A i \in Names : last'[i] <= clock,
           auto' \in [Names -> [sent : Times, round : Times]],
           \A i \in Names : auto'[i].round <= auto'[i].sent /\ auto'[i].sent <= clock
    PROVE  ThreadTypes'
BY DEF ThreadTypes

LEMMA MonitorTypes ==
    ASSUME OutsideTypes, ThreadTypes, MonitorStep PROVE OutsideTypes' /\ ThreadTypes'
<1>1. clock \in Nat /\ monitor.now \in Times
    BY MonitorAssumption DEF OutsideTypes, ThreadTypes, RoundType, Times
<1>2. UNCHANGED <<clock, links, calls, loaded, stop, caller>>
    BY DEF MonitorStep, BeginPass, EndMonitor, Look, MonitorSend, MonitorSendFails, MonitorRecord
<1>3. OutsideTypes'
    BY <1>2 DEF OutsideTypes, VersionsCounted, links
<1>4. /\ DOMAIN caller' = Callers /\ \A t \in Callers : RoundType(caller[t])'
      /\ RoundType(monitor) /\ UNCHANGED version
    BY <1>2 DEF ThreadTypes, RoundType, links
<1>5. ASSUME UNCHANGED <<memory, auto>>, RoundType(monitor)' PROVE ThreadTypes'
    BY <1>2, <1>4, <1>5, ThreadsMove DEF ThreadTypes, memory
<1>6. CASE BeginPass
    <2>1. RoundType(Round("look", Selected))
        BY <1>1, SelectedTypes, RoundTypeBegins
    <2>2. RoundType(monitor)'
        BY <1>2, <1>6, <2>1 DEF BeginPass, RoundType
    <2> QED
        BY <1>3, <1>5, <1>6, <2>2 DEF BeginPass
<1>7. CASE EndMonitor
    <2>1. RoundType(monitor)'
        BY <1>1, <1>2, <1>7 DEF EndMonitor, RoundType, Idle, Never
    <2> QED
        BY <1>3, <1>5, <1>7, <2>1 DEF EndMonitor
<1>8. ASSUME NEW i \in Names, Look(i) PROVE ThreadTypes'
    <2>1. Signature(i) \in Signatures /\ Signature(i) <= version[i]
        BY MonitorAssumption DEF Signature, Signatures, OutsideTypes, Versions
    <2>2. seen' = [seen EXCEPT ![i] = Signature(i)] /\ UNCHANGED <<last, auto>>
        BY <1>8 DEF Look
    <2>3. seen' \in [Names -> Signatures] /\ \A j \in Names : seen'[j] <= version[j]
        BY <2>1, <2>2 DEF ThreadTypes
    <2>4. monitor.pc = "look"
        BY <1>8 DEF Look, On
    <2>5. RoundType([monitor EXCEPT !.pc = "send"]) /\ RoundType(Following(monitor, "look"))
        BY <1>1, <1>4, <2>4, RoundTypeTurns, RoundTypeGoesOn
    <2>6. RoundType(monitor)'
        BY <1>2, <1>8, <2>5 DEF Look, RoundType
    <2> QED
        BY <1>2, <1>4, <2>2, <2>3, <2>6, ThreadsMove DEF ThreadTypes
<1>9. ASSUME NEW i \in Names, MonitorSend(i) PROVE ThreadTypes'
    <2>1. monitor.pc = "send" /\ monitor' = [monitor EXCEPT !.pc = "record"]
        BY <1>9 DEF MonitorSend, On
    <2>2. RoundType(monitor)'
        BY <1>2, <1>4, <2>1, RoundTypeTurns DEF RoundType
    <2>3. /\ auto' = [auto EXCEPT ![i] = [sent |-> clock, round |-> monitor.now]]
          /\ UNCHANGED <<seen, last>>
        BY <1>9 DEF MonitorSend, memory
    <2>4. /\ auto' \in [Names -> [sent : Times, round : Times]]
          /\ \A j \in Names : auto'[j].round <= auto'[j].sent /\ auto'[j].sent <= clock
        <3> DEFINE e == [sent |-> clock, round |-> monitor.now]
        <3>1. /\ e \in [sent : Times, round : Times]
              /\ e.round <= e.sent /\ e.sent <= clock
            BY <1>1, <1>4 DEF OutsideTypes, RoundType
        <3>2. auto' = [auto EXCEPT ![i] = e]
            BY <2>3
        <3> HIDE DEF e
        <3> QED
            BY <3>1, <3>2, HistoryTypes
    <2> QED
        BY <1>2, <1>4, <2>2, <2>3, <2>4, ThreadsMove DEF ThreadTypes
<1>10. ASSUME NEW i \in Names, MonitorSendFails(i) PROVE ThreadTypes'
    <2>1. RoundType(monitor)'
        BY <1>1, <1>2, <1>10 DEF MonitorSendFails, RoundType, Idle, Never
    <2>2. CASE UNCHANGED auto
        BY <1>5, <1>10, <2>1, <2>2 DEF MonitorSendFails
    <2>3. CASE auto' = [auto EXCEPT ![i] = NoAnnounce]
        <3>1. /\ auto' \in [Names -> [sent : Times, round : Times]]
              /\ \A j \in Names : auto'[j].round <= auto'[j].sent /\ auto'[j].sent <= clock
            BY <2>3, NoAnnounceTypes
        <3>2. UNCHANGED <<seen, last>>
            BY <1>10 DEF MonitorSendFails, memory
        <3> QED
            BY <1>2, <1>4, <2>1, <3>1, <3>2, ThreadsMove DEF ThreadTypes
    <2> QED
        BY <1>10, <2>2, <2>3 DEF MonitorSendFails
<1>11. ASSUME NEW i \in Names, MonitorRecord(i) PROVE ThreadTypes'
    <2>1. Record(monitor, i) /\ monitor' = Following(monitor, "look") /\ UNCHANGED <<seen, auto>>
        BY <1>11 DEF MonitorRecord
    <2>2. RoundType(Following(monitor, "look"))
        BY <1>1, <1>4, RoundTypeGoesOn
    <2>3. RoundType(monitor)'
        BY <1>2, <2>1, <2>2 DEF RoundType
    <2> QED
        BY <1>2, <1>4, <2>1, <2>3, RecordTypes, ThreadsMove DEF ThreadTypes
<1> QED
    BY <1>3, <1>6, <1>7, <1>8, <1>9, <1>10, <1>11 DEF MonitorStep

LEMMA CallerTypes ==
    ASSUME OutsideTypes, ThreadTypes, NEW t \in Callers,
           CallerStep(t) \/ \E w \in {{i} : i \in Names} \cup {Names} : CallAnnounce(t, w)
    PROVE  OutsideTypes' /\ ThreadTypes'
<1>1. clock \in Nat /\ RoundType(caller[t])
    BY MonitorAssumption DEF OutsideTypes, ThreadTypes, Times
<1>2. UNCHANGED <<clock, links, loaded, stop, seen, monitor>>
    BY DEF CallerStep, CallerSend, CallerRecord, CallAnnounce, memory
<1>3. calls' \in 0 .. MaxCalls
    <2>1. CASE CallerStep(t)
        BY <2>1 DEF CallerStep, CallerSend, CallerRecord, OutsideTypes
    <2>2. ASSUME NEW w, CallAnnounce(t, w) PROVE calls' \in 0 .. MaxCalls
        BY <2>2, MonitorAssumption DEF CallAnnounce, OutsideTypes
    <2> QED
        BY <2>1, <2>2
<1>4. OutsideTypes'
    BY <1>2, <1>3 DEF OutsideTypes, VersionsCounted, links
<1>5. ASSUME NEW w, RoundType(w), caller' = [caller EXCEPT ![t] = w],
             last' \in [Names -> Times], \A i \in Names : last'[i] <= clock,
             auto' \in [Names -> [sent : Times, round : Times]],
             \A i \in Names : auto'[i].round <= auto'[i].sent /\ auto'[i].sent <= clock
      PROVE  ThreadTypes'
    <2>1. RoundType(monitor)' /\ DOMAIN caller' = Callers /\ \A u \in Callers : RoundType(caller[u])'
        BY <1>2, <1>5 DEF ThreadTypes, RoundType
    <2> QED
        BY <1>2, <1>5, <2>1, ThreadsMove DEF ThreadTypes, links
<1>6. ASSUME NEW w, RoundType(w), caller' = [caller EXCEPT ![t] = w], UNCHANGED <<last, auto>>
      PROVE  ThreadTypes'
    BY <1>5, <1>6 DEF ThreadTypes
<1>7. CASE CallerSend(t)
    <2>1. RoundType([caller[t] EXCEPT !.pc = "record"]) /\ RoundType(Following(caller[t], "send"))
        BY <1>1, <1>7, RoundTypeTurns, RoundTypeGoesOn DEF CallerSend
    <2>2. \/ caller' = [caller EXCEPT ![t] = [caller[t] EXCEPT !.pc = "record"]]
          \/ caller' = [caller EXCEPT ![t] = Following(caller[t], "send")]
        BY <1>7 DEF CallerSend, ThreadTypes
    <2> QED
        BY <1>4, <1>6, <1>7, <2>1, <2>2 DEF CallerSend, memory
<1>8. CASE CallerRecord(t)
    <2>1. RoundType(Following(caller[t], "send"))
        BY <1>1, RoundTypeGoesOn
    <2> QED
        <3> DEFINE i == Current(caller[t])
        <3>1. /\ auto' \in [Names -> [sent : Times, round : Times]]
              /\ \A j \in Names : auto'[j].round <= auto'[j].sent /\ auto'[j].sent <= clock
            <4>1. auto' = auto \/ auto' = [auto EXCEPT ![i] = NoAnnounce]
                BY <1>8 DEF CallerRecord
            <4> HIDE DEF i
            <4>2. CASE auto' = auto
                BY <4>2 DEF ThreadTypes
            <4>3. CASE auto' = [auto EXCEPT ![i] = NoAnnounce]
                BY <4>3, NoAnnounceTypes
            <4> QED
                BY <4>1, <4>2, <4>3
        <3>2. Record(caller[t], i) /\ caller' = [caller EXCEPT ![t] = Following(caller[t], "send")]
            BY <1>8 DEF CallerRecord
        <3> HIDE DEF i
        <3> QED
            BY <1>1, <1>4, <1>5, <2>1, <3>1, <3>2, RecordTypes
<1>9. ASSUME NEW wanted, CallAnnounce(t, wanted) PROVE ThreadTypes'
    <2> DEFINE todo == {k \in Selected : Interfaces[k] \in wanted}
    <2>1. RoundType(Round("send", todo))
        BY <1>1, SelectedTypes, RoundTypeBegins
    <2> QED
        BY <1>6, <1>9, <2>1 DEF CallAnnounce, memory
<1> QED
    BY <1>4, <1>7, <1>8, <1>9 DEF CallerStep

\* The time goes on, connections change and stop() begins and ends.
LEMMA OutsideKeeps ==
    ASSUME OutsideTypes, ThreadTypes,
           Tick \/ (\E i \in Names : Change(i)) \/ BeginStop \/ Unload
    PROVE  OutsideTypes' /\ ThreadTypes'
<1>1. UNCHANGED <<memory, monitor, caller, auto>>
    BY DEF Tick, Change, BeginStop, Unload
<1>2. CASE Tick
    <2>1. clock' \in Times /\ clock' = clock + 1 /\ clock \in Nat
        BY <1>2, MonitorAssumption DEF Tick, OutsideTypes, Times
    <2>2. OutsideTypes'
        BY <1>2, <2>1 DEF Tick, OutsideTypes, VersionsCounted, links
    <2>3. \A w : RoundType(w) => RoundType(w)'
        BY <2>1 DEF RoundType
    <2>4. \A i \in Names : last[i] <= clock'
        BY <2>1 DEF ThreadTypes, Times
    <2>5. \A i \in Names : auto[i].sent <= clock'
        BY <2>1 DEF ThreadTypes, Times
    <2>6. ThreadTypes'
        BY <1>1, <1>2, <2>3, <2>4, <2>5 DEF Tick, ThreadTypes, links, memory
    <2> QED
        BY <2>2, <2>6
<1>3. ASSUME NEW i \in Names, Change(i) PROVE OutsideTypes' /\ ThreadTypes'
    <2>1. /\ changes' = changes + 1 /\ changes' \in 0 .. MaxChanges
          /\ UNCHANGED <<clock, calls, loaded, stop>>
        BY <1>3, MonitorAssumption DEF Change, OutsideTypes
    <2>2. \/ online' = [online EXCEPT ![i] = ~online[i]] /\ UNCHANGED version
          \/ version' = [version EXCEPT ![i] = version[i] + 1] /\ UNCHANGED online
        BY <1>3 DEF Change
    <2>3. online' \in [Names -> BOOLEAN]
        <3>1. (~online[i]) \in BOOLEAN
            OBVIOUS
        <3> QED
            BY <2>2, <3>1 DEF OutsideTypes
    <2>4. version[i] + 1 \in Versions
        BY <1>3, MonitorAssumption DEF Change, OutsideTypes, VersionsCounted, Versions
    <2>5. version' \in [Names -> Versions] /\ \A j \in Names : version'[j] \in {version[j], version[j] + 1}
        BY <2>2, <2>4 DEF OutsideTypes
    <2>6. \A j \in Names : version[j] <= version'[j] /\ version'[j] <= changes' + 1
        BY <2>1, <2>5, MonitorAssumption DEF OutsideTypes, VersionsCounted, Versions
    <2>7. OutsideTypes'
        BY <2>1, <2>3, <2>5, <2>6 DEF OutsideTypes, VersionsCounted
    <2>8. \A j \in Names : seen[j] <= version'[j]
        BY <2>5, <2>6, MonitorAssumption DEF ThreadTypes, OutsideTypes, Signatures, Versions, Nothing
    <2>9. ThreadTypes'
        BY <1>1, <2>1, <2>8 DEF ThreadTypes, RoundType, memory
    <2> QED
        BY <2>7, <2>9
<1>4. CASE BeginStop \/ Unload
    BY <1>1, <1>4 DEF BeginStop, Unload, OutsideTypes, ThreadTypes, VersionsCounted, RoundType,
                      links, memory
<1> QED
    BY <1>2, <1>3, <1>4

LEMMA PagesKeep ==
    ASSUME Pages!TypeOK, Pages!ReticulumStep \/ \E t \in Callers : Pages!Fetch(t) \/ Pages!FetchStep(t)
    PROVE  Pages!TypeOK' /\ UNCHANGED loaded
<1> USE MonitorAssumption, RuntimeAssumption
        DEF Pages!TypeOK, Pages!At, Pages!Go, Pages!Done, Pages!Idle, Pages!Close
<1>1. CASE Pages!ReticulumStep
    BY <1>1 DEF Pages!ReticulumStep, Pages!PathComes, Pages!Established, Pages!Closed
<1>2. ASSUME NEW t \in Callers, Pages!Fetch(t) PROVE Pages!TypeOK' /\ UNCHANGED loaded
    <2>1. calls' \in 0 .. MaxCalls /\ UNCHANGED <<loaded, path>>
        BY <1>2 DEF Pages!Fetch
    <2>2. /\ link' \in [Callers -> {"none", "pending", "open", "closed", "left"}]
          /\ established' \in [Callers -> BOOLEAN]
        BY <1>2 DEF Pages!Fetch
    <2>3. \/ UNCHANGED fetch
          \/ fetch' = [fetch EXCEPT ![t] = [pc |-> "path", left |-> Candidates]]
        <3>1. [Pages!Idle EXCEPT !.pc = "path", !.left = Candidates]
                  = [pc |-> "path", left |-> Candidates]
            <4>1. [Pages!Idle EXCEPT !.pc = "path", !.left = Candidates]
                      = [[Pages!Idle EXCEPT !.pc = "path"] EXCEPT !.left = Candidates]
                OBVIOUS
            <4>2. [Pages!Idle EXCEPT !.pc = "path"] = [pc |-> "path", left |-> 0]
                OBVIOUS
            <4>3. [[pc |-> "path", left |-> 0] EXCEPT !.left = Candidates] = [pc |-> "path", left |-> Candidates]
                OBVIOUS
            <4> QED
                BY <4>1, <4>2, <4>3
        <3>2. \/ UNCHANGED fetch
              \/ fetch' = [fetch EXCEPT ![t] = [Pages!Idle EXCEPT !.pc = "path", !.left = Candidates]]
            BY <1>2 DEF Pages!Fetch
        <3> QED
            BY <3>1, <3>2
    <2> QED
        BY <2>1, <2>2, <2>3
<1>3. ASSUME NEW t \in Callers, Pages!FetchStep(t) PROVE Pages!TypeOK' /\ UNCHANGED loaded
    <2>1. CASE Pages!FindPath(t)
        BY <2>1 DEF Pages!FindPath
    <2>2. CASE Pages!AskPath(t)
        BY <2>2 DEF Pages!AskPath
    <2>3. CASE Pages!AwaitPath(t)
        BY <2>3 DEF Pages!AwaitPath
    <2>4. CASE Pages!Recall(t) \/ Pages!AwaitLink(t) \/ Pages!Request(t) \/ Pages!AwaitAnswer(t)
        BY <2>4 DEF Pages!Recall, Pages!AwaitLink, Pages!Request, Pages!AwaitAnswer
    <2>5. CASE Pages!OpenLink(t)
        <3>1. link' = link \/ link' = [link EXCEPT ![t] = "pending"]
            BY <2>5 DEF Pages!OpenLink
        <3>2. link' \in [Callers -> {"none", "pending", "open", "closed", "left"}]
            BY <3>1
        <3> QED
            BY <2>5, <3>2 DEF Pages!OpenLink
    <2>6. CASE Pages!AbandonLink(t) \/ Pages!Teardown(t)
        <3>1. PICK l \in {"none", "left"} : link' = [link EXCEPT ![t] = l]
            BY <2>6 DEF Pages!AbandonLink, Pages!Teardown
        <3>2. link' \in [Callers -> {"none", "pending", "open", "closed", "left"}]
            BY <3>1
        <3>3. /\ established' = [established EXCEPT ![t] = FALSE]
              /\ fetch' = [fetch EXCEPT ![t] = [pc |-> "idle", left |-> 0]]
              /\ UNCHANGED <<loaded, path, calls>>
            BY <2>6 DEF Pages!AbandonLink, Pages!Teardown
        <3> QED
            BY <3>2, <3>3
    <2> QED
        BY <1>3, <2>1, <2>2, <2>3, <2>4, <2>5, <2>6 DEF Pages!FetchStep
<1> QED
    BY <1>1, <1>2, <1>3

LEMMA RuntimeTypeNext == RuntimeTypeInv /\ [RuntimeNext]_allVars => RuntimeTypeInv'
<1> SUFFICES ASSUME RuntimeTypeInv, [RuntimeNext]_allVars PROVE RuntimeTypeInv'
    OBVIOUS
<1>1. ASSUME Pages!ReticulumStep \/ \E t \in Callers : Pages!Fetch(t) \/ Pages!FetchStep(t),
             UNCHANGED announceVars
      PROVE  RuntimeTypeInv'
    <2>1. Pages!TypeOK' /\ UNCHANGED loaded
        BY <1>1, PagesKeep DEF RuntimeTypeInv
    <2>2. calls' \in 0 .. MaxCalls
        BY <2>1 DEF Pages!TypeOK
    <2>3. OutsideTypes' /\ ThreadTypes'
        BY <1>1, <2>1, <2>2 DEF RuntimeTypeInv, OutsideTypes, ThreadTypes, VersionsCounted, RoundType,
                                announceVars, links, memory
    <2> QED
        BY <2>1, <2>3 DEF RuntimeTypeInv
<1>2. ASSUME OutsideTypes', ThreadTypes', UNCHANGED pageVars PROVE RuntimeTypeInv'
    <2>1. Pages!TypeOK'
        BY <1>2 DEF RuntimeTypeInv, OutsideTypes, Pages!TypeOK, pageVars
    <2> QED
        BY <1>2, <2>1 DEF RuntimeTypeInv
<1>3. CASE Outside
    BY <1>1, <1>2, <1>3, OutsideKeeps DEF Outside, RuntimeTypeInv
<1>4. CASE ThreadOfMonitor
    BY <1>2, <1>4, MonitorTypes DEF ThreadOfMonitor, RuntimeTypeInv
<1>5. CASE StopThread
    BY <1>2, <1>5, OutsideKeeps DEF StopThread, RuntimeTypeInv
<1>6. ASSUME NEW t \in Callers, CallPage(t) \/ CallManual(t) \/ RequestStep(t) PROVE RuntimeTypeInv'
    BY <1>1, <1>2, <1>6, CallerTypes DEF CallPage, CallManual, RequestStep, RuntimeTypeInv
<1>7. CASE UNCHANGED allVars
    BY <1>7 DEF RuntimeTypeInv, OutsideTypes, ThreadTypes, VersionsCounted, RoundType, Pages!TypeOK,
                allVars, vars, links, memory, pageVars
<1> QED
    BY <1>3, <1>4, <1>5, <1>6, <1>7 DEF RuntimeNext

\* The states of the monitor, of the callers of make_announce and of the page
\* fetches are well formed: a thread that has an interface at hand has one
\* left to do, no time is ahead of the clock, and what the monitor has seen
\* is not newer than the connection.
THEOREM RuntimeTypes == RuntimeSpec => []RuntimeTypeOK
<1>1. RuntimeInit => RuntimeTypeInv
    <2> SUFFICES ASSUME RuntimeInit PROVE RuntimeTypeInv
        OBVIOUS
    <2>1. OutsideTypes
        BY MonitorAssumption DEF RuntimeInit, Init, OutsideTypes, Times, Versions, VersionsCounted
    <2>2. ThreadTypes
        BY MonitorAssumption DEF RuntimeInit, Init, Idle, Never, NoAnnounce, Nothing, ThreadTypes, RoundType, Times,
                                 Signatures
    <2>3. Pages!TypeOK
        <3>1. loaded = TRUE /\ path = FALSE /\ calls = 0
            BY DEF RuntimeInit, Init, Pages!Init
        <3>2. /\ fetch = [t \in Callers |-> [pc |-> "idle", left |-> 0]]
              /\ link = [t \in Callers |-> "none"] /\ established = [t \in Callers |-> FALSE]
            BY DEF RuntimeInit, Pages!Init, Pages!Idle
        <3> QED
            <4>0. loaded \in BOOLEAN /\ path \in BOOLEAN
                BY <3>1
            <4>1. calls \in 0 .. MaxCalls
                BY <3>1, MonitorAssumption
            <4>2. [pc |-> "idle", left |-> 0] \in
                      [pc : {"idle", "path", "ask", "await", "recall", "open", "establish",
                             "abandon", "request", "answer", "teardown"}, left : 0 .. Candidates]
                BY RuntimeAssumption
            <4>3. link \in [Callers -> {"none", "pending", "open", "closed", "left"}]
                BY <3>2
            <4>4. established \in [Callers -> BOOLEAN]
                BY <3>2
            <4> QED
                BY <3>2, <4>0, <4>1, <4>2, <4>3, <4>4 DEF Pages!TypeOK
    <2> QED
        BY <2>1, <2>2, <2>3 DEF RuntimeTypeInv
<1>2. RuntimeTypeInv => RuntimeTypeOK
    BY DEF RuntimeTypeInv, OutsideTypes, ThreadTypes, RoundType, RuntimeTypeOK, TypeOK
<1> QED
    BY <1>1, <1>2, RuntimeTypeNext, PTL DEF RuntimeSpec
=============================================================================
