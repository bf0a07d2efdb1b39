-------------------------- MODULE EngineLifecycle ---------------------------
(***************************************************************************)
(* Who starts and stops the engine and the LXMF worker processes.          *)
(* EngineSupervisor (controller/engine_supervisor.py) keeps the engine,    *)
(* EngineMain (engine/engine_main.py) one LxmfProcessManager               *)
(* (engine/lxmf_process_manager.py) with the table _workers, and each      *)
(* worker (engine/lxmf_worker.py) a control thread that takes commands.    *)
(* Nothing is locked: the thread that starts the application and every     *)
(* HTTP thread call them at the same time.                                 *)
(*                                                                         *)
(* A thread has a plan: the calls it has still to make.  A call that makes *)
(* others is replaced by them; one that touches shared state is one step.  *)
(***************************************************************************)
EXTENDS Integers, Sequences, FiniteSets, SequencesExt

CONSTANTS Threads, Starter,   \* Starter runs app.start first
          Identities, Enabled,
          MaxProcesses,   \* bound: worker processes created
          MaxEngines,     \* bound: EngineMain objects created
          MaxOps,         \* bound: requests to the HTTP server
          MaxFailures     \* bound: starts of RNS or of a worker that fail

ASSUME LifecycleAssumption ==
    /\ Starter \in Threads /\ Enabled \subseteq Identities
    /\ IsFiniteSet(Identities)
    /\ MaxProcesses \in Nat /\ MaxEngines \in Nat /\ MaxOps \in Nat /\ MaxFailures \in Nat

NoEngine == 0
Engines == 1 .. MaxEngines
NoProcess == 0
Processes == 1 .. MaxProcesses

VARIABLES
    engine,    \* EngineSupervisor.engine
    created,   \* EngineMain objects so far
    rns,       \* RnsRuntime of each engine runs
    workers,   \* _workers of each engine's process manager
    process,   \* the worker processes, in the order of their creation
    plan,      \* what each thread has still to do
    doing,     \* the request each thread serves
    spent,     \* how much of each bound was used
    raced,     \* history: requests that may start a worker overlapped others
    failed,    \* history: a start of RNS or of a worker failed
    before     \* history: identities whose worker ran when a restart of
               \* Reticulum began and has not ended by itself since

vars == <<engine, created, rns, workers, process, plan, doing, spent, raced, failed, before>>

Call == [do : {"create", "replace", "halt", "clear", "launch", "rnsStart", "rnsStop",
               "enabled", "remember", "saved", "start", "stop", "restart",
               "check", "pop", "spawn", "register", "find", "ask", "await", "forget"},
         e : {NoEngine} \cup Engines,
         ids : SUBSET Identities,
         p : Processes \cup {NoProcess},
         safe : BOOLEAN]

A(do) == [do |-> do, e |-> NoEngine, ids |-> {}, p |-> NoProcess, safe |-> FALSE]
On(do, e, i) == [A(do) EXCEPT !.e = e, !.ids = {i}]
With(do, e, i, p) == [A(do) EXCEPT !.e = e, !.ids = {i}, !.p = p]
IdOf(c) == CHOOSE i \in c.ids : TRUE

Idle == [op |-> "none", ids |-> {}]
Request == [op : {"none", "startEngine", "stopEngine", "restart", "restartReticulum",
                  "start", "stop", "restartWorker"}, ids : SUBSET Identities]

NoWorkers == [i \in Identities |-> NoProcess]
Alive(p) == p # NoProcess /\ process[p].at # "exited"
Entries(e) == {i \in Identities : workers[e][i] # NoProcess}

TypeOK ==
    /\ engine \in {NoEngine} \cup Engines /\ created \in 0 .. MaxEngines /\ engine <= created
    /\ rns \in [Engines -> BOOLEAN]
    /\ workers \in [Engines -> [Identities -> {NoProcess} \cup DOMAIN process]]
    /\ \A e \in Engines, i \in Identities :
           workers[e][i] # NoProcess => process[workers[e][i]].id = {i}
    /\ process \in Seq([at : {"starting", "listens", "deaf", "asked", "exited"},
                        id : SUBSET Identities])
    /\ Len(process) <= MaxProcesses
    /\ plan \in [Threads -> Seq(Call)]
    /\ doing \in [Threads -> Request]
    /\ spent \in [ops : 0 .. MaxOps, failures : 0 .. MaxFailures]
    /\ raced \in BOOLEAN /\ failed \in BOOLEAN
    /\ before \in [Threads -> SUBSET Identities]
-----------------------------------------------------------------------------
\* EngineSupervisor.start, stop, restart.
StartEngine == <<A("create"), [A("launch") EXCEPT !.safe = TRUE]>>
StopEngine == <<A("halt"), A("clear")>>

\* Variant: the running workers are looked up after the engine has stopped.
RestartThenRemember == <<A("halt"), A("remember"), A("replace"), A("launch"), A("saved")>>

\* restart_reticulum.
RestartReticulum == <<A("remember"), A("halt"), A("replace"), A("launch"), A("saved")>>

Program(r) ==
    CASE r.op = "startEngine" -> StartEngine
      [] r.op = "stopEngine" -> StopEngine
      [] r.op = "restart" -> StopEngine \o StartEngine
      [] r.op = "restartReticulum" -> RestartReticulum
      [] r.op = "start" -> <<[A("start") EXCEPT !.ids = r.ids]>>
      [] r.op = "stop" -> <<[A("stop") EXCEPT !.ids = r.ids]>>
      [] r.op = "restartWorker" -> <<[A("restart") EXCEPT !.ids = r.ids]>>

WorkerOps == {"start", "stop", "restartWorker"}
Starts(r) == r.op \notin {"none", "stop", "stopEngine"}
Overlap(r, s) == r.op \notin WorkerOps \/ s.op \notin WorkerOps \/ r.ids \cap s.ids # {}

Init ==
    /\ engine = NoEngine /\ created = 0
    /\ rns = [e \in Engines |-> FALSE]
    /\ workers = [e \in Engines |-> NoWorkers]
    /\ process = <<>>
    /\ doing = [t \in Threads |-> IF t = Starter THEN [Idle EXCEPT !.op = "startEngine"] ELSE Idle]
    /\ plan = [t \in Threads |-> IF t = Starter THEN StartEngine ELSE <<>>]
    /\ spent = [ops |-> 0, failures |-> 0]
    /\ raced = FALSE /\ failed = FALSE
    /\ before = [t \in Threads |-> {}]
-----------------------------------------------------------------------------
\* A request arrives, also while the application still starts.
Begin(t, r) ==
    /\ doing[t].op = "none" /\ spent.ops < MaxOps
    /\ doing' = [doing EXCEPT ![t] = r]
    /\ plan' = [plan EXCEPT ![t] = Program(r)]
    /\ spent' = [spent EXCEPT !.ops = @ + 1]
    /\ raced' = (raced \/ \E u \in Threads : /\ doing[u].op # "none" /\ Overlap(doing[u], r)
                                            /\ (Starts(doing[u]) \/ Starts(r)))
    /\ before' = [u \in Threads |->
                     IF u = t /\ r.op = "restartReticulum"
                     THEN {i \in Identities : \E p \in DOMAIN process : Alive(p) /\ process[p].id = {i}}
                     ELSE before[u]]
    /\ UNCHANGED <<engine, created, rns, workers, process, failed>>

\* The call returned: the plan goes on with calls before the rest.
Proceed(t, calls) == plan' = [plan EXCEPT ![t] = calls \o Tail(plan[t])]
\* It raised: the request ends with an error.
Abort(t) == plan' = [plan EXCEPT ![t] = <<>>]
At(t, do) == plan[t] # <<>> /\ Head(plan[t]).do = do
Now(t) == Head(plan[t])

Finish(t) ==
    /\ doing[t].op # "none" /\ plan[t] = <<>>
    /\ doing' = [doing EXCEPT ![t] = Idle]
    /\ before' = [before EXCEPT ![t] = {}]
    /\ UNCHANGED <<engine, created, rns, workers, process, plan, spent, raced, failed>>
-----------------------------------------------------------------------------
(***************************************************************************)
(* EngineSupervisor and EngineMain.  self.engine is read anew at each call.*)
(***************************************************************************)
\* Variant: a new engine is not counted.
NewUncounted(t) == /\ created < MaxEngines
                   /\ engine' = created + 1 /\ created' = created
                   /\ Proceed(t, <<>>)

New(t) == /\ created < MaxEngines
          /\ created' = created + 1 /\ engine' = created + 1
          /\ Proceed(t, <<>>)

Create(t) ==
    /\ \/ At(t, "create") /\ engine = NoEngine /\ New(t)
       \/ At(t, "create") /\ engine # NoEngine /\ Proceed(t, <<>>) /\ UNCHANGED <<engine, created>>
       \/ At(t, "replace") /\ New(t)
    /\ UNCHANGED <<rns, workers, process, doing, spent, raced, failed, before>>

\* engine.stop(): stop_all takes the identities of the table, then RNS stops.
\* Without an engine stop() has nothing to do, and restart_reticulum fails.
Halt(t) ==
    /\ At(t, "halt")
    /\ IF engine # NoEngine
       THEN Proceed(t, [k \in 1 .. Cardinality(Entries(engine)) |->
                            On("find", engine, SetToSeq(Entries(engine))[k])]
                       \o <<[A("rnsStop") EXCEPT !.e = engine]>>)
       ELSE IF plan[t][2].do = "clear"
            THEN plan' = [plan EXCEPT ![t] = Tail(Tail(plan[t]))]
            ELSE Abort(t)
    /\ UNCHANGED <<engine, created, rns, workers, process, doing, spent, raced, failed, before>>

Clear(t) ==
    /\ At(t, "clear")
    /\ engine' = NoEngine
    /\ Proceed(t, <<>>)
    /\ UNCHANGED <<created, rns, workers, process, doing, spent, raced, failed, before>>

\* self.engine.start(start_lxmf_workers).
Launch(t) ==
    /\ At(t, "launch")
    /\ IF engine = NoEngine THEN Abort(t)
       ELSE Proceed(t, <<[A("rnsStart") EXCEPT !.e = engine]>>
                       \o (IF Now(t).safe THEN <<[A("enabled") EXCEPT !.e = engine]>> ELSE <<>>))
    /\ UNCHANGED <<engine, created, rns, workers, process, doing, spent, raced, failed, before>>

RnsStep(t) ==
    /\ (At(t, "rnsStart") \/ At(t, "rnsStop"))
    /\ rns' = [rns EXCEPT ![Now(t).e] = (Now(t).do = "rnsStart")]
    /\ Proceed(t, <<>>)
    /\ UNCHANGED <<engine, created, workers, process, doing, spent, raced, failed, before>>

RnsStartFails(t) ==
    /\ At(t, "rnsStart") /\ spent.failures < MaxFailures
    /\ spent' = [spent EXCEPT !.failures = @ + 1] /\ failed' = TRUE
    /\ Abort(t)
    /\ UNCHANGED <<engine, created, rns, workers, process, doing, raced, before>>

\* _start_enabled_lxmf_workers: one after the other, an error ends none.
StartEnabled(t) ==
    /\ At(t, "enabled")
    /\ Proceed(t, [k \in 1 .. Cardinality(Enabled) |->
                      [On("check", Now(t).e, SetToSeq(Enabled)[k]) EXCEPT !.safe = TRUE]])
    /\ UNCHANGED <<engine, created, rns, workers, process, doing, spent, raced, failed, before>>

\* running_lxmf_identity_ids.
Remember(t) ==
    /\ At(t, "remember")
    /\ IF engine = NoEngine THEN Abort(t)
       ELSE plan' = [plan EXCEPT ![t] =
                [k \in 1 .. Len(plan[t]) - 1 |->
                    IF plan[t][k + 1].do = "saved"
                    THEN [A("saved") EXCEPT !.ids = {i \in Identities : Alive(workers[engine][i])}]
                    ELSE plan[t][k + 1]]]
    /\ UNCHANGED <<engine, created, rns, workers, process, doing, spent, raced, failed, before>>

\* The loop at the end of restart_reticulum, and the calls for one identity.
CallWorker(t) ==
    /\ \/ At(t, "saved") /\ Now(t).ids = {} /\ Proceed(t, <<>>)
       \/ /\ At(t, "saved") /\ Now(t).ids # {} /\ engine # NoEngine
          /\ Proceed(t, <<On("check", engine, IdOf(Now(t))),
                          [A("saved") EXCEPT !.ids = Now(t).ids \ {IdOf(Now(t))}]>>)
       \/ At(t, "start") /\ engine # NoEngine
          /\ Proceed(t, <<On("check", engine, IdOf(Now(t)))>>)
       \/ At(t, "stop") /\ engine # NoEngine
          /\ Proceed(t, <<On("find", engine, IdOf(Now(t)))>>)
       \/ At(t, "restart") /\ engine # NoEngine
          /\ Proceed(t, <<On("find", engine, IdOf(Now(t))), On("check", engine, IdOf(Now(t)))>>)
       \/ /\ engine = NoEngine /\ Abort(t)
          /\ (\/ At(t, "saved") /\ Now(t).ids # {}
              \/ At(t, "start") \/ At(t, "stop") \/ At(t, "restart"))
    /\ UNCHANGED <<engine, created, rns, workers, process, doing, spent, raced, failed, before>>
-----------------------------------------------------------------------------
(***************************************************************************)
(* LxmfProcessManager.start.                                               *)
(***************************************************************************)
\* Variant: start does not look whether the worker runs.
StartAgain(c, existing) == <<[c EXCEPT !.do = "spawn"]>>

\* poll() is None of the entry: there is nothing to start.
StartCalls(c, existing) ==
    CASE existing = NoProcess -> <<[c EXCEPT !.do = "spawn"]>>
      [] Alive(existing) -> <<>>
      [] OTHER -> <<[c EXCEPT !.do = "pop"], [c EXCEPT !.do = "spawn"]>>

Check(t) ==
    /\ At(t, "check")
    /\ Proceed(t, StartCalls(Now(t), workers[Now(t).e][IdOf(Now(t))]))
    /\ UNCHANGED <<engine, created, rns, workers, process, doing, spent, raced, failed, before>>

\* _workers.pop, of start for an entry that has ended, and of stop.
RemoveEntry(t) ==
    /\ (At(t, "pop") \/ At(t, "forget"))
    /\ workers' = [workers EXCEPT ![Now(t).e][IdOf(Now(t))] = NoProcess]
    /\ Proceed(t, <<>>)
    /\ UNCHANGED <<engine, created, rns, process, doing, spent, raced, failed, before>>

Spawn(t) ==
    /\ At(t, "spawn")
    /\ Len(process) < MaxProcesses
    /\ process' = Append(process, [at |-> "starting", id |-> Now(t).ids])
    /\ Proceed(t, <<[Now(t) EXCEPT !.do = "register", !.p = Len(process')]>>)
    /\ UNCHANGED <<engine, created, rns, workers, doing, spent, raced, failed, before>>

\* start raises: _start_lxmf_worker_safely goes on, any other caller does not.
Raise(t) ==
    /\ spent.failures < MaxFailures
    /\ spent' = [spent EXCEPT !.failures = @ + 1] /\ failed' = TRUE
    /\ IF Now(t).safe THEN Proceed(t, <<>>) ELSE Abort(t)
    /\ UNCHANGED <<engine, created, rns, process, doing, raced, before>>

\* The identities cannot be listed, for the request or for its answer about a
\* worker that runs already; or Popen raises.
StartFails(t) ==
    /\ At(t, "check") \/ At(t, "spawn")
    /\ Raise(t)
    /\ UNCHANGED workers

Enter(t) == workers' = [workers EXCEPT ![Now(t).e][IdOf(Now(t))] = Now(t).p]

Register(t) ==
    /\ At(t, "register") /\ Enter(t)
    /\ Proceed(t, <<>>)
    /\ UNCHANGED <<engine, created, rns, process, doing, spent, raced, failed, before>>

\* The worker is entered, but its status, the answer, cannot be had.
StatusFails(t) ==
    /\ At(t, "register") /\ Enter(t)
    /\ Raise(t)
-----------------------------------------------------------------------------
(***************************************************************************)
(* LxmfProcessManager.stop.                                                *)
(***************************************************************************)
\* Variant: the entry is dropped once the worker was asked to stop.
AskAndForget(c, p) == <<With("ask", c.e, IdOf(c), p), With("forget", c.e, IdOf(c), p)>>

StopCalls(c, p) ==
    <<With("ask", c.e, IdOf(c), p), With("await", c.e, IdOf(c), p), With("forget", c.e, IdOf(c), p)>>

Find(t) ==
    /\ At(t, "find")
    /\ LET c == Now(t)  p == workers[c.e][IdOf(c)] IN
         Proceed(t, IF p = NoProcess THEN <<>>
                    ELSE IF Alive(p) THEN StopCalls(c, p)
                    ELSE <<With("forget", c.e, IdOf(c), p)>>)
    /\ UNCHANGED <<engine, created, rns, workers, process, doing, spent, raced, failed, before>>

\* _request_graceful_stop gives up when nobody listens on the control port.
Ask(t) ==
    /\ At(t, "ask")
    /\ process' = IF process[Now(t).p].at = "listens"
                  THEN [process EXCEPT ![Now(t).p].at = "asked"] ELSE process
    /\ Proceed(t, <<>>)
    /\ UNCHANGED <<engine, created, rns, workers, doing, spent, raced, failed, before>>

\* Variant: stop waits for the process and never ends it.
WaitOnly(p) == FALSE

\* process.wait, then terminate and kill when it takes too long.
MayKill(p) == Alive(p)

Await(t) ==
    /\ At(t, "await")
    /\ \/ ~Alive(Now(t).p) /\ UNCHANGED process
       \/ MayKill(Now(t).p) /\ process' = [process EXCEPT ![Now(t).p].at = "exited"]
    /\ Proceed(t, <<>>)
    /\ UNCHANGED <<engine, created, rns, workers, doing, spent, raced, failed, before>>
-----------------------------------------------------------------------------
(***************************************************************************)
(* The worker processes (lxmf_worker.py, main and _control_loop).          *)
(***************************************************************************)
WorkerListens(p) ==
    /\ process[p].at = "starting"
    /\ process' = [process EXCEPT ![p].at = "listens"]
    /\ UNCHANGED <<engine, created, rns, workers, plan, doing, spent, raced, failed, before>>

\* Asked to, after a failed start, or for any other reason.
WorkerExit(p) ==
    /\ Alive(p)
    /\ process' = [process EXCEPT ![p].at = "exited"]
    /\ before' = [t \in Threads |-> IF process[p].at = "asked" THEN before[t]
                                    ELSE before[t] \ process[p].id]
    /\ UNCHANGED <<engine, created, rns, workers, plan, doing, spent, raced, failed>>

\* An exception in the control loop ends it; the worker lives on.
ControlEnds(p) ==
    /\ process[p].at \in {"starting", "listens"}
    /\ process' = [process EXCEPT ![p].at = "deaf"]
    /\ UNCHANGED <<engine, created, rns, workers, plan, doing, spent, raced, failed, before>>
-----------------------------------------------------------------------------
EngineStep(t) ==
    \/ Create(t) \/ Halt(t) \/ Clear(t) \/ Launch(t) \/ RnsStep(t) \/ RnsStartFails(t)
    \/ StartEnabled(t) \/ Remember(t) \/ CallWorker(t)
ManagerStep(t) ==
    \/ Check(t) \/ RemoveEntry(t) \/ Spawn(t) \/ StartFails(t) \/ Register(t)
    \/ StatusFails(t) \/ Find(t) \/ Ask(t) \/ Await(t)
ThreadStep(t) == EngineStep(t) \/ ManagerStep(t) \/ Finish(t)

Requests ==
    [op : {"stopEngine", "restart", "restartReticulum"}, ids : {{}}]
        \cup [op : WorkerOps, ids : {{i} : i \in Identities}]

Next ==
    \/ \E t \in Threads : ThreadStep(t) \/ \E r \in Requests : Begin(t, r)
    \/ \E p \in DOMAIN process : WorkerListens(p) \/ WorkerExit(p) \/ ControlEnds(p)

Spec == Init /\ [][Next]_vars

\* Threads are scheduled, and each of their waits has a timeout.  Nothing is
\* asked of the worker processes: a killed process ends.
FairSpec == Spec /\ \A t \in Threads : WF_vars(ThreadStep(t))
-----------------------------------------------------------------------------
\* The supervisor reaches process p: it is in the table of the engine there
\* is, or the thread that created it is about to enter it.
Known(p) ==
    \/ engine # NoEngine /\ \E i \in Identities : workers[engine][i] = p
    \/ \E t \in Threads : At(t, "register") /\ Now(t).p = p

\* Unless requests overlapped one of which starts workers, no process runs
\* that nobody can stop: through restarts of Reticulum, failed starts, exits
\* at any point, and stops that overlap each other.
AliveIsKnown ==
    ~raced => \A p \in DOMAIN process : Alive(p) => Known(p)

\* And no two processes use the router and the key of one identity.
OneWorkerPerIdentity ==
    ~raced => \A p, q \in DOMAIN process :
        Alive(p) /\ Alive(q) /\ process[p].id = process[q].id => p = q

\* A restart of Reticulum that met no failure has started again every worker
\* that ran before, except those that ended by themselves meanwhile.
RestartBringsBack ==
    \A t \in Threads :
        doing[t].op = "restartReticulum" /\ plan[t] = <<>> /\ engine # NoEngine /\ ~raced /\ ~failed
            => before[t] \subseteq Entries(engine)

\* Every request ends, whatever the worker does: one that is stuck, or whose
\* control thread has ended, is killed.
RequestsEnd == \A t \in Threads : doing[t].op # "none" ~> doing[t].op = "none"
=============================================================================
