--------------------------- MODULE RuntimeInstall ---------------------------
(***************************************************************************)
(* The managed Reticulum runtimes and the LXMF component on disk           *)
(* (controller/runtime_manager.py), the configuration file that names the  *)
(* runtime to use (config/app_config.py), and the operations of the HTTP   *)
(* threads that change them (controller/app.py).  There is no lock.  An    *)
(* operation is a sequence of steps on files; the controller may be killed *)
(* between two of them, and a step may fail and end its operation.         *)
(*                                                                         *)
(* A file is written in two steps: open("w") empties it, the text follows. *)
(* Directories are removed and copied one part after the other, in any     *)
(* order.                                                                  *)
(***************************************************************************)
EXTENDS Integers, FiniteSets

CONSTANTS Threads,
          Versions,   \* Reticulum releases; a version is its runtime's name
          Stub,       \* the built-in runtime, always there
          MaxOps,     \* bound: operations begun
          MaxStops    \* bound: kills of the controller and failed steps

ASSUME RuntimeAssumption ==
    Stub \notin Versions /\ MaxOps \in Nat /\ MaxStops \in Nat

Names == {Stub} \cup Versions
NoSource == "none"

VARIABLES
    dir,       \* the directory of each version
    lxmf,      \* the directory of the LXMF component
    file,      \* the configuration file
    name,      \* AppConfig.engine_name
    source,    \* AppConfig.runtime_source_path, as the name of its runtime
    withLxmf,  \* AppConfig.lxmf_source_path is set
    up,        \* the controller: up, down, or unable to load its configuration
    thread,    \* the operation each thread performs
    ops, stops,
    crossed,   \* history: two operations overlapped
    cut,       \* history: an operation was ended where the code leaves
               \* something to repair
    halfway    \* history: the versions whose files an operation was altering
               \* when it was ended, until their manifest is written again

disk == <<dir, lxmf, file>>
memory == <<name, source, withLxmf>>
vars == <<disk, memory, up, thread, ops, stops, crossed, cut, halfway>>

\* src: all the sources are there but those of the optional feature; feature:
\* how much of its paths is there; says: the manifest has the feature on.
Bare == [src |-> FALSE, feature |-> "none", manifest |-> "none", says |-> FALSE]
NoLxmf == [src |-> FALSE, manifest |-> "none"]
Text(n) == [is |-> "text", name |-> n]
Emptied == [is |-> "empty", name |-> Stub]
Garbled == [is |-> "garbled", name |-> Stub]
Free == [op |-> "none", pc |-> "none", v |-> Stub, victim |-> Stub, text |-> Stub, on |-> FALSE]

InstallSteps ==
    {"download", "clear", "remove", "move", "features", "manifest", "write", "others", "load"}
SaveSteps == {"name", "save", "saved", "apply"}
FeatureSteps == {"find", "restore", "files", "paths", "reread"}
LxmfSteps == {"lxApply", "lxDownload", "lxClear", "lxRemove", "lxMove", "lxManifest", "lxWrite", "lxUse"}

TypeOK ==
    /\ dir \in [Versions -> [src : BOOLEAN, feature : {"none", "part", "whole"}, says : BOOLEAN,
                             manifest : {"none", "torn", "text"}]]
    /\ lxmf \in [src : BOOLEAN, manifest : {"none", "torn", "text"}]
    /\ file \in [is : {"text", "empty", "garbled"}, name : Names]
    /\ name \in Names /\ source \in Names \cup {NoSource} /\ withLxmf \in BOOLEAN
    /\ up \in {"up", "down", "dead"}
    /\ thread \in [Threads -> [op : {"none", "install", "select", "feature", "lxmf", "access"},
                               pc : {"none", "check"} \cup InstallSteps \cup SaveSteps
                                    \cup FeatureSteps \cup LxmfSteps,
                               v : Names, victim : Names, text : Names, on : BOOLEAN]]
    /\ \A t \in Threads :
           /\ thread[t].pc \in {"restore", "files", "paths", "reread"} => thread[t].v \in Versions
           /\ thread[t].pc = "remove" => thread[t].victim \in Versions
    /\ ops \in 0 .. MaxOps /\ stops \in 0 .. MaxStops
    /\ crossed \in BOOLEAN /\ cut \in BOOLEAN /\ halfway \subseteq Versions

Init ==
    /\ dir = [v \in Versions |-> Bare]
    /\ lxmf = NoLxmf
    /\ file = Text(Stub)
    /\ name = Stub /\ source = Stub /\ withLxmf = FALSE
    /\ up = "up"
    /\ thread = [t \in Threads |-> Free]
    /\ ops = 0 /\ stops = 0
    /\ crossed = FALSE /\ cut = FALSE /\ halfway = {}
-----------------------------------------------------------------------------
At(t, pc) == thread[t].pc = pc
Go(t, pc) == thread' = [thread EXCEPT ![t].pc = pc]
\* The operation ends, or an exception ends it.
Done(t) == thread' = [thread EXCEPT ![t] = Free]
Busy == \E t \in Threads : thread[t].op # "none"

\* list_runtimes raises when a manifest is not JSON, and with it every lookup.
Listable == \A v \in Versions : dir[v].manifest # "torn"
Found(n) == Listable /\ (n = Stub \/ dir[n].manifest = "text")

First == [install |-> "download", select |-> "check", feature |-> "find",
          lxmf |-> "lxApply", access |-> "save"]

\* install_reticulum_release, select_runtime, set_runtime_feature,
\* install_lxmf_release, and the requests that save other settings.
Begin(t, op, v, on) ==
    /\ up = "up" /\ thread[t].op = "none" /\ ops < MaxOps
    /\ ops' = ops + 1
    /\ crossed' = (crossed \/ Busy)
    /\ thread' = [thread EXCEPT ![t] = [Free EXCEPT !.op = op, !.pc = First[op], !.v = v, !.on = on]]
    /\ UNCHANGED <<disk, memory, up, stops, cut, halfway>>
-----------------------------------------------------------------------------
(***************************************************************************)
(* RuntimeManager.install_reticulum_release                                *)
(***************************************************************************)
\* Downloaded and extracted into a temporary directory, or it failed.
Download(t, now, then) ==
    /\ At(t, now)
    /\ Go(t, then) \/ Done(t)
    /\ UNCHANGED <<disk, memory, up, ops, stops, crossed, cut, halfway>>

SetDir(t, to) == dir' = [dir EXCEPT ![thread[t].v] = to]
Dir(t) == dir[thread[t].v]

\* What remains of a directory when rmtree has removed one part more of it.
Fewer(d) ==
    {[d EXCEPT !.src = FALSE], [d EXCEPT !.feature = "none"],
     [d EXCEPT !.feature = IF @ = "whole" THEN "part" ELSE "none"],
     [d EXCEPT !.manifest = "none", !.says = FALSE]} \ {d}

\* Variant: the other runtimes are removed before the new one is complete.
ClearAll(t) ==
    /\ At(t, "clear")
    /\ dir' = [v \in Versions |-> Bare] /\ Go(t, "move")
    /\ UNCHANGED <<lxmf, file, memory, up, ops, stops, crossed, cut, halfway>>

\* The same version may be there, whole or in part.
Clear(t) ==
    /\ At(t, "clear")
    /\ IF Dir(t) = Bare THEN Go(t, "move")
       ELSE thread' = [thread EXCEPT ![t].pc = "remove", ![t].victim = thread[t].v]
    /\ UNCHANGED <<disk, memory, up, ops, stops, crossed, cut, halfway>>

\* rmtree of the same version, or of one of the others after the installation.
Remove(t) ==
    /\ At(t, "remove")
    /\ LET victim == thread[t].victim IN
         \/ /\ dir[victim] = Bare
            /\ Go(t, IF victim = thread[t].v THEN "move" ELSE "others")
            /\ UNCHANGED dir
         \/ \E d \in Fewer(dir[victim]) : dir' = [dir EXCEPT ![victim] = d] /\ UNCHANGED thread
    /\ UNCHANGED <<lxmf, file, memory, up, ops, stops, crossed, cut, halfway>>

\* mkdir, and a rename within the directory of the runtimes.
Move(t) ==
    /\ At(t, "move")
    /\ SetDir(t, [Dir(t) EXCEPT !.src = TRUE, !.feature = "whole"]) /\ Go(t, "features")
    /\ UNCHANGED <<lxmf, file, memory, up, ops, stops, crossed, cut, halfway>>

\* _apply_runtime_features: every feature is off by default.
Features(t) ==
    /\ At(t, "features")
    /\ IF Dir(t).feature = "none" THEN Go(t, "manifest") /\ UNCHANGED dir
       ELSE /\ SetDir(t, [Dir(t) EXCEPT !.feature = IF @ = "whole" THEN "part" ELSE "none"])
            /\ UNCHANGED thread
    /\ UNCHANGED <<lxmf, file, memory, up, ops, stops, crossed, cut, halfway>>

\* write_text of the manifest, here and in set_runtime_feature.
Manifest(t) ==
    /\ At(t, "manifest")
    /\ SetDir(t, [Dir(t) EXCEPT !.manifest = "torn"]) /\ Go(t, "write")
    /\ UNCHANGED <<lxmf, file, memory, up, ops, stops, crossed, cut, halfway>>

WriteManifest(t) ==
    /\ At(t, "write")
    /\ SetDir(t, [Dir(t) EXCEPT !.manifest = "text", !.says = thread[t].on])
    /\ IF thread[t].op = "install" THEN Go(t, "others") ELSE Done(t)
    /\ halfway' = halfway \ {thread[t].v}
    /\ UNCHANGED <<lxmf, file, memory, up, ops, stops, crossed, cut>>

\* _remove_other_managed_reticulum_runtimes: those whose manifest can be read.
Others(t) ==
    /\ At(t, "others")
    /\ LET others == {v \in Versions \ {thread[t].v} : dir[v].manifest = "text"} IN
         IF others = {} THEN Go(t, "load")
         ELSE \E v \in others : thread' = [thread EXCEPT ![t].pc = "remove", ![t].victim = v]
    /\ UNCHANGED <<disk, memory, up, ops, stops, crossed, cut, halfway>>

Load(t) ==
    /\ At(t, "load")
    /\ IF Dir(t).manifest = "text" THEN Go(t, "name") ELSE Done(t)
    /\ UNCHANGED <<disk, memory, up, ops, stops, crossed, cut, halfway>>
-----------------------------------------------------------------------------
(***************************************************************************)
(* AppConfig.set_engine_name, and _apply_active_runtime after it.          *)
(***************************************************************************)
\* Variant: a runtime is selected without being looked up.
Whatever(n) == TRUE
\* get_runtime of select_runtime.
MaySelect(n) == Found(n)

Check(t) ==
    /\ At(t, "check")
    /\ IF MaySelect(thread[t].v) THEN Go(t, "name") ELSE Done(t)
    /\ UNCHANGED <<disk, memory, up, ops, stops, crossed, cut, halfway>>

SetName(t) ==
    /\ At(t, "name")
    /\ name' = thread[t].v
    /\ Go(t, "save")
    /\ UNCHANGED <<disk, source, withLxmf, up, ops, stops, crossed, cut, halfway>>

\* The text is made of the fields as they are now; the file is emptied.
Save(t) ==
    /\ At(t, "save")
    /\ file' = Emptied
    /\ thread' = [thread EXCEPT ![t].pc = "saved", ![t].text = name]
    /\ UNCHANGED <<dir, lxmf, memory, up, ops, stops, crossed, cut, halfway>>

\* Over a text that another save has put there, the end of that may remain.
Saved(t) ==
    /\ At(t, "saved")
    /\ \E f \in {Text(thread[t].text)} \cup (IF file.is = "empty" THEN {} ELSE {Garbled}) : file' = f
    /\ IF thread[t].op = "access" THEN Done(t) ELSE Go(t, "apply")
    /\ UNCHANGED <<dir, lxmf, memory, up, ops, stops, crossed, cut, halfway>>

HasLxmf == lxmf.manifest = "text"

\* Variant: the new runtime is in use after the restart of the process only.
StillOld == source
\* The source path set by _apply_active_runtime.
SourceOfName == name

Apply(t) ==
    /\ At(t, "apply")
    /\ Done(t)
    /\ IF Found(name) THEN source' = SourceOfName /\ withLxmf' = HasLxmf
       ELSE UNCHANGED <<source, withLxmf>>
    /\ UNCHANGED <<disk, name, up, ops, stops, crossed, cut, halfway>>
-----------------------------------------------------------------------------
(***************************************************************************)
(* set_runtime_feature                                                     *)
(***************************************************************************)
\* The built-in runtime has no features.
MayChange(n) == Found(n) /\ n # Stub

FindRuntime(t) ==
    /\ At(t, "find")
    /\ IF MayChange(thread[t].v) THEN Go(t, IF thread[t].on THEN "restore" ELSE "files") ELSE Done(t)
    /\ UNCHANGED <<disk, memory, up, ops, stops, crossed, cut, halfway>>

\* Variant: nor is there anything to restore where some of it is.
AlreadyThere(t) == thread[t].on <=> Dir(t).feature # "none"
\* A path that is not there need not be removed; one that is to be restored is
\* removed first.
NothingToRemove(t) == ~thread[t].on /\ Dir(t).feature = "none"

\* _remove_feature_paths and _restore_feature_from_sdist, path by path.
FeatureFiles(t) ==
    /\ At(t, "files")
    /\ IF NothingToRemove(t) THEN Go(t, "reread") /\ UNCHANGED dir
       ELSE SetDir(t, [Dir(t) EXCEPT !.feature = "part"]) /\ Go(t, "paths")
    /\ UNCHANGED <<lxmf, file, memory, up, ops, stops, crossed, cut, halfway>>

FilesOf(on) == IF on THEN "whole" ELSE "none"

FeaturePaths(t) ==
    /\ At(t, "paths")
    /\ SetDir(t, [Dir(t) EXCEPT !.feature = FilesOf(thread[t].on)]) /\ Go(t, "reread")
    /\ UNCHANGED <<lxmf, file, memory, up, ops, stops, crossed, cut, halfway>>

Reread(t) ==
    /\ At(t, "reread")
    /\ IF Dir(t).manifest = "text" THEN Go(t, "manifest") ELSE Done(t)
    /\ UNCHANGED <<disk, memory, up, ops, stops, crossed, cut, halfway>>
-----------------------------------------------------------------------------
(***************************************************************************)
(* install_lxmf_release: for a managed Reticulum only.                     *)
(***************************************************************************)
LxmfApply(t) ==
    /\ At(t, "lxApply")
    /\ IF Found(name)
       THEN /\ source' = name /\ withLxmf' = HasLxmf
            /\ IF name = Stub THEN Done(t) ELSE Go(t, "lxDownload")
       ELSE Done(t) /\ UNCHANGED <<source, withLxmf>>
    /\ UNCHANGED <<disk, name, up, ops, stops, crossed, cut, halfway>>

LxmfStep(t, now, then, to) ==
    /\ At(t, now)
    /\ lxmf' = to /\ Go(t, then)
    /\ UNCHANGED <<dir, file, memory, up, ops, stops, crossed, cut, halfway>>

\* rmtree of the component, if it is there.
LxmfRemove(t) ==
    \/ LxmfStep(t, "lxClear", IF lxmf = NoLxmf THEN "lxMove" ELSE "lxRemove", lxmf)
    \/ \E l \in {[lxmf EXCEPT !.src = FALSE], [lxmf EXCEPT !.manifest = "none"]} \ {lxmf} :
           LxmfStep(t, "lxRemove", IF l = NoLxmf THEN "lxMove" ELSE "lxRemove", l)

LxmfInstall(t) ==
    \/ LxmfRemove(t)
    \/ LxmfStep(t, "lxMove", "lxManifest", [lxmf EXCEPT !.src = TRUE])
    \/ LxmfStep(t, "lxManifest", "lxWrite", [lxmf EXCEPT !.manifest = "torn"])
    \/ LxmfStep(t, "lxWrite", "lxUse", [lxmf EXCEPT !.manifest = "text"])

LxmfUse(t) ==
    /\ At(t, "lxUse")
    /\ withLxmf' = HasLxmf
    /\ Done(t)
    /\ UNCHANGED <<disk, name, source, up, ops, stops, crossed, cut, halfway>>
-----------------------------------------------------------------------------
(***************************************************************************)
(* Kills, failed steps and restarts.                                       *)
(***************************************************************************)
Reinstalls(t) == thread[t].v = file.name
\* Where a kill leaves something to repair: a file half written; a directory
\* half removed; a runtime that is named and not there.
Unsafe(t) ==
    \/ thread[t].pc \in {"write", "saved", "remove", "lxRemove"}
    \/ thread[t].op = "install" /\ (\/ thread[t].pc \in {"others", "load", "name", "save"}
                                    \/ thread[t].pc \in {"move", "features", "manifest"} /\ Reinstalls(t))
\* A failed step leaves the fields in memory as well.
UnsafeToFail(t) ==
    \/ Unsafe(t)
    \/ thread[t].pc \in {"save", "apply", "lxMove", "lxManifest", "lxWrite", "lxUse"}

\* The version whose files the operation c is altering.
Altered(c) ==
    {v \in Versions : \/ c.pc = "remove" /\ c.victim = v
                      \/ c.op = "feature" /\ c.pc \in {"paths", "reread", "manifest"} /\ c.v = v}

Kill ==
    /\ up = "up" /\ stops < MaxStops /\ stops' = stops + 1
    /\ up' = "down"
    /\ thread' = [t \in Threads |-> Free]
    /\ cut' = (cut \/ \E t \in Threads : Unsafe(t))
    /\ halfway' = halfway \cup UNION {Altered(thread[t]) : t \in Threads}
    /\ UNCHANGED <<disk, memory, ops, crossed>>

StepFails(t) ==
    /\ thread[t].op # "none" /\ stops < MaxStops /\ stops' = stops + 1
    /\ Done(t)
    /\ cut' = (cut \/ UnsafeToFail(t))
    /\ halfway' = halfway \cup Altered(thread[t])
    /\ UNCHANGED <<disk, memory, up, ops, crossed>>

\* AppConfig.load; ControllerApp.start applies the runtime if it can.
Start ==
    /\ up = "down"
    /\ IF file.is # "text"
       THEN up' = "dead" /\ UNCHANGED memory
       ELSE /\ up' = "up" /\ name' = file.name
            /\ IF Found(file.name) THEN source' = file.name /\ withLxmf' = HasLxmf
               ELSE source' = NoSource /\ withLxmf' = FALSE
    /\ UNCHANGED <<disk, thread, ops, stops, crossed, cut, halfway>>
-----------------------------------------------------------------------------
Step(t) ==
    \/ Download(t, "download", "clear") \/ Clear(t) \/ Remove(t) \/ Move(t) \/ Features(t)
    \/ Manifest(t) \/ WriteManifest(t) \/ Others(t) \/ Load(t)
    \/ Check(t) \/ SetName(t) \/ Save(t) \/ Saved(t) \/ Apply(t)
    \/ FindRuntime(t) \/ Download(t, "restore", "files") \/ FeatureFiles(t)
    \/ FeaturePaths(t) \/ Reread(t)
    \/ LxmfApply(t) \/ Download(t, "lxDownload", "lxClear") \/ LxmfInstall(t) \/ LxmfUse(t)
    \/ StepFails(t)

BeginAny(t) ==
    \/ \E v \in Versions : Begin(t, "install", v, FALSE)
    \/ \E v \in Names : Begin(t, "select", v, FALSE)
    \/ \E v \in Names, on \in BOOLEAN : Begin(t, "feature", v, on)
    \/ \E op \in {"lxmf", "access"} : Begin(t, op, Stub, FALSE)

Next == (\E t \in Threads : Step(t) \/ BeginAny(t)) \/ Kill \/ Start

Spec == Init /\ [][Next]_vars
-----------------------------------------------------------------------------
Usable(v) == dir[v].src /\ dir[v].manifest = "text"

\* Installing one release takes away another only when the new one can be
\* used: at no moment, a kill or a failure included, is the node without a
\* runtime because of it.  (Operations that overlap can remove each other's.)
OldUntilNew ==
    [][\A v \in Versions : Usable(v) /\ ~Usable(v)' /\ ~crossed'
           => \/ \E t \in Threads : thread[t].v = v
              \/ \E w \in Versions : Usable(w)']_vars

\* When nothing is under way, the next start of the controller loads its
\* configuration and finds the runtime it names, with its sources - also after
\* kills and failures at every step but those that Unsafe lists: a file half
\* written, a directory half removed, an installation from the removal of the
\* named runtime until the configuration is saved.
StartsFromConfig ==
    ~Busy /\ ~crossed /\ ~cut =>
        /\ up # "dead" /\ file.is = "text" /\ Found(file.name)
        /\ file.name # Stub => Usable(file.name)

\* What the process uses is what it would use after a restart: the paths in
\* memory lead to the runtime the file names, and to an LXMF that is there.
\* (With the same exceptions, and failures that leave memory behind.)
InUseIsNamed ==
    ~Busy /\ ~crossed /\ ~cut /\ up = "up" =>
        name = file.name /\ source = name /\ (withLxmf => lxmf.src)

\* The files of a feature are all there or all gone, as the manifest says,
\* also after kills and failures anywhere: a change that was ended between the
\* two leaves them apart until the next change or installation is over, which
\* brings them together whatever it finds.
FeatureFilesMatch ==
    ~Busy /\ ~crossed =>
        \A v \in Versions \ halfway : Usable(v) => dir[v].feature = FilesOf(dir[v].says)
=============================================================================
