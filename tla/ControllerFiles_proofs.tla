------------------------ MODULE ControllerFiles_proofs ------------------------
(***************************************************************************)
(* What the composition keeps of its parts, for every value of the         *)
(* constants: FilesSpec implements PropagationStore!Spec, whose theorems   *)
(* then hold of it.  Then the managed runtimes: InstallInv says what each  *)
(* operation has done to files and settings at each of its steps.          *)
(***************************************************************************)
EXTENDS ControllerFiles, TLAPS

Registry == INSTANCE PropagationStore_proofs WITH Names <- NodeNames, Default <- DefaultName

\* Every step of the composition is a step of the registry or leaves it alone.
LEMMA FilesStep == [FilesNext]_allVars => [Propagation!Next]_registryVars
<1> SUFFICES ASSUME [FilesNext]_allVars PROVE [Propagation!Next]_registryVars
  OBVIOUS
<1>1. ASSUME NEW t \in Threads, RuntimeStep(t) PROVE UNCHANGED registryVars
  BY <1>1 DEF RuntimeStep
<1>2. ASSUME NEW t \in Threads, CallPropagation(t) \/ PropagationStep(t) \/ PropagationFails(t)
      PROVE  Propagation!Next
  BY <1>2 DEF CallPropagation, PropagationStep, PropagationFails, Propagation!Next, Propagation!Step
<1>3. CASE KillAll
  BY <1>3 DEF KillAll, Propagation!Next
<1>4. CASE StartAll
  BY <1>4 DEF StartAll
<1>5. CASE UNCHANGED allVars
  BY <1>5 DEF allVars
<1> QED BY <1>1, <1>2, <1>3, <1>4, <1>5 DEF FilesNext

(***************************************************************************)
(* The operators of the registry are the same in its module of proofs.     *)
(***************************************************************************)
LEMMA SameInit == Propagation!Init <=> Registry!Init
  BY DEF Propagation!Init, Registry!Init, Propagation!NoNodes, Registry!NoNodes,
         Propagation!Idle, Registry!Idle

LEMMA SameChanged ==
    \A c, nodes : Registry!Changed(c, nodes) = Propagation!Changed(c, nodes)
  BY DEF Propagation!Changed, Registry!Changed, Propagation!Remembered, Registry!Remembered

LEMMA SameExclusive == Registry!Exclusive => Propagation!Exclusive
  BY SameChanged DEF Propagation!Exclusive, Registry!Exclusive

LEMMA SameNext == [Propagation!Next]_Propagation!vars => [Registry!Next]_Registry!vars
<1>1. ASSUME NEW t \in Threads, Propagation!Step(t) PROVE Registry!Step(t)
  BY <1>1, SameChanged
     DEF Propagation!Step, Registry!Step, Propagation!Enter, Registry!Enter,
         Propagation!MayEnter, Registry!MayEnter, Propagation!LoadNodes, Registry!LoadNodes,
         Propagation!OpenTemporary, Registry!OpenTemporary, Propagation!WriteTemporary,
         Registry!WriteTemporary, Propagation!Replace, Registry!Replace, Propagation!Leave,
         Registry!Leave, Propagation!Fails, Registry!Fails, Propagation!At, Registry!At,
         Propagation!Go, Registry!Go, Propagation!Idle, Registry!Idle, Propagation!NoNodes,
         Registry!NoNodes
<1>2. ASSUME NEW t \in Threads, Propagation!CallAny(t) PROVE Registry!CallAny(t)
  BY <1>2 DEF Propagation!CallAny, Registry!CallAny, Propagation!Call, Registry!Call,
         Propagation!Idle, Registry!Idle, Propagation!NoNodes, Registry!NoNodes
<1>3. Propagation!Kill => Registry!Kill
  BY DEF Propagation!Kill, Registry!Kill, Propagation!Idle, Registry!Idle, Propagation!NoNodes,
         Registry!NoNodes
<1> QED BY <1>1, <1>2, <1>3 DEF Propagation!Next, Registry!Next, Propagation!vars, Registry!vars

LEMMA SameAbstract ==
    /\ Registry!Abstract!Init => Propagation!Abstract!Init
    /\ [Registry!Abstract!Next]_store => [Propagation!Abstract!Next]_store
<1>1. Registry!Abstract!Init => Propagation!Abstract!Init
  BY DEF Registry!Abstract!Init, Propagation!Abstract!Init
<1>2. Registry!Abstract!Next => Propagation!Abstract!Next
  BY DEF Registry!Abstract!Next, Propagation!Abstract!Next,
         Registry!Abstract!Remember, Propagation!Abstract!Remember,
         Registry!Abstract!SetEnabled, Propagation!Abstract!SetEnabled,
         Registry!Abstract!Forget, Propagation!Abstract!Forget
<1> QED BY <1>1, <1>2

\* The composition implements the registry.
THEOREM FilesRefine == FilesSpec => Propagation!Spec
<1>1. FilesInit => Propagation!Init
  BY DEF FilesInit
<1> QED BY <1>1, FilesStep, PTL DEF FilesSpec, Propagation!Spec, Propagation!vars, registryVars

\* The registry of propagation nodes is changed by one thread at a time.
THEOREM FilesExclusive == FilesSpec => []RegistryExclusive
<1>1. Propagation!Init => Registry!IInv
  BY SameInit, Registry!InitIInv
<1>2. Registry!IInv /\ [Propagation!Next]_Propagation!vars => Registry!IInv'
  BY SameNext, FilesAssumption, Registry!NextIInv
<1>3. Registry!IInv => RegistryExclusive
  BY SameExclusive DEF Registry!IInv, RegistryExclusive
<1> QED BY <1>1, <1>2, <1>3, FilesRefine, PTL DEF Propagation!Spec

\* It implements the abstract registry: no operation is lost, takes effect in
\* part or takes effect twice.
THEOREM FilesAtomic == FilesSpec => RegistryIsAtomic
<1>1. Propagation!Init => Registry!IInv /\ Propagation!Abstract!Init
  BY SameInit, Registry!InitIInv DEF Propagation!Init, Propagation!NoNodes, Propagation!Abstract!Init
<1>2. Registry!IInv /\ [Propagation!Next]_Propagation!vars => Registry!IInv'
  BY SameNext, FilesAssumption, Registry!NextIInv
<1>3. Registry!IInv /\ [Propagation!Next]_Propagation!vars => [Propagation!Abstract!Next]_store
  BY SameNext, SameAbstract, Registry!StepIsAtomic
<1> QED BY <1>1, <1>2, <1>3, FilesRefine, PTL
     DEF Propagation!Spec, RegistryIsAtomic, Propagation!IsAtomic, Propagation!Abstract!Spec
-----------------------------------------------------------------------------
(***************************************************************************)
(* The managed runtimes and the configuration.  As long as no two          *)
(* operations overlapped there is one at work; what holds of the files and *)
(* of memory depends on how far it is: on its record c, Free if there is   *)
(* none.                                                                   *)
(***************************************************************************)
Pcs == {"none", "check"} \cup InstallSteps \cup SaveSteps \cup FeatureSteps \cup LxmfSteps
Operation == [op : {"none", "install", "select", "feature", "lxmf", "access"}, pc : Pcs,
              v : Names, victim : Names, text : Names, on : BOOLEAN]

\* What a thread may be doing in each operation.
Shape(c) ==
    /\ c \in Operation
    /\ c.op = "none" => c = Free
    /\ c.op = "install" => c.pc \in InstallSteps \cup SaveSteps /\ c.v \in Versions /\ ~c.on
    /\ c.pc = "remove" => c.victim \in Versions
    /\ c.op = "select" => c.pc \in {"check"} \cup SaveSteps
    /\ c.op = "feature" => c.pc \in FeatureSteps \cup {"manifest", "write"}
    /\ c.op = "feature" /\ c.pc # "find" => c.v \in Versions
    /\ c.op = "lxmf" => c.pc \in LxmfSteps
    /\ c.op = "access" => c.pc \in {"save", "saved"}

\* An installation builds up the directory it has cleared; a change of a
\* feature has the files ready when it comes to the manifest.
Building(c) ==
    /\ c.op = "install" =>
        /\ c.pc \in {"move", "features", "manifest"} => dir[c.v].manifest = "none"
        /\ c.pc \in {"features", "manifest", "write"} => dir[c.v].src
        /\ c.pc \in {"manifest", "write"} => dir[c.v].feature = "none"
        /\ c.pc \in {"others", "load"} \cup SaveSteps => Usable(c.v)
        /\ c.pc = "remove" /\ c.victim # c.v => Usable(c.v)
    /\ c.op = "feature" =>
        /\ c.pc \in {"restore", "files", "paths", "reread", "manifest"} => dir[c.v].manifest = "text"
        /\ c.pc \in {"reread", "manifest", "write"} => dir[c.v].feature = FilesOf(c.on)

\* Files and manifest agree but for what is being altered, or was when an
\* operation was ended.
Matched(c) ==
    \A v \in Versions \ halfway :
        Usable(v) => dir[v].feature = FilesOf(dir[v].says) \/ v \in Altered(c)

Selecting == {"install", "select"}
Ready(n) == n = Stub \/ (n \in Versions /\ Usable(n))

\* The directories are whole but for the one that is being worked on.
WholeDirs(c) ==
    \A v \in Versions :
        /\ dir[v].manifest = "text" => dir[v].src \/ (c.pc = "remove" /\ c.victim = v)
        /\ dir[v].manifest = "torn" => c.pc = "write" /\ c.v = v

\* The configuration file names a runtime that is there, unless an
\* installation replaces it or has still to save, or a manifest is written.
FileNamesReady(c) ==
    /\ file.is # "text" => c.pc = "saved"
    /\ \/ Ready(file.name)
       \/ c.op = "install" /\ c.pc \in {"remove", "move", "features", "manifest"} /\ c.v = file.name
       \/ c.pc = "write" /\ c.v = file.name
       \/ c.op = "install" /\ c.pc \in {"others", "load", "name", "save"}
       \/ c.pc = "remove" /\ c.victim # c.v
       \/ c.pc = "saved"

\* Memory and file agree but for an operation that changes both.
MemoryAgrees(c) ==
    /\ up # "dead"
    /\ lxmf.manifest = "text" => lxmf.src \/ c.pc = "lxRemove"
    /\ up = "up" =>
        /\ name = file.name \/ (c.op \in Selecting /\ c.pc = "save") \/ c.pc = "saved"
        /\ source = name \/ (c.op \in Selecting /\ c.pc \in {"save", "saved", "apply"})
        /\ withLxmf => lxmf.src \/ c.pc \in {"lxRemove", "lxMove"}

\* What the operation at work has established.
Established(c) ==
    /\ c.op = "feature" /\ c.pc \in {"restore", "files", "paths", "reread", "manifest", "write"} =>
           dir[c.v].src
    /\ c.op = "select" /\ c.pc = "name" => Ready(c.v)
    /\ c.op \in Selecting /\ c.pc \in {"save", "saved", "apply"} => name = c.v
    /\ c.pc \in {"save", "saved", "apply"} => Ready(name)
    /\ c.pc \in {"lxManifest", "lxWrite"} => lxmf.src
    /\ c.pc = "saved" => c.text = name /\ file.is = "empty"

Whole(c) == WholeDirs(c) /\ FileNamesReady(c) /\ MemoryAgrees(c) /\ Established(c)

\* The inductive invariant; its last part is what holds when nothing was cut.
InstallInv ==
    /\ TypeOK
    /\ \A t \in Threads : Shape(thread[t]) /\ (thread[t].op # "none" => up = "up")
    /\ ~crossed => /\ \A t, u \in Threads : thread[t].op # "none" /\ thread[u].op # "none" => t = u
                   /\ \A t \in Threads : Building(thread[t])
                   /\ \A t \in Threads : thread[t].op # "none" => Matched(thread[t])
                   /\ ~Busy => Matched(Free)
    /\ ~crossed /\ ~cut => /\ \A t \in Threads : thread[t].op # "none" => Whole(thread[t])
                           /\ ~Busy => Whole(Free)

\* A directory of a runtime.
Directory ==
    [src : BOOLEAN, feature : {"none", "part", "whole"}, says : BOOLEAN,
     manifest : {"none", "torn", "text"}]

\* TypeOK in two parts.
FilesOK ==
    /\ dir \in [Versions -> Directory]
    /\ lxmf \in [src : BOOLEAN, manifest : {"none", "torn", "text"}]
    /\ file \in [is : {"text", "empty", "garbled"}, name : Names]
    /\ name \in Names /\ source \in Names \cup {NoSource} /\ withLxmf \in BOOLEAN
HistoryOK ==
    /\ ops \in 0 .. MaxOps /\ stops \in 0 .. MaxStops
    /\ crossed \in BOOLEAN /\ cut \in BOOLEAN /\ halfway \subseteq Versions

\* The versions of the operations that work on one.
VersionsOK(c) ==
    /\ c.pc \in {"restore", "files", "paths", "reread"} => c.v \in Versions
    /\ c.pc = "remove" => c.victim \in Versions

\* They make up TypeOK.
LEMMA TypeParts ==
    TypeOK <=> /\ FilesOK /\ HistoryOK /\ up \in {"up", "down", "dead"}
               /\ thread \in [Threads -> Operation]
               /\ \A t \in Threads : VersionsOK(thread[t])
  BY DEF TypeOK, FilesOK, Directory, HistoryOK, VersionsOK, Operation, Pcs

\* The same of the next state.
LEMMA TypeNext ==
    ASSUME FilesOK', HistoryOK', up' \in {"up", "down", "dead"}, thread' \in [Threads -> Operation],
           \A t \in Threads : VersionsOK(thread'[t])
    PROVE  TypeOK'
  BY DEF TypeOK, FilesOK, Directory, HistoryOK, VersionsOK, Operation, Pcs

\* One directory, or the component, changes.
LEMMA DirectoryChanges ==
    ASSUME FilesOK, NEW v \in Versions, NEW d \in Directory, dir' = [dir EXCEPT ![v] = d],
           UNCHANGED <<lxmf, file, memory>>
    PROVE  FilesOK'
  BY DEF FilesOK, memory

\* The LXMF component.
Component == [src : BOOLEAN, manifest : {"none", "torn", "text"}]
LEMMA ComponentChanges ==
    ASSUME NEW l \in Component
    PROVE  /\ \A b \in BOOLEAN : [l EXCEPT !.src = b] \in Component
           /\ \A m \in {"none", "torn", "text"} : [l EXCEPT !.manifest = m] \in Component
  BY DEF Component

\* The thread goes on to d, or is done; nothing is known of the files.
MovesOn(t, d) ==
    /\ Shape(d) /\ thread' = [thread EXCEPT ![t] = d]
    /\ up' = up /\ crossed' = crossed /\ HistoryOK' /\ (cut => cut')

\* A step within an operation, and the end of one.
LEMMA GoMoves ==
    ASSUME TypeOK, NEW t \in Threads, NEW pc, Go(t, pc), Shape([thread[t] EXCEPT !.pc = pc]),
           UNCHANGED <<up, ops, stops, crossed, cut>>, halfway' \subseteq halfway
    PROVE  MovesOn(t, [thread[t] EXCEPT !.pc = pc])
  BY TypeParts DEF Go, MovesOn, HistoryOK

LEMMA FreeShape == Shape(Free)
  BY RuntimeAssumption DEF Shape, Free, Operation, Pcs, Names

LEMMA DoneMoves ==
    ASSUME TypeOK, NEW t \in Threads, Done(t), UNCHANGED <<up, ops, stops, crossed, cut>>,
           halfway' \subseteq halfway
    PROVE  MovesOn(t, Free)
  BY TypeParts, FreeShape DEF Done, MovesOn, HistoryOK


\* Every step is one of a thread at work, and it goes on in its operation.
LEMMA StepMoves ==
    ASSUME TypeOK, NEW t \in Threads, Shape(thread[t]), Step(t)
    PROVE  FilesOK' /\ thread[t].op # "none" /\ \E d : MovesOn(t, d)
<1> DEFINE c == thread[t]
           Goal == FilesOK' /\ c.op # "none" /\ \E d : MovesOn(t, d)
<1>0. c \in Operation /\ thread \in [Threads -> Operation] /\ FilesOK /\ HistoryOK
    BY TypeParts DEF Shape
<1> USE DEF At, Operation, Pcs, InstallSteps, SaveSteps, FeatureSteps, LxmfSteps
<1>1. ASSUME NEW now, NEW then, Download(t, now, then),
             <<now, then>> \in {<<"download", "clear">>, <<"restore", "files">>, <<"lxDownload", "lxClear">>}
      PROVE  Goal
    <2>1. Shape([c EXCEPT !.pc = then]) /\ c.op # "none"
        BY <1>0, <1>1 DEF Download, Shape, Free
    <2> QED BY <1>0, <1>1, <2>1, GoMoves, DoneMoves DEF Download, FilesOK, memory, disk
<1>2. CASE Move(t) \/ Manifest(t)
    <2> USE DEF Move, Manifest
    <2>1. PICK pc \in {"features", "write"} : Go(t, pc) /\ Shape([c EXCEPT !.pc = pc])
        BY <1>0, <1>2 DEF Shape, Free
    <2>2. c.op # "none" /\ c.v \in Versions
        BY <1>0, <1>2 DEF Shape, Free
    <2>3. FilesOK'
        <3>1. dir[c.v] \in Directory
            BY <1>0, <2>2 DEF FilesOK
        <3>2. PICK d \in Directory : dir' = [dir EXCEPT ![c.v] = d]
            BY <1>2, <3>1 DEF SetDir, Dir, Directory
        <3> QED BY <1>0, <1>2, <2>2, <3>2, DirectoryChanges
    <2> QED BY <1>2, <2>1, <2>2, <2>3, GoMoves
<1>16. CASE Clear(t)
    <2>1. c.op = "install" /\ c.v \in Versions
        BY <1>0, <1>16 DEF Shape, Free, Clear
    <2>2. PICK d : Shape(d) /\ thread' = [thread EXCEPT ![t] = d]
        <3>1. Shape([c EXCEPT !.pc = "move"])
            BY <1>0, <1>16, <2>1 DEF Shape, Free, Clear
        <3>2. Shape([c EXCEPT !.pc = "remove", !.victim = c.v])
            <4>1. [c EXCEPT !.pc = "remove", !.victim = c.v] \in Operation
                BY <1>0
            <4> QED BY <1>0, <2>1, <4>1 DEF Shape, Free
        <3> QED BY <1>0, <1>16, <3>1, <3>2 DEF Clear, Go
    <2>3. FilesOK'
        BY <1>0, <1>16 DEF FilesOK, Clear, memory, disk
    <2> QED BY <1>0, <1>16, <2>1, <2>2, <2>3 DEF MovesOn, Clear, HistoryOK
<1>17. CASE Remove(t)
    <2>1. c.op = "install" /\ c.victim \in Versions
        BY <1>0, <1>17 DEF Shape, Free, Remove
    <2>2. PICK d : Shape(d) /\ thread' = [thread EXCEPT ![t] = d]
        <3>1. \A pc \in {"move", "others"} : Shape([c EXCEPT !.pc = pc])
            BY <1>0, <1>17, <2>1 DEF Shape, Free, Remove
        <3> QED BY <1>0, <1>17, <3>1 DEF Remove, Go
    <2>3. FilesOK'
        <3>1. dir[c.victim] \in Directory
            BY <1>0, <2>1 DEF FilesOK
        <3>2. Fewer(dir[c.victim]) \subseteq Directory
            BY <3>1 DEF Fewer, Directory
        <3>3. dir' = dir \/ \E e \in Directory : dir' = [dir EXCEPT ![c.victim] = e]
            BY <1>17, <3>2 DEF Remove
        <3>4. UNCHANGED <<lxmf, file, memory>>
            BY <1>17 DEF Remove
        <3>5. CASE dir' = dir
            BY <1>0, <3>4, <3>5 DEF FilesOK, memory
        <3> QED BY <1>0, <2>1, <3>3, <3>4, <3>5, DirectoryChanges
    <2> QED BY <1>0, <1>17, <2>1, <2>2, <2>3 DEF MovesOn, Remove, HistoryOK
<1>18. CASE Features(t)
    <2>1. c.op # "none" /\ c.v \in Versions /\ Shape([c EXCEPT !.pc = "manifest"])
        BY <1>0, <1>18 DEF Shape, Free, Features
    <2>2. FilesOK'
        <3>1. dir[c.v] \in Directory
            BY <1>0, <2>1 DEF FilesOK
        <3>2. dir' = dir \/ \E d \in Directory : dir' = [dir EXCEPT ![c.v] = d]
            BY <1>18, <3>1 DEF Features, SetDir, Dir, Directory
        <3>3. UNCHANGED <<lxmf, file, memory>>
            BY <1>18 DEF Features
        <3>4. CASE dir' = dir
            BY <1>0, <3>3, <3>4 DEF FilesOK, memory
        <3> QED BY <1>0, <2>1, <3>2, <3>3, <3>4, DirectoryChanges
    <2>3. UNCHANGED thread => MovesOn(t, c)
        BY <1>0, <1>18 DEF MovesOn, Features, HistoryOK
    <2> QED BY <1>18, <2>1, <2>2, <2>3, GoMoves DEF Features
<1>3. CASE WriteManifest(t)
    <2>1. c.op \in {"install", "feature"} /\ c.v \in Versions /\ c.on \in BOOLEAN
        BY <1>0, <1>3 DEF Shape, Free, WriteManifest
    <2>2. c.op = "install" => Shape([c EXCEPT !.pc = "others"])
        BY <1>0, <1>3 DEF Shape, Free, WriteManifest
    <2>3. FilesOK'
        <3>1. dir[c.v] \in Directory
            BY <1>0, <2>1 DEF FilesOK
        <3>2. PICK d \in Directory : dir' = [dir EXCEPT ![c.v] = d]
            BY <1>3, <2>1, <3>1 DEF WriteManifest, SetDir, Dir, Directory
        <3> QED BY <1>0, <1>3, <2>1, <3>2, DirectoryChanges DEF WriteManifest
    <2> QED BY <1>3, <2>1, <2>2, <2>3, GoMoves, DoneMoves DEF WriteManifest
<1>4. CASE Others(t)
    <2>1. c.op = "install"
        BY <1>0, <1>4 DEF Shape, Free, Others
    <2>2. PICK d : Shape(d) /\ thread' = [thread EXCEPT ![t] = d]
        <3>1. Shape([c EXCEPT !.pc = "load"])
            BY <1>0, <1>4 DEF Shape, Free, Others
        <3>2. ASSUME NEW v \in Versions PROVE Shape([c EXCEPT !.pc = "remove", !.victim = v])
            <4>1. [c EXCEPT !.pc = "remove", !.victim = v] \in Operation
                BY <1>0 DEF Names
            <4> QED BY <1>0, <2>1, <4>1 DEF Shape, Free
        <3> QED BY <1>0, <1>4, <3>1, <3>2 DEF Others, Go
    <2>3. FilesOK'
        BY <1>0, <1>4 DEF FilesOK, Others, memory, disk
    <2> QED BY <1>0, <1>4, <2>1, <2>2, <2>3 DEF MovesOn, Others, HistoryOK
<1>5. CASE Load(t) \/ Check(t)
    <2>1. c.op # "none" /\ Shape([c EXCEPT !.pc = "name"])
        BY <1>0, <1>5 DEF Shape, Free, Load, Check
    <2>2. FilesOK'
        BY <1>0, <1>5 DEF FilesOK, Load, Check, memory, disk
    <2> QED BY <1>5, <2>1, <2>2, GoMoves, DoneMoves DEF Load, Check
<1>6. CASE SetName(t)
    <2>1. c.op # "none" /\ Shape([c EXCEPT !.pc = "save"])
        BY <1>0, <1>6 DEF Shape, Free, SetName
    <2>2. FilesOK'
        BY <1>0, <1>6 DEF FilesOK, SetName, disk
    <2> QED BY <1>6, <2>1, <2>2, GoMoves DEF SetName
<1>7. CASE Save(t)
    <2>1. c.op # "none" /\ Shape([c EXCEPT !.pc = "saved", !.text = name])
        <3>1. name \in Names /\ c.pc = "save" /\ c.op \in {"install", "select", "access"}
            BY <1>0, <1>7 DEF Shape, Free, Save, FilesOK
        <3>2. [c EXCEPT !.pc = "saved", !.text = name] \in Operation
            BY <1>0, <3>1
        <3> QED BY <1>0, <3>1, <3>2 DEF Shape, Free
    <2>2. FilesOK'
        BY <1>0, <1>7, RuntimeAssumption DEF FilesOK, Save, memory, Emptied, Names
    <2>3. MovesOn(t, [c EXCEPT !.pc = "saved", !.text = name])
        BY <1>0, <1>7, <2>1 DEF MovesOn, Save, HistoryOK
    <2> QED BY <2>1, <2>2, <2>3
<1>8. CASE Saved(t)
    <2>1. c.op # "none" /\ c.text \in Names /\ (c.op # "access" => Shape([c EXCEPT !.pc = "apply"]))
        BY <1>0, <1>8 DEF Shape, Free, Saved
    <2>2. FilesOK'
        BY <1>0, <1>8, <2>1, RuntimeAssumption DEF FilesOK, Saved, memory, Text, Garbled, Names
    <2> QED BY <1>8, <2>1, <2>2, GoMoves, DoneMoves DEF Saved
<1>9. CASE Apply(t) \/ LxmfUse(t)
    <2>1. c.op # "none"
        BY <1>9 DEF Shape, Free, Apply, LxmfUse
    <2>2. FilesOK'
        BY <1>0, <1>9 DEF FilesOK, Apply, LxmfUse, disk, SourceOfName, HasLxmf
    <2> QED BY <1>9, <2>1, <2>2, DoneMoves DEF Apply, LxmfUse
<1>10. CASE FindRuntime(t)
    <2>1. /\ c.op = "feature"
          /\ MayChange(c.v) => c.v \in Versions /\ \A pc \in {"restore", "files"} : Shape([c EXCEPT !.pc =
              pc])
        BY <1>0, <1>10 DEF Shape, Free, FindRuntime, MayChange, Names
    <2>2. FilesOK'
        BY <1>0, <1>10 DEF FilesOK, FindRuntime, memory, disk
    <2> QED BY <1>10, <2>1, <2>2, GoMoves, DoneMoves DEF FindRuntime
<1>11. CASE FeatureFiles(t) \/ FeaturePaths(t)
    <2>1. /\ c.op = "feature" /\ c.v \in Versions /\ c.on \in BOOLEAN
          /\ \A pc \in {"paths", "reread"} : Shape([c EXCEPT !.pc = pc])
        BY <1>0, <1>11 DEF Shape, Free, FeatureFiles, FeaturePaths
    <2>2. FilesOK'
        <3>1. dir[c.v] \in Directory
            BY <1>0, <2>1 DEF FilesOK
        <3>2. dir' = dir \/ \E d \in Directory : dir' = [dir EXCEPT ![c.v] = d]
            BY <1>11, <2>1, <3>1 DEF FeatureFiles, FeaturePaths, FilesOf, SetDir, Dir, Directory
        <3>3. UNCHANGED <<lxmf, file, memory>>
            BY <1>11 DEF FeatureFiles, FeaturePaths
        <3>4. CASE dir' = dir
            BY <1>0, <3>3, <3>4 DEF FilesOK, memory
        <3> QED BY <1>0, <2>1, <3>2, <3>3, <3>4, DirectoryChanges
    <2> QED BY <1>11, <2>1, <2>2, GoMoves DEF FeatureFiles, FeaturePaths
<1>12. CASE Reread(t)
    <2>1. c.op = "feature" /\ Shape([c EXCEPT !.pc = "manifest"])
        BY <1>0, <1>12 DEF Shape, Free, Reread
    <2>2. FilesOK'
        BY <1>0, <1>12 DEF FilesOK, Reread, memory, disk
    <2> QED BY <1>12, <2>1, <2>2, GoMoves, DoneMoves DEF Reread
<1>13. CASE LxmfApply(t)
    <2>1. c.op = "lxmf" /\ Shape([c EXCEPT !.pc = "lxDownload"])
        BY <1>0, <1>13 DEF Shape, Free, LxmfApply
    <2>2. FilesOK'
        BY <1>0, <1>13 DEF FilesOK, LxmfApply, disk, HasLxmf
    <2> QED BY <1>13, <2>1, <2>2, GoMoves, DoneMoves DEF LxmfApply
<1>14. CASE LxmfInstall(t)
    <2>1. PICK pc \in {"lxRemove", "lxMove", "lxManifest", "lxWrite", "lxUse"} : Go(t, pc) /\ Shape([c EXCEPT !.pc = pc])
        BY <1>0, <1>14 DEF Shape, Free, LxmfInstall, LxmfRemove, LxmfStep
    <2>2. c.op # "none"
        BY <1>0, <1>14 DEF Shape, Free, LxmfInstall, LxmfRemove, LxmfStep
    <2>3. FilesOK'
        <3>1. lxmf' \in Component
            <4>1. lxmf \in Component
                BY <1>0 DEF FilesOK, Component
            <4>2. \/ lxmf' = lxmf \/ \E b \in BOOLEAN : lxmf' = [lxmf EXCEPT !.src = b]
                  \/ \E m \in {"none", "torn", "text"} : lxmf' = [lxmf EXCEPT !.manifest = m]
                BY <1>14 DEF LxmfInstall, LxmfRemove, LxmfStep
            <4> QED BY <4>1, <4>2, ComponentChanges
        <3> QED BY <1>0, <1>14, <3>1 DEF FilesOK, Component, LxmfInstall, LxmfRemove, LxmfStep, memory
    <2> QED BY <1>14, <2>1, <2>2, <2>3, GoMoves DEF LxmfInstall, LxmfRemove, LxmfStep
<1>15. CASE StepFails(t)
    <2>1. FilesOK'
        BY <1>0, <1>15 DEF FilesOK, StepFails, memory, disk
    <2>2. MovesOn(t, Free)
        BY <1>0, <1>15, FreeShape, RuntimeAssumption DEF MovesOn, StepFails, Done, HistoryOK, Altered
    <2> QED BY <1>15, <2>1, <2>2 DEF StepFails
<1> HIDE DEF Goal
<1> QED
    BY <1>1, <1>2, <1>3, <1>4, <1>5, <1>6, <1>7, <1>8, <1>9, <1>10, <1>11, <1>12, <1>13, <1>14, <1>15,
       <1>16, <1>17, <1>18
       DEF Step, Goal

\* A step leaves the directory it works on as the next one needs it.
LEMMA BuildingStep ==
    ASSUME TypeOK, NEW t \in Threads, Shape(thread[t]), Building(thread[t]), Step(t)
    PROVE  Building(thread[t])'
<1> DEFINE c == thread[t]
<1>0. /\ c \in Operation /\ thread \in [Threads -> Operation] /\ dir \in [Versions -> Directory]
      /\ c.op = "install" => c.v \in Versions /\ c.pc \in InstallSteps \cup SaveSteps /\ ~c.on
      /\ c.op = "feature" => c.pc \in FeatureSteps \cup {"manifest", "write"}
      /\ c.op = "feature" /\ c.pc # "find" => c.v \in Versions
      /\ c.pc = "remove" => c.victim \in Versions /\ c.op = "install"
    <2> c \in Operation
        BY DEF Shape
    <2> QED BY TypeParts DEF FilesOK, Shape, FeatureSteps, LxmfSteps, SaveSteps, InstallSteps, Free, Operation
<1> USE DEF At, Go, Done, Free, SetDir, Dir, Building, InstallSteps, SaveSteps, FeatureSteps, LxmfSteps, Usable
<1>1. CASE Download(t, "download", "clear")
    BY <1>0, <1>1 DEF Download, disk, Operation, Directory
<1>2. CASE Clear(t)
    BY <1>0, <1>2 DEF Clear, Bare, disk, Operation, Directory
<1>3. CASE Move(t)
    BY <1>0, <1>3 DEF Move, disk, Operation, Directory
<1>4. CASE Features(t)
    BY <1>0, <1>4 DEF Features, FilesOf, disk, Operation, Directory
<1>5. CASE Manifest(t)
    BY <1>0, <1>5 DEF Manifest, disk, Operation, Directory
<1>6. CASE WriteManifest(t)
    BY <1>0, <1>6 DEF WriteManifest, disk, Operation, Directory
<1>7. CASE Others(t)
    BY <1>0, <1>7 DEF Others, disk, Operation, Directory
<1>8. CASE Load(t)
    BY <1>0, <1>8 DEF Load, disk, Operation, Directory
<1>9. CASE Check(t)
    BY <1>0, <1>9 DEF Check, disk, Operation, Directory
<1>10. CASE SetName(t)
    BY <1>0, <1>10 DEF SetName, disk, Operation, Directory
<1>11. CASE Save(t)
    BY <1>0, <1>11 DEF Save, disk, Operation, Directory
<1>12. CASE Saved(t)
    BY <1>0, <1>12 DEF Saved, disk, Operation, Directory
<1>13. CASE Apply(t)
    BY <1>0, <1>13 DEF Apply, disk, Operation, Directory
<1>14. CASE FindRuntime(t)
    BY <1>0, <1>14 DEF FindRuntime, MayChange, Found, Names, disk, Operation, Directory
<1>15. CASE Download(t, "restore", "files")
    BY <1>0, <1>15 DEF Download, disk, Operation, Directory
<1>16. CASE FeatureFiles(t)
    BY <1>0, <1>16 DEF FeatureFiles, NothingToRemove, FilesOf, disk, Operation, Directory
<1>17. CASE Reread(t)
    BY <1>0, <1>17 DEF Reread, disk, Operation, Directory
<1>18. CASE LxmfApply(t)
    BY <1>0, <1>18 DEF LxmfApply, disk, Operation, Directory
<1>19. CASE Download(t, "lxDownload", "lxClear")
    BY <1>0, <1>19 DEF Download, disk, Operation, Directory
<1>20. CASE LxmfInstall(t)
    BY <1>0, <1>20 DEF LxmfInstall, LxmfRemove, LxmfStep, disk, Operation, Directory
<1>21. CASE LxmfUse(t)
    BY <1>0, <1>21 DEF LxmfUse, disk, Operation, Directory
<1>22. CASE StepFails(t)
    BY <1>0, <1>22 DEF StepFails, disk, Operation, Directory
<1>23. CASE Remove(t)
    BY <1>0, <1>23 DEF Remove, Bare, disk, Operation, Directory
<1>24. CASE FeaturePaths(t)
    BY <1>0, <1>24 DEF FeaturePaths, FilesOf, disk, Operation, Directory
<1> QED BY <1>23, <1>24, <1>1, <1>2, <1>3, <1>4, <1>5, <1>6, <1>7, <1>8, <1>9, <1>10, <1>11, <1>12, <1>13, <1>14, <1>15,
    <1>16, <1>17, <1>18, <1>19, <1>20, <1>21, <1>22 DEF Step

\* And files and manifest agree but for what is altered, or was when the
\* operation was ended.
LEMMA MatchedStep ==
    ASSUME TypeOK, NEW t \in Threads, Shape(thread[t]), Building(thread[t]), Matched(thread[t]), Step(t)
    PROVE  Matched(thread[t])'
<1> DEFINE c == thread[t]
<1>0. /\ c \in Operation /\ thread \in [Threads -> Operation] /\ dir \in [Versions -> Directory]
      /\ c.op = "install" => c.v \in Versions /\ c.pc \in InstallSteps \cup SaveSteps /\ ~c.on
      /\ c.op = "feature" => c.pc \in FeatureSteps \cup {"manifest", "write"}
      /\ c.op = "feature" /\ c.pc # "find" => c.v \in Versions
      /\ c.pc = "remove" => c.victim \in Versions /\ c.op = "install"
    <2> c \in Operation
        BY DEF Shape
    <2> QED BY TypeParts DEF FilesOK, Shape, FeatureSteps, LxmfSteps, SaveSteps, InstallSteps, Free, Operation
<1>00. /\ c.pc \in {"clear", "remove", "move", "features"} => c.op = "install"
       /\ c.pc \in {"files", "paths", "reread"} => c.op = "feature"
       /\ c.pc \in {"manifest", "write"} => c.op \in {"install", "feature"}
    BY <1>0 DEF Shape, Free, FeatureSteps, LxmfSteps, SaveSteps, InstallSteps, Operation
\* The steps that change no directory end no alteration, but by WriteManifest.
<1>1. ASSUME UNCHANGED <<dir, halfway>>, thread' \in [Threads -> Operation],
             Altered(c) \subseteq Altered(thread'[t])
      PROVE  Matched(thread[t])'
    BY <1>1 DEF Matched, Usable
<1> USE DEF At, Go, Done, Free, SetDir, Dir, Building, InstallSteps, SaveSteps, FeatureSteps, LxmfSteps,
    Usable, Matched, Altered, disk
<1>2. CASE Clear(t)
    BY <1>0, <1>00, <1>2 DEF Clear, Operation, Directory
<1>3. CASE Others(t)
    BY <1>0, <1>00, <1>3 DEF Others, Operation, Directory
<1>4. CASE Load(t)
    BY <1>0, <1>00, <1>4 DEF Load, Operation, Directory
<1>5. CASE Check(t)
    BY <1>0, <1>00, <1>5 DEF Check, Operation, Directory
<1>6. CASE SetName(t)
    BY <1>0, <1>00, <1>6 DEF SetName, Operation, Directory
<1>7. CASE Save(t)
    BY <1>0, <1>00, <1>7 DEF Save, Operation, Directory
<1>8. CASE Saved(t)
    BY <1>0, <1>00, <1>8 DEF Saved, Operation, Directory
<1>9. CASE Apply(t)
    BY <1>0, <1>00, <1>9 DEF Apply, Operation, Directory
<1>10. CASE FindRuntime(t)
    BY <1>0, <1>00, <1>10 DEF FindRuntime, Operation, Directory
<1>11. CASE Download(t, "download", "clear")
    BY <1>0, <1>00, <1>11 DEF Download, Operation, Directory
<1>12. CASE Download(t, "restore", "files")
    BY <1>0, <1>00, <1>12 DEF Download, Operation, Directory
<1>13. CASE Download(t, "lxDownload", "lxClear")
    BY <1>0, <1>00, <1>13 DEF Download, Operation, Directory
<1>14. CASE Reread(t)
    BY <1>0, <1>00, <1>14 DEF Reread, Operation, Directory
<1>15. CASE LxmfApply(t)
    BY <1>0, <1>00, <1>15 DEF LxmfApply, Operation, Directory
<1>16. CASE LxmfInstall(t)
    BY <1>0, <1>00, <1>16 DEF LxmfInstall, LxmfRemove, LxmfStep, Operation, Directory
<1>17. CASE LxmfUse(t)
    BY <1>0, <1>00, <1>17 DEF LxmfUse, Operation, Directory
<1>18. CASE Remove(t)
    BY <1>0, <1>00, <1>18 DEF Remove, Bare, Operation, Directory
<1>19. CASE Move(t)
    BY <1>0, <1>00, <1>19 DEF Move, FilesOf, Operation, Directory
<1>20. CASE Features(t)
    BY <1>0, <1>00, <1>20 DEF Features, FilesOf, Operation, Directory
<1>21. CASE Manifest(t)
    BY <1>0, <1>00, <1>21 DEF Manifest, Operation, Directory
<1>22. CASE WriteManifest(t)
    BY <1>0, <1>00, <1>22 DEF WriteManifest, FilesOf, Operation, Directory
<1>23. CASE FeatureFiles(t)
    BY <1>0, <1>00, <1>23 DEF FeatureFiles, FilesOf, Operation, Directory
<1>24. CASE FeaturePaths(t)
    BY <1>0, <1>00, <1>24 DEF FeaturePaths, FilesOf, Operation, Directory
<1>25. CASE StepFails(t)
    BY <1>0, <1>00, <1>25 DEF StepFails, Operation, Directory
<1> QED BY <1>2, <1>3, <1>4, <1>5, <1>6, <1>7, <1>8, <1>9, <1>10, <1>11, <1>12, <1>13,
    <1>14, <1>15, <1>16, <1>17, <1>18, <1>19, <1>20, <1>21, <1>22, <1>23, <1>24, <1>25 DEF Step

\* A step that is neither crossed nor cut leaves everything as its operation
\* must find it at the next one, or at rest when it was the last.
LEMMA WholeStep ==
    ASSUME TypeOK, NEW t \in Threads, Shape(thread[t]), Building(thread[t]), Whole(thread[t]),
           Step(t), up = "up", ~cut'
    PROVE  Whole(thread[t])'
<1> DEFINE c == thread[t]
<1>0. /\ c \in Operation /\ thread \in [Threads -> Operation] /\ FilesOK
      /\ c.op = "install" => c.v \in Versions /\ c.pc \in InstallSteps \cup SaveSteps /\ ~c.on
      /\ c.pc = "remove" => c.victim \in Versions
    BY TypeParts DEF Shape
<1>00. c.pc \in {"clear", "remove", "move", "features"} => c.op = "install" /\ c.v \in Versions
    BY <1>0 DEF Shape, Free, FeatureSteps, LxmfSteps, SaveSteps, InstallSteps, Operation
<1> USE DEF At, Go, Done, Free, SetDir, Dir, Building, InstallSteps, SaveSteps, FeatureSteps, LxmfSteps,
    Usable, Ready, Names,
    Whole, WholeDirs, FileNamesReady, MemoryAgrees, Established, Selecting, Shape, memory, disk, FilesOK
<1>1. CASE Download(t, "download", "clear")
    BY <1>0, <1>1 DEF Download, Operation, Directory
<1>2. CASE Clear(t)
    BY <1>0, <1>00, <1>2 DEF Clear, Bare, Operation, Directory
<1>23. CASE Remove(t)
    <2>0. /\ c.op = "install" /\ c.v \in Versions /\ c.victim \in Versions
          /\ \A v \in Versions \ {c.victim} : dir'[v] = dir[v]
          /\ UNCHANGED <<lxmf, file, name, source, withLxmf, up>>
        BY <1>0, <1>00, <1>23 DEF Remove
    <2>1. CASE UNCHANGED thread
        <3>1. dir'[c.victim].manifest # "torn"
            <4>1. dir[c.victim] \in Directory /\ dir[c.victim].manifest # "torn"
                BY <1>0, <1>23, <2>0 DEF Remove, Directory
            <4>2. dir'[c.victim] \in Fewer(dir[c.victim])
                BY <1>0, <1>23, <2>0, <2>1 DEF Remove, Operation
            <4> QED BY <4>1, <4>2 DEF Fewer, Directory
        <3> QED BY <1>0, <1>23, <2>0, <2>1, <3>1 DEF Remove, Operation, Directory
    <2>2. CASE dir[c.victim] = Bare /\ UNCHANGED dir
        <3>1. thread'[t] = [c EXCEPT !.pc = IF c.victim = c.v THEN "move" ELSE "others"]
            BY <1>0, <1>23, <2>2 DEF Remove, Bare, Directory, Fewer
        <3>2. WholeDirs(c)' /\ FileNamesReady(c)'
            BY <1>0, <1>23, <2>0, <2>2, <3>1 DEF Remove, Bare, Operation
        <3>3. MemoryAgrees(c)' /\ Established(c)'
            BY <1>0, <1>23, <2>0, <2>2, <3>1 DEF Remove, Bare, Operation
        <3> QED BY <3>2, <3>3
    <2> QED BY <1>23, <2>1, <2>2 DEF Remove
<1>3. CASE Move(t)
    <2>1. WholeDirs(c)'
        <3>1. c.op = "install" /\ c.v \in Versions
            BY <1>00, <1>3 DEF Move
        <3>2. dir'[c.v].manifest = "none" /\ \A v \in Versions \ {c.v} : dir'[v] = dir[v]
            BY <1>0, <1>3, <3>1 DEF Move, Directory
        <3>3. thread'[t].op = "install" /\ c.pc \notin {"write", "remove"}
            BY <1>0, <1>3, <3>1 DEF Move, Operation
        <3> QED BY <3>1, <3>2, <3>3
    <2>2. FileNamesReady(c)'
        BY <1>0, <1>3 DEF Move, Operation, Directory
    <2>3. MemoryAgrees(c)'
        BY <1>0, <1>3 DEF Move, Operation, Directory
    <2>4. Established(c)'
        BY <1>0, <1>3 DEF Move, Operation, Directory
    <2> QED BY <2>1, <2>2, <2>3, <2>4
<1>4. CASE Features(t)
    <2>1. WholeDirs(c)'
        <3>1. c.op = "install" /\ c.v \in Versions
            BY <1>00, <1>4 DEF Features
        <3>2. dir'[c.v].manifest = "none" /\ \A v \in Versions \ {c.v} : dir'[v] = dir[v]
            BY <1>0, <1>4, <3>1 DEF Features, Directory
        <3>3. thread'[t].op = "install" /\ c.pc \notin {"write", "remove"}
            BY <1>0, <1>4, <3>1 DEF Features, Operation
        <3> QED BY <3>1, <3>2, <3>3
    <2>2. FileNamesReady(c)'
        BY <1>0, <1>4 DEF Features, Operation, Directory
    <2>3. MemoryAgrees(c)'
        BY <1>0, <1>4 DEF Features, Operation, Directory
    <2>4. Established(c)'
        BY <1>0, <1>4 DEF Features, Operation, Directory
    <2> QED BY <2>1, <2>2, <2>3, <2>4
<1>5. CASE Manifest(t)
    BY <1>0, <1>5 DEF Manifest, Operation, Directory
<1>6. CASE WriteManifest(t)
    BY <1>0, <1>6 DEF WriteManifest, Operation, Directory
<1>7. CASE Others(t)
    BY <1>0, <1>7 DEF Others, Operation, Directory
<1>8. CASE Load(t)
    BY <1>0, <1>8 DEF Load, Operation, Directory
<1>9. CASE Check(t)
    BY <1>0, <1>9 DEF Check, MaySelect, Found, Listable, Operation, Directory
<1>10. CASE SetName(t)
    BY <1>0, <1>10 DEF SetName, Operation, Directory
<1>11. CASE Save(t)
    BY <1>0, <1>11 DEF Save, Emptied, Operation, Directory
<1>12. CASE Saved(t)
    BY <1>0, <1>12 DEF Saved, Text, Garbled, Operation, Directory
<1>13. CASE Apply(t)
    BY <1>0, <1>13 DEF Apply, Found, Listable, SourceOfName, HasLxmf, Operation, Directory
<1>14. CASE FindRuntime(t)
    BY <1>0, <1>14 DEF FindRuntime, MayChange, Found, Listable, Operation, Directory
<1>15. CASE Download(t, "restore", "files")
    BY <1>0, <1>15 DEF Download, Operation, Directory
<1>16. CASE FeatureFiles(t)
    BY <1>0, <1>16, SMTT(30) DEF FeatureFiles, Operation, Directory
<1>24. CASE FeaturePaths(t)
    BY <1>0, <1>24 DEF FeaturePaths, Operation, Directory
<1>17. CASE Reread(t)
    BY <1>0, <1>17 DEF Reread, Operation, Directory
<1>18. CASE LxmfApply(t)
    BY <1>0, <1>18 DEF LxmfApply, Found, Listable, HasLxmf, Operation, Directory
<1>19. CASE Download(t, "lxDownload", "lxClear")
    BY <1>0, <1>19 DEF Download, Operation, Directory
<1>20. CASE LxmfInstall(t)
    <2>1. WholeDirs(c)'
        BY <1>0, <1>20 DEF LxmfInstall, LxmfRemove, LxmfStep, NoLxmf, Operation, Directory
    <2>2. FileNamesReady(c)'
        BY <1>0, <1>20 DEF LxmfInstall, LxmfRemove, LxmfStep, NoLxmf, Operation, Directory
    <2>3. MemoryAgrees(c)'
        <3>1. UNCHANGED <<name, file, source, withLxmf, up>> /\ c.op = "lxmf" /\ thread'[t].op = "lxmf"
            BY <1>0, <1>20 DEF LxmfInstall, LxmfRemove, LxmfStep, NoLxmf, Operation
        <3>2. (lxmf'.manifest = "text" => lxmf'.src \/ thread'[t].pc = "lxRemove") /\ (withLxmf => lxmf'.src \/ thread'[t].pc \in {"lxRemove", "lxMove"})
            BY <1>0, <1>20 DEF LxmfInstall, LxmfRemove, LxmfStep, NoLxmf, Operation
        <3> QED BY <3>1, <3>2
    <2>4. Established(c)'
        BY <1>0, <1>20 DEF LxmfInstall, LxmfRemove, LxmfStep, NoLxmf, Operation, Directory
    <2> QED BY <2>1, <2>2, <2>3, <2>4
<1>21. CASE LxmfUse(t)
    BY <1>0, <1>21 DEF LxmfUse, HasLxmf, Operation, Directory
<1>22. CASE StepFails(t)
    <2>0. /\ thread' = [thread EXCEPT ![t] = Free] /\ UNCHANGED <<disk, memory, up>>
          /\ c.op # "none" /\ ~UnsafeToFail(t)
        BY <1>0, <1>22 DEF StepFails, Done, disk, memory
    <2>1. /\ thread'[t] = Free
          /\ c.pc \notin {"write", "saved", "remove", "lxRemove", "save", "apply", "lxMove", "lxManifest", "lxWrite", "lxUse"}
          /\ c.op = "install" => c.pc \notin {"others", "load", "name"}
          /\ c.op = "install" /\ c.pc \in {"move", "features", "manifest"} => c.v # file.name
        BY <1>0, <2>0 DEF UnsafeToFail, Unsafe, Reinstalls
    <2>2. WholeDirs(c)'
        BY <1>0, <2>0, <2>1, Zenon DEF Free, disk
    <2>3. FileNamesReady(c)'
        BY <1>0, <2>0, <2>1 DEF Free, disk
    <2>4. MemoryAgrees(c)'
        BY <1>0, <2>0, <2>1 DEF Free, disk, memory
    <2>5. Established(c)'
        BY <1>0, <2>0, <2>1 DEF Free
    <2> QED BY <2>2, <2>3, <2>4, <2>5
<1> QED BY <1>23, <1>24, <1>1, <1>2, <1>3, <1>4, <1>5, <1>6, <1>7, <1>8, <1>9, <1>10, <1>11, <1>12, <1>13, <1>14, <1>15,
    <1>16, <1>17, <1>18, <1>19, <1>20, <1>21, <1>22 DEF Step
-----------------------------------------------------------------------------
\* So a step of a thread keeps the invariant: the other threads are free.
LEMMA InstallStep ==
    ASSUME InstallInv, NEW t \in Threads, Step(t)
    PROVE  InstallInv'
<1>1. Shape(thread[t]) /\ TypeOK
    BY DEF InstallInv
<1>2. PICK d : MovesOn(t, d)
    BY <1>1, StepMoves
<1>3. FilesOK' /\ thread[t].op # "none" /\ up = "up"
    BY <1>1, StepMoves DEF InstallInv
<1>4. /\ thread \in [Threads -> Operation] /\ thread' \in [Threads -> Operation]
      /\ thread'[t] = d /\ \A u \in Threads \ {t} : thread'[u] = thread[u]
    BY <1>1, <1>2, TypeParts DEF MovesOn, Shape
<1>5. \A u \in Threads : Shape(thread[u])' /\ (thread[u].op # "none" => up = "up")'
    BY <1>2, <1>3, <1>4 DEF InstallInv, MovesOn, Shape, Free
<1>6. TypeOK'
    <2>1. \A u \in Threads : VersionsOK(thread'[u])
        BY <1>5, <1>4 DEF VersionsOK, Shape, InstallSteps, SaveSteps, FeatureSteps, LxmfSteps, Free, Operation
    <2>2. HistoryOK' /\ up' \in {"up", "down", "dead"}
        BY <1>2, <1>3 DEF MovesOn
    <2> QED BY <1>3, <1>4, <2>1, <2>2, TypeNext
<1>7. ASSUME ~crossed'
      PROVE  /\ \A u \in Threads \ {t} : thread[u] = Free /\ thread'[u] = Free
             /\ Building(thread[t])
    <2>1. ~crossed
        BY <1>2, <1>7 DEF MovesOn
    <2>2. \A u \in Threads \ {t} : thread[u].op = "none" /\ Shape(thread[u])
        BY <1>3, <2>1 DEF InstallInv
    <2> QED BY <1>4, <2>1, <2>2 DEF InstallInv, Shape
<1>8. ASSUME ~crossed'
      PROVE  /\ \A u, w \in Threads : thread'[u].op # "none" /\ thread'[w].op # "none" => u = w
             /\ \A u \in Threads : Building(thread[u])'
             /\ \A u \in Threads : thread'[u].op # "none" => Matched(thread[u])'
             /\ ~Busy' => Matched(Free)'
    <2>1. Building(thread[t])'
        BY <1>1, <1>7, <1>8, BuildingStep
    <2>2. Matched(thread[t])
        BY <1>2, <1>3, <1>8 DEF InstallInv, MovesOn
    <2>3. Matched(thread[t])'
        BY <1>1, <1>7, <1>8, <2>2, MatchedStep
    <2>4. ASSUME ~Busy' PROVE thread'[t] = Free
        BY <1>5, <2>4 DEF Busy, Shape
    <2> QED BY <1>7, <1>8, <2>1, <2>3, <2>4 DEF Free, Building
<1>9. ASSUME ~crossed', ~cut'
      PROVE  /\ \A u \in Threads : thread'[u].op # "none" => Whole(thread[u])'
             /\ ~Busy' => Whole(Free)'
    <2>1. Whole(thread[t])
        BY <1>2, <1>3, <1>9 DEF InstallInv, MovesOn
    <2>2. Whole(thread[t])'
        BY <1>1, <1>3, <1>7, <1>9, <2>1, WholeStep
    <2>3. ASSUME ~Busy' PROVE thread'[t] = Free
        BY <1>5, <2>3 DEF Busy, Shape
    <2> QED BY <1>7, <1>9, <2>2, <2>3 DEF Free
<1> QED BY <1>5, <1>6, <1>8, <1>9 DEF InstallInv

\* An operation begins when no other is at work, or is counted in crossed.
LEMMA BeginKeeps ==
    ASSUME InstallInv, NEW t \in Threads, NEW op \in {"install", "select", "feature", "lxmf", "access"},
           NEW v \in Names, NEW on \in BOOLEAN, op = "install" => v \in Versions /\ ~on, Begin(t, op, v, on)
    PROVE  InstallInv'
<1> DEFINE c == [Free EXCEPT !.op = op, !.pc = First[op], !.v = v, !.on = on]
<1>1. c.op = op /\ c.pc = First[op] /\ c.v = v /\ c.on = on /\ c.text = Stub
    BY DEF Free
<1>2. Shape(c)
    <2>1. c \in Operation
        <3>1. First[op] \in Pcs
            BY DEF First, Pcs, InstallSteps, SaveSteps, FeatureSteps, LxmfSteps
        <3>2. Free \in Operation
            BY FreeShape DEF Shape
        <3> QED BY <3>1, <3>2 DEF Operation
    <2> HIDE DEF c
    <2> QED BY <1>1, <2>1 DEF Shape, First, InstallSteps, SaveSteps, FeatureSteps, LxmfSteps
<1> HIDE DEF c
<1>3. /\ thread' = [thread EXCEPT ![t] = c] /\ up = "up" /\ up' = "up" /\ thread[t].op = "none"
      /\ crossed' = (crossed \/ Busy) /\ cut' = cut /\ halfway' = halfway
      /\ UNCHANGED <<dir, lxmf, file, name, source, withLxmf>>
    BY DEF Begin, disk, memory, c
<1>4. thread \in [Threads -> Operation] /\ thread' \in [Threads -> Operation] /\ c \in Operation
    BY <1>2, <1>3, TypeParts DEF InstallInv, Shape
<1>5. \A u \in Threads : Shape(thread[u])' /\ (thread[u].op # "none" => up = "up")'
    BY <1>2, <1>3, <1>4 DEF InstallInv, Shape, Free
<1>6. TypeOK'
    <2>1. \A u \in Threads : VersionsOK(thread'[u])
        BY <1>5, <1>4 DEF VersionsOK, Shape, InstallSteps, SaveSteps, FeatureSteps, LxmfSteps, Free, Operation
    <2>2. HistoryOK' /\ FilesOK'
        BY <1>3, TypeParts, RuntimeAssumption DEF Begin, HistoryOK, FilesOK, Busy, InstallInv
    <2> QED BY <1>3, <1>4, <2>1, <2>2, TypeNext
<1>7. ASSUME ~crossed' PROVE ~crossed /\ ~Busy /\ \A u \in Threads \ {t} : thread'[u] = Free
    BY <1>3, <1>4, <1>7 DEF InstallInv, Busy, Shape
<1>8. ASSUME ~crossed'
      PROVE  /\ \A u, w \in Threads : thread'[u].op # "none" /\ thread'[w].op # "none" => u = w
             /\ \A u \in Threads : Building(thread[u])'
             /\ \A u \in Threads : thread'[u].op # "none" => Matched(thread[u])'
             /\ ~Busy' => Matched(Free)'
    <2>1. Building(c)'
        BY <1>1 DEF Building, First, SaveSteps
    <2>2. Matched(Free)
        BY <1>3, <1>7, <1>8 DEF InstallInv
    <2>3. Matched(c)'
        BY <1>1, <1>3, <2>2 DEF Matched, Altered, Free, First, Usable
    <2>4. Busy'
        BY <1>1, <1>3, <1>4 DEF Busy
    <2> QED BY <1>3, <1>4, <1>7, <1>8, <2>1, <2>3, <2>4 DEF Free, Building
<1>9. ASSUME ~crossed', ~cut'
      PROVE  /\ \A u \in Threads : thread'[u].op # "none" => Whole(thread[u])'
             /\ ~Busy' => Whole(Free)'
    <2>1. Whole(Free)
        BY <1>3, <1>7, <1>9 DEF InstallInv
    <2>2. Whole(c)'
        <3>1. WholeDirs(c)' /\ FileNamesReady(c)' /\ MemoryAgrees(c)'
            BY <1>1, <1>3, <2>1 DEF Whole, WholeDirs, FileNamesReady, MemoryAgrees, Free, Ready, Usable
        <3>2. Established(c)'
            BY <1>1, <1>3, <2>1 DEF Whole, FileNamesReady, MemoryAgrees, Established, Free, First, Ready,
                Usable, Selecting
        <3> QED BY <3>1, <3>2 DEF Whole
    <2>3. Busy'
        BY <1>1, <1>3, <1>4 DEF Busy
    <2> QED BY <1>3, <1>4, <1>7, <1>9, <2>2, <2>3 DEF Free
<1> QED BY <1>5, <1>6, <1>8, <1>9 DEF InstallInv

\* A kill where Unsafe says that nothing is left to repair.
LEMMA KillKeeps ==
    ASSUME InstallInv, Kill
    PROVE  InstallInv'
<1>1. /\ thread' = [t \in Threads |-> Free] /\ up' = "down" /\ crossed' = crossed
      /\ UNCHANGED <<dir, lxmf, file, name, source, withLxmf>>
      /\ cut' = (cut \/ \E t \in Threads : Unsafe(t))
    BY DEF Kill, disk, memory
<1>2. \A t \in Threads : thread'[t] = Free
    BY <1>1
<1>3. TypeOK'
    <2>1. HistoryOK' /\ FilesOK'
        BY <1>1, TypeParts, RuntimeAssumption DEF Kill, HistoryOK, FilesOK, InstallInv, Altered
    <2>2. thread' \in [Threads -> Operation]
        BY <1>1, FreeShape DEF Shape
    <2> QED BY <1>1, <1>2, <2>1, <2>2, TypeNext DEF Free, VersionsOK
<1>4. ASSUME ~crossed, ~cut, NEW t \in Threads, thread[t].op # "none", ~Unsafe(t)
      PROVE  Whole(Free)'
    <2>1. Whole(thread[t]) /\ Shape(thread[t]) /\ Building(thread[t])
        BY <1>4 DEF InstallInv
    <2>2. WholeDirs(Free)'
        BY <1>1, <1>4, <2>1 DEF Whole, WholeDirs, Unsafe, Usable
    <2>3. FileNamesReady(Free)' /\ MemoryAgrees(Free)' /\ Established(Free)'
        BY <1>1, <1>4, <2>1 DEF Whole, FileNamesReady, MemoryAgrees, Established, Unsafe, Usable, Ready,
            Free, Reinstalls
    <2> QED BY <2>2, <2>3 DEF Whole
<1>5. ASSUME ~crossed, ~cut, ~Busy PROVE Whole(Free)'
    <2>1. Whole(Free)
        BY <1>5 DEF InstallInv
    <2> QED BY <1>1, <2>1 DEF Whole, WholeDirs, FileNamesReady, MemoryAgrees, Established, Usable, Ready, Free
<1>6. ASSUME ~crossed', ~cut' PROVE Whole(Free)'
    BY <1>1, <1>4, <1>5, <1>6 DEF Busy
<1>7. ASSUME ~crossed' PROVE Matched(Free)'
    <2>1. halfway' = halfway \cup UNION {Altered(thread[t]) : t \in Threads}
        BY DEF Kill
    <2>2. PICK c : Matched(c) /\ Altered(c) \subseteq halfway'
        <3>1. CASE Busy
            BY <1>1, <1>7, <2>1, <3>1 DEF InstallInv, Busy
        <3>2. CASE ~Busy
            BY <1>1, <1>7, <3>2 DEF InstallInv, Altered, Free
        <3> QED BY <3>1, <3>2
    <2> QED BY <1>1, <2>1, <2>2 DEF Matched, Usable
<1> QED BY <1>1, <1>2, <1>3, <1>6, <1>7, FreeShape DEF InstallInv, Building, Busy, Free, Shape

\* A start finds what the file names.
LEMMA StartKeeps ==
    ASSUME InstallInv, Start
    PROVE  InstallInv'
<1>1. /\ UNCHANGED <<dir, lxmf, file, thread, crossed, cut, halfway>> /\ up = "down" /\ up' \in {"up", "dead"}
      /\ \A t \in Threads : thread[t].op = "none" /\ thread[t] = Free
    BY DEF Start, disk, InstallInv, Shape
<1>2. TypeOK'
    <2>1. FilesOK' /\ HistoryOK'
        BY <1>1, TypeParts DEF Start, memory, FilesOK, HistoryOK, InstallInv, HasLxmf
    <2>2. thread' \in [Threads -> Operation]
        BY <1>1, TypeParts DEF InstallInv
    <2> QED BY <1>1, <2>1, <2>2, TypeNext DEF Free, VersionsOK
<1>3. ASSUME ~crossed, ~cut PROVE Whole(Free)'
    <2>1. Whole(Free)
        BY <1>1, <1>3 DEF InstallInv, Busy
    <2>2. WholeDirs(Free)' /\ FileNamesReady(Free)'
        BY <1>1, <2>1 DEF Whole, WholeDirs, FileNamesReady, Ready, Usable
    <2>3. file.is = "text" /\ Found(file.name)
        BY <2>1, TypeParts DEF Whole, WholeDirs, FileNamesReady, Ready, Usable, Free, Found, Listable,
            InstallInv, FilesOK
    <2>4. MemoryAgrees(Free)' /\ Established(Free)'
        BY <1>1, <2>1, <2>3 DEF Start, Whole, MemoryAgrees, Established, Free, HasLxmf
    <2> QED BY <2>2, <2>4 DEF Whole
<1>4. ASSUME ~crossed PROVE Matched(Free)'
    BY <1>1, <1>4 DEF InstallInv, Busy, Matched, Usable
<1> QED BY <1>1, <1>2, <1>3, <1>4 DEF InstallInv, Building, Busy, Free, Shape

\* The registry's operations count against the bounds they share.
LEMMA OutsideKeeps ==
    ASSUME InstallInv, HistoryOK', UNCHANGED <<disk, memory, up, thread, crossed, cut, halfway>>
    PROVE  InstallInv'
<1> USE DEF disk, memory
<1>1. TypeOK'
    <2>1. FilesOK' /\ thread' \in [Threads -> Operation] /\ up' \in {"up", "down", "dead"}
        BY TypeParts DEF InstallInv, FilesOK
    <2> QED BY <2>1, TypeParts, TypeNext DEF InstallInv
<1>2. \A c : (Building(c) <=> Building(c)') /\ (Whole(c) <=> Whole(c)') /\ (Matched(c) <=> Matched(c)')
    BY DEF Building, Matched, Whole, WholeDirs, FileNamesReady, MemoryAgrees, Established, Ready, Usable
<1>3. Busy' <=> Busy
    BY DEF Busy
<1> QED BY <1>1, <1>2, <1>3 DEF InstallInv
-----------------------------------------------------------------------------
(***************************************************************************)
(* The theorems about the composition.                                     *)
(***************************************************************************)
\* Every step of the composition keeps the invariant.
LEMMA FilesKeep == InstallInv /\ [FilesNext]_allVars => InstallInv'
<1> SUFFICES ASSUME InstallInv, [FilesNext]_allVars PROVE InstallInv'
    OBVIOUS
<1>1. ASSUME NEW t \in Threads, RuntimeStep(t) PROVE InstallInv'
    <2>1. CASE Step(t)
        BY <2>1, InstallStep
    <2>2. CASE BeginAny(t)
        BY <2>2, BeginKeeps DEF BeginAny, Names
    <2> QED BY <1>1, <2>1, <2>2 DEF RuntimeStep
<1>2. ASSUME NEW t \in Threads, CallPropagation(t) \/ PropagationStep(t) \/ PropagationFails(t)
      PROVE  InstallInv'
    <2>1. HistoryOK
        BY TypeParts DEF InstallInv
    <2>2. HistoryOK' /\ UNCHANGED <<disk, memory, up, thread, crossed, cut, halfway>>
        BY <1>2, <2>1, RuntimeAssumption
           DEF CallPropagation, PropagationStep, PropagationFails, HistoryOK, vars
    <2> QED BY <2>2, OutsideKeeps
<1>3. CASE KillAll \/ StartAll
    BY <1>3, KillKeeps, StartKeeps DEF KillAll, StartAll
<1>4. CASE UNCHANGED allVars
    BY <1>4, TypeParts, OutsideKeeps DEF allVars, vars, InstallInv, HistoryOK
<1> QED BY <1>1, <1>2, <1>3, <1>4 DEF FilesNext

\* The controller starts with the built-in runtime.
LEMMA InitInstall == Init => InstallInv
<1> SUFFICES ASSUME Init PROVE InstallInv
    OBVIOUS
<1>1. /\ thread \in [Threads -> Operation] /\ \A t \in Threads : thread[t] = Free /\ Shape(thread[t])
    BY FreeShape DEF Init, Shape
<1>2. TypeOK
    <2>1. FilesOK /\ HistoryOK
        <3>1. Bare \in Directory /\ Text(Stub) \in [is : {"text", "empty", "garbled"}, name : Names]
            BY DEF Bare, Directory, Text, Names
        <3>2. NoLxmf \in [src : BOOLEAN, manifest : {"none", "torn", "text"}]
            BY DEF NoLxmf
        <3>3. dir \in [Versions -> Directory]
            BY <3>1 DEF Init
        <3>4. HistoryOK
            <4>1. ops \in 0 .. MaxOps /\ stops \in 0 .. MaxStops
                BY RuntimeAssumption DEF Init
            <4>2. crossed \in BOOLEAN /\ cut \in BOOLEAN
                BY DEF Init
            <4> QED BY <4>1, <4>2 DEF HistoryOK, Init
        <3> QED BY <3>1, <3>2, <3>3, <3>4 DEF Init, FilesOK, Names
    <2> QED BY <1>1, <2>1, TypeParts DEF Init, VersionsOK, Free
<1>3. Whole(Free) /\ Matched(Free)
    BY DEF Init, Whole, WholeDirs, FileNamesReady, MemoryAgrees, Established, Free, Bare, NoLxmf, Text, Ready,
        Usable, Matched
<1> QED BY <1>1, <1>2, <1>3 DEF InstallInv, Building, Free, Init

\* The invariant holds in every reachable state.
LEMMA InstallAlways == FilesSpec => []InstallInv
<1>1. FilesInit => InstallInv
    BY InitInstall DEF FilesInit
<1> QED BY <1>1, FilesKeep, PTL DEF FilesSpec

\* What holds when nothing is under way and nothing was cut.
LEMMA AtRest ==
    ASSUME InstallInv, ~Busy, ~crossed, ~cut
    PROVE  /\ up # "dead" /\ file.is = "text" /\ Ready(file.name) /\ Listable
           /\ up = "up" => name = file.name /\ source = name /\ (withLxmf => lxmf.src)
<1>1. Whole(Free)
    BY DEF InstallInv
<1> QED BY <1>1 DEF Whole, WholeDirs, FileNamesReady, MemoryAgrees, Free, Listable

\* The states of the managed runtimes, the configuration and the registry are
\* well formed.
THEOREM FilesTypeCorrect == FilesSpec => []FilesTypeOK
<1>1. Propagation!Init => Registry!IInv
    BY SameInit, Registry!InitIInv
<1>2. Registry!IInv /\ [Propagation!Next]_Propagation!vars => Registry!IInv'
    BY SameNext, FilesAssumption, Registry!NextIInv
<1>3. Registry!IInv => Propagation!TypeOK
    BY DEF Registry!IInv, Registry!TypeOK, Propagation!TypeOK, Registry!Registry, Propagation!Registry,
           Registry!Abstract!Entry, Propagation!Abstract!Entry
<1>4. InstallInv /\ Propagation!TypeOK => FilesTypeOK
    BY DEF InstallInv, FilesTypeOK
<1> QED BY <1>1, <1>2, <1>3, <1>4, InstallAlways, FilesRefine, PTL DEF Propagation!Spec

\* After kills and failures at every step not listed in Unsafe or UnsafeToFail,
\* the next start loads the configuration (AppConfig.load) and finds the
\* runtime it names, with its sources.
THEOREM RestartFinds == FilesSpec => []StartsFromConfig
<1>1. InstallInv => StartsFromConfig
    BY AtRest, TypeParts DEF StartsFromConfig, Ready, Found, Usable
<1> QED BY <1>1, InstallAlways, PTL

\* The paths that the process uses are those it would use after a restart
\* (_apply_active_runtime).
THEOREM MemoryIsFile == FilesSpec => []InUseIsNamed
<1>1. InstallInv => InUseIsNamed
    BY AtRest DEF InUseIsNamed
<1> QED BY <1>1, InstallAlways, PTL

\* The files of a feature are there as the manifest says, whatever was cut or
\* failed before: what set_runtime_feature or a removal has left half-way is
\* excepted only until the manifest is written again.
THEOREM FeaturesMatch == FilesSpec => []FeatureFilesMatch
<1>1. InstallInv => FeatureFilesMatch
    BY DEF InstallInv, FeatureFilesMatch, Matched, Altered, Free
<1> QED BY <1>1, InstallAlways, PTL

\* A step of thread t takes from a runtime what makes it usable only when t
\* works on it or has a usable one.
LEMMA StepTakes ==
    ASSUME InstallInv, NEW t \in Threads, Step(t), ~crossed', NEW v \in Versions, Usable(v), ~Usable(v)'
    PROVE  thread[t].v = v \/ \E w \in Versions : Usable(w)'
<1>0. dir \in [Versions -> Directory]
    BY TypeParts DEF InstallInv, FilesOK
<1>1. CASE Remove(t)
    <2>1. ~crossed /\ thread[t].op = "install" /\ thread[t].v \in Versions /\ thread[t].victim \in Versions
        BY <1>1 DEF Remove, At, InstallInv, Shape, Free, Operation, SaveSteps, FeatureSteps, LxmfSteps
    <2>2. \A w \in Versions \ {thread[t].victim} : dir'[w] = dir[w]
        BY <1>0, <1>1, <2>1 DEF Remove
    <2>3. thread[t].victim = v
        BY <2>2 DEF Usable
    <2>4. thread[t].v # v => Usable(thread[t].v)
        BY <1>1, <2>1, <2>3 DEF Remove, At, InstallInv, Building
    <2> QED BY <2>1, <2>2, <2>3, <2>4 DEF Usable
<1>2. CASE ~Remove(t) /\ thread[t].v # v
    <2>1. UNCHANGED dir \/ \E d : dir' = [dir EXCEPT ![thread[t].v] = d]
        BY <1>2 DEF Step, Download, Clear, Move, Features, Manifest, WriteManifest, Others, Load, Check,
               SetName, Save, Saved, Apply, FindRuntime, FeatureFiles, FeaturePaths, Reread, LxmfApply,
               LxmfInstall, LxmfRemove, LxmfStep, LxmfUse, StepFails, SetDir, disk
    <2>2. dir'[v] = dir[v]
        BY <1>0, <1>2, <2>1
    <2> QED BY <2>2 DEF Usable
<1> QED BY <1>1, <1>2

\* An operation makes a usable runtime unusable only by working on that runtime
\* itself, or when another can be used: the new one, for those that
\* _remove_other_managed_reticulum_runtimes takes away.
THEOREM OldStays == FilesSpec => OldUntilNew
<1> DEFINE Taken == \A v \in Versions : Usable(v) /\ ~Usable(v)' /\ ~crossed'
                        => \/ \E t \in Threads : thread[t].v = v
                           \/ \E w \in Versions : Usable(w)'
<1>1. InstallInv /\ [FilesNext]_allVars => [Taken]_vars
    <2> SUFFICES ASSUME InstallInv, FilesNext PROVE Taken \/ UNCHANGED vars
        BY DEF allVars
    <2>1. ASSUME UNCHANGED dir PROVE Taken
        BY <2>1 DEF Usable
    <2>2. ASSUME NEW t \in Threads, Step(t) PROVE Taken
        BY <2>2, StepTakes
    <2>3. ASSUME NEW t \in Threads, BeginAny(t) PROVE UNCHANGED dir
        BY <2>3 DEF BeginAny, Begin, disk
    <2>4. ASSUME NEW t \in Threads, CallPropagation(t) \/ PropagationStep(t) \/ PropagationFails(t)
          PROVE  UNCHANGED dir
        BY <2>4 DEF CallPropagation, PropagationStep, PropagationFails, disk, vars
    <2>5. CASE KillAll \/ StartAll
        BY <2>1, <2>5 DEF KillAll, StartAll, Kill, Start, disk
    <2> HIDE DEF Taken
    <2> QED BY <2>1, <2>2, <2>3, <2>4, <2>5 DEF FilesNext, RuntimeStep
<1> QED BY <1>1, InstallAlways, PTL DEF FilesSpec, OldUntilNew
=============================================================================
