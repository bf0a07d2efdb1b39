---------------------------- MODULE LocalIdentity ----------------------------
(***************************************************************************)
(* The files of the local identities: <id>/identity.json with the name and *)
(* the network hashes, <id>/rns_identity with the private key, and the     *)
(* marker .initialized (local_identities.py).  Three kinds of programs use *)
(* them at the same time and none takes a lock: HTTP threads of the        *)
(* controller, identity generators (engine/lxmf_identity_generator.py) and *)
(* worker processes (engine/lxmf_worker.py).                               *)
(*                                                                         *)
(* A file is written in two steps, open("w") empties it and the text       *)
(* follows.  The two hashes are functions of the key: one stands for both. *)
(***************************************************************************)
EXTENDS Integers, FiniteSets

CONSTANTS Actors,              \* threads and processes
          Default, Others,     \* identities
          FirstName, Names,    \* display names
          MaxKeys,             \* bound: keys generated
          MaxOps,              \* bound: operations begun
          MaxCrashes           \* bound: actors killed in an operation

ASSUME IdentityAssumption ==
    /\ Default \notin Others /\ FirstName \notin Names
    /\ MaxKeys \in Nat /\ MaxOps \in Nat /\ MaxCrashes \in Nat

Identities == {Default} \cup Others
Keys == 1 .. MaxKeys
NoKey == 0
Partial == -1          \* the key file is there, and is not a key

VARIABLES
    config,    \* identity.json of each identity
    key,       \* rns_identity of each identity
    marker,    \* .initialized exists
    actor,     \* what each actor does, and what it has read
    made,      \* keys generated so far
    ops, crashes,
    saved,     \* history: name of the last save that succeeded
    crossed,   \* history: an actor read a configuration to write it again
               \* while another was doing the same
    raced,     \* history: two actors found no key at the same time, or the
               \* identity was removed while another actor used it
    torn       \* history: an actor was killed while it wrote a file

files == <<config, key, marker>>
history == <<saved, crossed, raced, torn>>
vars == <<files, actor, made, ops, crashes, history>>

Text(name, hash) == [is |-> "text", name |-> name, hash |-> hash]
Missing == [is |-> "missing", name |-> FirstName, hash |-> NoKey]
Empty == [Missing EXCEPT !.is = "empty"]
Corrupt == [Missing EXCEPT !.is = "corrupt"]
Files == {Missing, Empty, Corrupt} \cup [is : {"text"}, name : {FirstName} \cup Names, hash : {NoKey} \cup Keys]
Readable(f) == f.is = "text"
Broken(f) == f.is \in {"empty", "corrupt"}

Free == [op |-> "none", id |-> Default, pc |-> "none", name |-> FirstName, seen |-> Missing,
         key |-> NoKey, into |-> Default]

\* into: the identity whose configuration the actor writes.
TypeOK ==
    /\ config \in [Identities -> Files]
    /\ key \in [Identities -> {NoKey, Partial} \cup Keys]
    /\ marker \in BOOLEAN
    /\ actor \in [Actors -> [op : {"none", "save", "generate", "work", "remove"},
                             id : Identities,
                             pc : {"none", "marker", "mark", "list", "find", "newKey", "writeKey", "check",
                                   "read", "truncate", "write", "serve", "stop", "unlink"},
                             name : {FirstName} \cup Names, seen : Files,
                             key : {NoKey} \cup Keys, into : Identities]]
    /\ \A a \in Actors : actor[a].pc \in {"check", "read", "serve"} /\ actor[a].op \in {"generate", "work"}
                             => actor[a].key # NoKey
    /\ made \in 0 .. MaxKeys /\ ops \in 0 .. MaxOps /\ crashes \in 0 .. MaxCrashes
    /\ saved \in [Identities -> {FirstName} \cup Names]
    /\ crossed \in [Identities -> BOOLEAN] /\ raced \in [Identities -> BOOLEAN]
    /\ torn \in [Identities -> BOOLEAN]

\* A new installation.
Init ==
    /\ config = [i \in Identities |-> Missing]
    /\ key = [i \in Identities |-> NoKey]
    /\ marker = FALSE
    /\ actor = [a \in Actors |-> Free]
    /\ made = 0 /\ ops = 0 /\ crashes = 0
    /\ saved = [i \in Identities |-> FirstName]
    /\ crossed = [i \in Identities |-> FALSE] /\ raced = [i \in Identities |-> FALSE]
    /\ torn = [i \in Identities |-> FALSE]
-----------------------------------------------------------------------------
At(a, pc) == actor[a].pc = pc
Go(a, pc) == actor' = [actor EXCEPT ![a].pc = pc]
\* The operation ends, or an exception ends it.
Done(a) == actor' = [actor EXCEPT ![a] = Free]

Using(a, i) == actor[a].op # "none" /\ actor[a].id = i
Writing(a, i) == actor[a].pc \in {"truncate", "write"} /\ actor[a].into = i
Cross(a, i) == crossed' = [crossed EXCEPT ![i] = @ \/ \E b \in Actors \ {a} : Writing(b, i)]

\* save_client and list of the web page, generate_client_identity, the start
\* of a worker, remove_client.
Begin(a, op, i, name) ==
    /\ actor[a].op = "none" /\ ops < MaxOps /\ ops' = ops + 1
    /\ op = "remove" => i # Default
    /\ actor' = [actor EXCEPT ![a] = [Free EXCEPT !.op = op, !.id = i, !.into = i, !.name = name,
                     !.pc = CASE op = "save" -> "read" [] op = "remove" -> "stop" [] OTHER -> "marker"]]
    /\ raced' = [raced EXCEPT ![i] = @ \/ \E b \in Actors : Using(b, i) /\ ~At(b, "serve")
                                              /\ (op = "remove" \/ actor[b].op = "remove")]
    /\ UNCHANGED <<files, made, crashes, saved, crossed, torn>>
-----------------------------------------------------------------------------
(***************************************************************************)
(* list_identities: ensure_default_identity, then every configuration is   *)
(* loaded, and one that is not JSON ends the operation.                    *)
(***************************************************************************)
EnsureDefault(a) ==
    /\ At(a, "marker")
    /\ IF marker \/ config[Default] # Missing
       THEN Go(a, IF marker THEN "list" ELSE "mark") /\ UNCHANGED crossed
       ELSE /\ actor' = [actor EXCEPT ![a].pc = "truncate", ![a].into = Default,
                                      ![a].seen = Text(FirstName, NoKey)]
            /\ Cross(a, Default)
    /\ UNCHANGED <<files, made, ops, crashes, saved, raced, torn>>

Mark(a) ==
    /\ At(a, "mark")
    /\ marker' = TRUE
    /\ Go(a, "list")
    /\ UNCHANGED <<config, key, made, ops, crashes, history>>

List(a) ==
    /\ At(a, "list")
    /\ IF \E i \in Identities : Broken(config[i]) \/ config[actor[a].id] = Missing
       THEN Done(a)
       ELSE actor' = [actor EXCEPT ![a].pc = "find", ![a].seen = config[actor[a].id],
                                   ![a].into = actor[a].id]
    /\ UNCHANGED <<files, made, ops, crashes, history>>
-----------------------------------------------------------------------------
(***************************************************************************)
(* _load_or_create_rns_identity of the worker, and the same in main of the *)
(* generator.                                                              *)
(***************************************************************************)
\* Variant: a missing key is replaced whether the identity had one or not.
Anyone(known) == TRUE
\* Only an identity that was never seen on the network gets a new key.
MayGetKey(known) == known.hash = NoKey

\* Variant: a key is generated without looking for the file.
NoStoredKey(i) == NoKey
StoredKey(i) == key[i]

FindKey(a) ==
    /\ At(a, "find")
    /\ LET c == actor[a]  k == StoredKey(c.id) IN
         /\ CASE k \in Keys -> actor' = [actor EXCEPT ![a].pc = "check", ![a].key = k]
              [] k = Partial -> Done(a)
              [] k = NoKey -> IF MayGetKey(c.seen) THEN Go(a, "newKey") ELSE Done(a)
         /\ raced' = [raced EXCEPT ![c.id] = @ \/
                          (key[c.id] = NoKey /\ \E b \in Actors \ {a} : Using(b, c.id) /\ At(b, "newKey"))]
    /\ UNCHANGED <<files, made, ops, crashes, saved, crossed, torn>>

\* Variant: no key comes from the generator.
NothingNew == NoKey
Fresh == made + 1

\* Identity.to_file opens the file,
NewKey(a) ==
    /\ At(a, "newKey") /\ made < MaxKeys
    /\ made' = made + 1
    /\ key' = [key EXCEPT ![actor[a].id] = Partial]
    /\ actor' = [actor EXCEPT ![a].pc = "writeKey", ![a].key = Fresh]
    /\ UNCHANGED <<config, marker, ops, crashes, history>>

\* Variant: that to_file failed goes unnoticed.
NotWritten(k) == Partial
ToFile(k) == k

\* and writes the key.
WriteKey(a) ==
    /\ At(a, "writeKey")
    /\ key' = [key EXCEPT ![actor[a].id] = ToFile(actor[a].key)]
    /\ Go(a, "check")
    /\ UNCHANGED <<config, marker, made, ops, crashes, history>>

\* _validate_network_identity, with the configuration as it was listed.
CheckHash(a) ==
    /\ At(a, "check")
    /\ IF actor[a].seen.hash \in {NoKey, actor[a].key} THEN Go(a, "read") ELSE Done(a)
    /\ UNCHANGED <<files, made, ops, crashes, history>>
-----------------------------------------------------------------------------
(***************************************************************************)
(* save_identity and update_network_identity: the configuration is read    *)
(* and written again, with another name or with another hash.              *)
(***************************************************************************)
\* Variant: the network hash is written with the configuration listed before.
FromListed(c, now) == IF c.op = "save" THEN now ELSE c.seen
\* _load_existing_or_none: read anew.
Basis(c, now) == now

\* A save keeps the hashes it finds.
Rewritten(c, old) ==
    IF c.op = "save" THEN Text(c.name, old.hash) ELSE Text(old.name, c.key)

ReadConfig(a) ==
    /\ At(a, "read")
    /\ LET c == actor[a]  now == config[c.id] IN
         IF Broken(now) \/ (now = Missing /\ c.op # "save")
         THEN Done(a) /\ UNCHANGED crossed
         ELSE /\ actor' = [actor EXCEPT ![a].pc = "truncate", ![a].seen = Rewritten(c, Basis(c, now))]
              /\ Cross(a, c.id)
    /\ UNCHANGED <<files, made, ops, crashes, saved, raced, torn>>

Truncate(a) ==
    /\ At(a, "truncate")
    /\ config' = [config EXCEPT ![actor[a].into] = Empty]
    /\ Go(a, "write")
    /\ UNCHANGED <<key, marker, made, ops, crashes, history>>

\* A text written over one that another writer has put there since leaves
\* the end of that one behind, when it is longer.
WriteConfig(a) ==
    /\ At(a, "write")
    /\ LET c == actor[a] IN
         /\ \E f \in {c.seen} \cup (IF config[c.into] \in {Empty, Missing} THEN {} ELSE {Corrupt}) :
               config' = [config EXCEPT ![c.into] = IF @ = Missing THEN @ ELSE f]
         /\ CASE c.op = "save" -> Done(a) /\ saved' = [saved EXCEPT ![c.id] = c.name]
              [] c.op = "work" /\ c.key # NoKey -> Go(a, "serve") /\ UNCHANGED saved
              [] c.op = "generate" /\ c.key # NoKey -> Done(a) /\ UNCHANGED saved
              [] OTHER -> Go(a, "mark") /\ UNCHANGED saved
    /\ UNCHANGED <<key, marker, made, ops, crashes, crossed, raced, torn>>
-----------------------------------------------------------------------------
\* A worker ends: stopped, or the controller goes.
Leave(a) ==
    /\ At(a, "serve")
    /\ Done(a)
    /\ UNCHANGED <<files, made, ops, crashes, history>>

\* remove_client stops the worker, then the files are deleted one by one.
StopWorker(a) ==
    /\ At(a, "stop")
    /\ actor' = [b \in Actors |-> IF b = a THEN [actor[a] EXCEPT !.pc = "unlink"]
                                  ELSE IF Using(b, actor[a].id) /\ At(b, "serve") THEN Free ELSE actor[b]]
    /\ UNCHANGED <<files, made, ops, crashes, history>>

Unlink(a) ==
    /\ At(a, "unlink")
    /\ LET i == actor[a].id IN
         \/ /\ config[i] # Missing
            /\ config' = [config EXCEPT ![i] = Missing]
            /\ saved' = [saved EXCEPT ![i] = FirstName]
            /\ UNCHANGED <<key, actor>>
         \/ /\ key[i] # NoKey
            /\ key' = [key EXCEPT ![i] = NoKey]
            /\ UNCHANGED <<config, actor, saved>>
         \/ /\ config[i] = Missing /\ key[i] = NoKey
            /\ Done(a)
            /\ UNCHANGED <<config, key, saved>>
    /\ UNCHANGED <<marker, made, ops, crashes, crossed, raced, torn>>

\* A generator that takes too long and a worker that does not stop are
\* killed; a thread ends with the controller.
Crash(a) ==
    /\ actor[a].op # "none" /\ ~At(a, "serve") /\ crashes < MaxCrashes
    /\ crashes' = crashes + 1
    /\ LET cut == CASE At(a, "write") -> {actor[a].into}
                     [] actor[a].pc \in {"writeKey", "unlink"} -> {actor[a].id}
                     [] OTHER -> {}
       IN torn' = [i \in Identities |-> torn[i] \/ i \in cut]
    /\ Done(a)
    /\ UNCHANGED <<files, made, ops, saved, crossed, raced>>
-----------------------------------------------------------------------------
Step(a) ==
    \/ EnsureDefault(a) \/ Mark(a) \/ List(a) \/ FindKey(a) \/ NewKey(a) \/ WriteKey(a) \/ CheckHash(a)
    \/ ReadConfig(a) \/ Truncate(a) \/ WriteConfig(a) \/ Leave(a) \/ StopWorker(a) \/ Unlink(a)

Next ==
    \E a \in Actors :
        \/ Step(a) \/ Crash(a)
        \/ \E i \in Identities :
             \/ \E name \in Names : Begin(a, "save", i, name)
             \/ \E op \in {"generate", "work", "remove"} : Begin(a, op, i, FirstName)

Spec == Init /\ [][Next]_vars
-----------------------------------------------------------------------------
Undisturbed(i) == ~crossed[i] /\ ~raced[i] /\ ~torn[i]

\* An identity known on the network never comes to have another key than the
\* one its hash was computed from, and a running worker uses that key: through
\* generators, workers and saves that overlap, and through kills at any step.
\* (Two first starts at once, and a removal of an identity in use, can.)
NeverAnotherKey ==
    \A i \in Identities : ~raced[i] =>
        /\ Readable(config[i]) /\ config[i].hash # NoKey => key[i] \in {NoKey, config[i].hash}
        /\ \A a \in Actors : Using(a, i) /\ At(a, "serve") => key[i] = actor[a].key

\* A whole key file is only ever deleted, with its identity.
KeyIsKept ==
    [][\A i \in Identities : ~raced'[i] /\ key[i] \in Keys =>
           \/ key'[i] = key[i]
           \/ key'[i] = NoKey /\ \E a \in Actors : Using(a, i) /\ At(a, "unlink")]_vars

\* A name once saved stays, whatever generators and workers write to the same
\* file, unless one of them read it while the save was being written.
SavedNameStays ==
    \A i \in Identities :
        Undisturbed(i) /\ saved[i] # FirstName /\ (\A a \in Actors : ~Writing(a, i))
            => config[i].name = saved[i]

\* The files of an identity that no actor uses are whole and fit each other, so
\* that it can be started again (once list_identities can read the others as
\* well), unless a write was cut or crossed.
StartsAgain ==
    \A i \in Identities :
        Undisturbed(i) /\ (\A a \in Actors : ~Using(a, i) /\ ~Writing(a, i))
            => /\ ~Broken(config[i]) /\ key[i] # Partial
               /\ config[i].hash \in {NoKey, key[i]}
=============================================================================
