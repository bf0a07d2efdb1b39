------------------------ MODULE LocalIdentity_proofs -------------------------
(***************************************************************************)
(* The key and the files of a local identity, for any number of threads    *)
(* and processes, identities, keys, operations and kills.                  *)
(***************************************************************************)
EXTENDS LocalIdentity, TLAPS

ActorRecord ==
    [op : {"none", "save", "generate", "work", "remove"},
     id : Identities,
     pc : {"none", "marker", "mark", "list", "find", "newKey", "writeKey", "check",
           "read", "truncate", "write", "serve", "stop", "unlink"},
     name : {FirstName} \cup Names, seen : Files,
     key : {NoKey} \cup Keys, into : Identities]

\* What an actor may be doing in each operation, where it has a key, and when
\* it writes the configuration of another identity than its own: only
\* ensure_default_identity does, before it has a key.
Shape(c) ==
    /\ c.op = "none" <=> c.pc = "none"
    /\ c.op = "save" => c.pc \in {"read", "truncate", "write"}
    /\ c.op = "remove" <=> c.pc \in {"stop", "unlink"}
    /\ c.op = "remove" => c.id # Default
    /\ c.op \notin {"generate", "work"} => c.key = NoKey /\ c.into = c.id
    /\ c.pc \in {"marker", "mark", "list", "find", "newKey"} => c.key = NoKey
    /\ c.pc \in {"writeKey", "check", "serve"} => c.key # NoKey
    /\ c.op \in {"generate", "work"} /\ c.pc = "read" => c.key # NoKey
    /\ c.pc \notin {"mark", "list", "truncate", "write"} => c.into = c.id
    /\ c.key # NoKey => c.into = c.id
    /\ c.op \in {"generate", "work"} /\ c.pc \in {"truncate", "write"} /\ c.key = NoKey
           => c.into = Default /\ c.seen.hash = NoKey
    /\ c.pc \in {"truncate", "write"} => Readable(c.seen)

TypeInv == TypeOK /\ \A a \in Actors : Shape(actor[a])

LEMMA FileFacts ==
    /\ \A f \in Files : f.name \in {FirstName} \cup Names /\ f.hash \in {NoKey} \cup Keys
    /\ \A f \in Files : Readable(f) \/ Broken(f) \/ f = Missing
    /\ {Missing, Empty, Corrupt} \subseteq Files
    /\ ~Readable(Missing) /\ ~Readable(Empty) /\ ~Readable(Corrupt) /\ ~Broken(Missing)
    /\ Empty # Missing /\ Corrupt # Missing /\ Missing.hash = NoKey /\ Missing.name = FirstName
    /\ \A name \in {FirstName} \cup Names, hash \in {NoKey} \cup Keys :
           /\ Text(name, hash) \in Files /\ Readable(Text(name, hash))
           /\ Text(name, hash).hash = hash /\ Text(name, hash) # Missing
BY DEF Files, Missing, Empty, Corrupt, Readable, Broken, Text

LEMMA KeyFacts == Partial \notin Keys /\ NoKey \notin Keys /\ Partial # NoKey
BY IdentityAssumption DEF Partial, NoKey, Keys

LEMMA FreeFits == Free \in ActorRecord /\ Shape(Free)
BY FileFacts DEF Free, ActorRecord, Shape, Identities
-----------------------------------------------------------------------------
\* A step of one actor keeps the types when its record does.
LEMMA OneActor ==
    ASSUME TypeInv, NEW a \in Actors, NEW d \in ActorRecord, Shape(d),
           actor' = [actor EXCEPT ![a] = d]
    PROVE  /\ actor' \in [Actors -> ActorRecord]
           /\ \A b \in Actors : Shape(actor'[b])
           /\ \A b \in Actors : actor'[b].pc \in {"check", "read", "serve"}
                                    /\ actor'[b].op \in {"generate", "work"} => actor'[b].key # NoKey
BY DEF TypeInv, TypeOK, ActorRecord, Shape

LEMMA ActorFits ==
    ASSUME TypeInv, NEW a \in Actors
    PROVE  actor[a] \in ActorRecord /\ Shape(actor[a])
BY DEF TypeInv, TypeOK, ActorRecord
-----------------------------------------------------------------------------
\* Everything but actor keeps its type.
RestOK ==
    /\ config \in [Identities -> Files]
    /\ key \in [Identities -> {NoKey, Partial} \cup Keys]
    /\ marker \in BOOLEAN
    /\ made \in 0 .. MaxKeys /\ ops \in 0 .. MaxOps /\ crashes \in 0 .. MaxCrashes
    /\ saved \in [Identities -> {FirstName} \cup Names]
    /\ crossed \in [Identities -> BOOLEAN] /\ raced \in [Identities -> BOOLEAN]
    /\ torn \in [Identities -> BOOLEAN]

LEMMA TypeParts ==
    ASSUME TypeInv, NEW a \in Actors, NEW d \in ActorRecord, Shape(d),
           actor' = [actor EXCEPT ![a] = d], RestOK'
    PROVE  TypeInv'
BY OneActor DEF TypeInv, TypeOK, RestOK, ActorRecord

LEMMA TypeRest == TypeInv => RestOK
BY DEF TypeInv, TypeOK, RestOK

\* Begin and the first steps, in which an actor lists the identities.
LEMMA TypeBegin ==
    ASSUME TypeInv, NEW a \in Actors, NEW op \in {"save", "generate", "work", "remove"},
           NEW i \in Identities, NEW name \in {FirstName} \cup Names, Begin(a, op, i, name)
    PROVE  TypeInv'
<1> DEFINE d == [Free EXCEPT !.op = op, !.id = i, !.into = i, !.name = name,
                     !.pc = CASE op = "save" -> "read" [] op = "remove" -> "stop" [] OTHER -> "marker"]
<1>1. d \in ActorRecord /\ Shape(d)
    BY FreeFits DEF Begin, Free, ActorRecord, Shape
<1>2. raced' \in [Identities -> BOOLEAN]
    BY TypeRest DEF Begin, RestOK
<1>3. ops' \in 0 .. MaxOps
    BY TypeRest, IdentityAssumption DEF RestOK, Begin
<1>4. UNCHANGED <<config, key, marker, made, crashes, saved, crossed, torn>>
    BY DEF Begin, files
<1>5. RestOK'
    BY <1>2, <1>3, <1>4, TypeRest DEF RestOK
<1> QED
    BY <1>1, <1>5, TypeParts DEF Begin

LEMMA TypeList ==
    ASSUME TypeInv, NEW a \in Actors, EnsureDefault(a) \/ Mark(a) \/ List(a)
    PROVE  TypeInv'
<1>1. RestOK'
    <2>1. UNCHANGED <<config, key, made, ops, crashes, saved, raced, torn>>
        BY DEF EnsureDefault, Mark, List, files, history
    <2>2. marker' \in BOOLEAN
        BY TypeRest DEF EnsureDefault, Mark, List, files, RestOK
    <2>3. crossed' \in [Identities -> BOOLEAN]
        BY TypeRest DEF EnsureDefault, Mark, List, history, RestOK, Cross, Identities
    <2> QED
        BY <2>1, <2>2, <2>3, TypeRest DEF RestOK
<1> DEFINE c == actor[a]
<1>2. c \in ActorRecord /\ Shape(c)
    BY ActorFits
<1>3. ASSUME NEW pc \in {"mark", "list"}, c.pc \in {"marker", "mark"},
             actor' = [actor EXCEPT ![a] = [c EXCEPT !.pc = pc]]
      PROVE  TypeInv'
    <2> DEFINE d == [c EXCEPT !.pc = pc]
    <2>1. d \in ActorRecord /\ Shape(d)
        BY <1>2, <1>3 DEF ActorRecord, Shape
    <2> QED
        BY <1>1, <1>3, <2>1, TypeParts
<1>4. ASSUME c.pc = "marker",
             actor' = [actor EXCEPT ![a] = [c EXCEPT !.pc = "truncate", !.into = Default,
                                                     !.seen = Text(FirstName, NoKey)]]
      PROVE  TypeInv'
    <2> DEFINE d == [c EXCEPT !.pc = "truncate", !.into = Default, !.seen = Text(FirstName, NoKey)]
    <2>1. d \in ActorRecord
        BY <1>2, FileFacts DEF ActorRecord, Identities
    <2>2. Shape(d)
        <3>1. c.op \in {"generate", "work"} /\ c.key = NoKey
            BY <1>2, <1>4 DEF ActorRecord, Shape
        <3>2. d.op = c.op /\ d.key = c.key /\ d.pc = "truncate" /\ d.into = Default
              /\ d.seen = Text(FirstName, NoKey)
            BY <1>2 DEF ActorRecord
        <3>3. Readable(d.seen) /\ d.seen.hash = NoKey
            BY <3>2 DEF Readable, Text
        <3> QED
            BY <1>2, <1>4, <3>1, <3>2, <3>3 DEF Shape
    <2> QED
        BY <1>1, <1>4, <2>1, <2>2, TypeParts
<1>5. ASSUME c.pc = "list",
             actor' = [actor EXCEPT ![a] = [c EXCEPT !.pc = "find", !.seen = config[c.id], !.into = c.id]]
      PROVE  TypeInv'
    <2> DEFINE d == [c EXCEPT !.pc = "find", !.seen = config[c.id], !.into = c.id]
    <2>1. d \in ActorRecord /\ Shape(d)
        BY <1>2, <1>5, TypeRest DEF ActorRecord, Shape, RestOK
    <2> QED
        BY <1>1, <1>5, <2>1, TypeParts
<1>6. ASSUME Done(a) PROVE TypeInv'
    BY <1>1, <1>6, FreeFits, TypeParts DEF Done
<1>7. CASE EnsureDefault(a)
    BY <1>3, <1>4, <1>7 DEF EnsureDefault, Go, At
<1>8. CASE Mark(a)
    BY <1>3, <1>8 DEF Mark, Go, At
<1>9. CASE List(a)
    BY <1>5, <1>6, <1>9 DEF List, At
<1> QED
    BY <1>7, <1>8, <1>9

\* The key is found, or generated and written.
LEMMA TypeKey ==
    ASSUME TypeInv, NEW a \in Actors, FindKey(a) \/ NewKey(a) \/ WriteKey(a) \/ CheckHash(a)
    PROVE  TypeInv'
<1> DEFINE c == actor[a]
<1>1. c \in ActorRecord /\ Shape(c) /\ c.id \in Identities
    BY ActorFits DEF ActorRecord
<1>2. UNCHANGED <<config, marker, ops, crashes, saved, crossed, torn>>
    BY DEF FindKey, NewKey, WriteKey, CheckHash, files, history
<1>3. RestOK'
    <2>1. raced' \in [Identities -> BOOLEAN]
        BY TypeRest, <1>1 DEF FindKey, NewKey, WriteKey, CheckHash, history, RestOK
    <2>2. made' \in 0 .. MaxKeys
        <3>1. made \in 0 .. MaxKeys
            BY TypeRest DEF RestOK
        <3>2. made' = made \/ (made < MaxKeys /\ made' = made + 1)
            BY DEF FindKey, NewKey, WriteKey, CheckHash
        <3> QED
            BY <3>1, <3>2, IdentityAssumption
    <2>3. key' \in [Identities -> {NoKey, Partial} \cup Keys]
        <3>1. CASE NewKey(a)
            BY <1>1, <3>1, TypeRest DEF NewKey, RestOK
        <3>2. CASE WriteKey(a)
            <4>1. c.key \in {NoKey} \cup Keys
                BY <1>1 DEF ActorRecord
            <4> QED
                BY <3>2, <4>1, TypeRest DEF WriteKey, ToFile, RestOK
        <3>3. CASE FindKey(a) \/ CheckHash(a)
            BY <3>3, TypeRest DEF FindKey, CheckHash, files, RestOK
        <3> QED
            BY <3>1, <3>2, <3>3
    <2> QED
        BY <1>2, <2>1, <2>2, <2>3, TypeRest DEF RestOK
<1>4. ASSUME Done(a) PROVE TypeInv'
    BY <1>3, <1>4, FreeFits, TypeParts DEF Done
<1>5. ASSUME NEW k \in Keys, c.pc = "find",
             actor' = [actor EXCEPT ![a] = [c EXCEPT !.pc = "check", !.key = k]]
      PROVE  TypeInv'
    <2> DEFINE d == [c EXCEPT !.pc = "check", !.key = k]
    <2>1. d \in ActorRecord /\ Shape(d)
        BY <1>1, <1>5, KeyFacts DEF ActorRecord, Shape
    <2> QED
        BY <1>3, <1>5, <2>1, TypeParts
<1>6. ASSUME NEW pc \in {"newKey", "check", "read"}, actor' = [actor EXCEPT ![a] = [c EXCEPT !.pc = pc]],
             \/ c.pc = "find" /\ pc = "newKey"
             \/ c.pc = "writeKey" /\ pc = "check"
             \/ c.pc = "check" /\ pc = "read"
      PROVE  TypeInv'
    <2> DEFINE d == [c EXCEPT !.pc = pc]
    <2>1. d \in ActorRecord /\ Shape(d)
        BY <1>1, <1>6 DEF ActorRecord, Shape
    <2> QED
        BY <1>3, <1>6, <2>1, TypeParts
<1>7. CASE FindKey(a)
    <2>1. key[c.id] \in {NoKey, Partial} \cup Keys /\ c.pc = "find"
        BY <1>1, <1>7, TypeRest DEF RestOK, FindKey, At
    <2>2. CASE key[c.id] \in Keys
        <3>1. actor' = [actor EXCEPT ![a] = [c EXCEPT !.pc = "check", !.key = key[c.id]]]
            BY <1>7, <2>2, KeyFacts DEF FindKey, StoredKey
        <3> QED
            BY <1>5, <2>1, <2>2, <3>1
    <2>3. CASE key[c.id] \notin Keys
        <3>1. Done(a) \/ Go(a, "newKey")
            BY <1>7, <2>1, <2>3, KeyFacts DEF FindKey, StoredKey
        <3> QED
            BY <1>4, <1>6, <2>1, <3>1 DEF Go
    <2> QED
        BY <2>2, <2>3
<1>8. CASE NewKey(a)
    <2> DEFINE d == [c EXCEPT !.pc = "writeKey", !.key = Fresh]
    <2>1. Fresh \in Keys /\ c.pc = "newKey"
        BY <1>8, IdentityAssumption, TypeRest DEF NewKey, At, Fresh, Keys, RestOK
    <2>2. d \in ActorRecord /\ Shape(d)
        BY <1>1, <2>1, KeyFacts DEF ActorRecord, Shape
    <2> QED
        BY <1>3, <1>8, <2>2, TypeParts DEF NewKey
<1>9. CASE WriteKey(a)
    BY <1>6, <1>9 DEF WriteKey, At, Go
<1>10. CASE CheckHash(a)
    BY <1>4, <1>6, <1>10 DEF CheckHash, At, Go
<1> QED
    BY <1>7, <1>8, <1>9, <1>10

\* The configuration is read and written again.
LEMMA TypeConfig ==
    ASSUME TypeInv, NEW a \in Actors, ReadConfig(a) \/ Truncate(a) \/ WriteConfig(a)
    PROVE  TypeInv'
<1> DEFINE c == actor[a]
<1>1. /\ c \in ActorRecord /\ Shape(c) /\ c.id \in Identities /\ c.into \in Identities
      /\ c.seen \in Files /\ c.key \in {NoKey} \cup Keys /\ c.name \in {FirstName} \cup Names
    BY ActorFits DEF ActorRecord
<1>2. UNCHANGED <<key, marker, made, ops, crashes, raced, torn>>
    BY DEF ReadConfig, Truncate, WriteConfig, files, history
<1>3. RestOK'
    <2>1. crossed' \in [Identities -> BOOLEAN]
        BY <1>1, TypeRest DEF ReadConfig, Truncate, WriteConfig, history, Cross, RestOK
    <2>2. config' \in [Identities -> Files]
        BY <1>1, FileFacts, TypeRest DEF ReadConfig, Truncate, WriteConfig, files, RestOK
    <2>3. saved' \in [Identities -> {FirstName} \cup Names]
        BY <1>1, TypeRest DEF ReadConfig, Truncate, WriteConfig, history, RestOK
    <2> QED
        BY <1>2, <2>1, <2>2, <2>3, TypeRest DEF RestOK
<1>4. ASSUME Done(a) PROVE TypeInv'
    BY <1>3, <1>4, FreeFits, TypeParts DEF Done
<1>5. ASSUME c.pc = "read",
             actor' = [actor EXCEPT ![a] = [c EXCEPT !.pc = "truncate", !.seen = Rewritten(c, config[c.id])]]
      PROVE  TypeInv'
    <2> DEFINE f == Rewritten(c, config[c.id])
               d == [c EXCEPT !.pc = "truncate", !.seen = f]
    <2>1. config[c.id] \in Files
        BY <1>1, TypeRest DEF RestOK
    <2>2. f \in Files /\ Readable(f)
        BY <1>1, <2>1, FileFacts DEF Rewritten
    <2> HIDE DEF f
    <2>3. d \in ActorRecord /\ Shape(d)
        BY <1>1, <1>5, <2>2 DEF ActorRecord, Shape
    <2> QED
        BY <1>3, <1>5, <2>3, TypeParts DEF f
<1>6. ASSUME NEW pc \in {"write", "serve", "mark"}, actor' = [actor EXCEPT ![a] = [c EXCEPT !.pc = pc]],
             \/ c.pc = "truncate" /\ pc = "write"
             \/ c.pc = "write" /\ pc = "serve" /\ c.op = "work" /\ c.key # NoKey
             \/ c.pc = "write" /\ pc = "mark" /\ c.op \in {"generate", "work"} /\ c.key = NoKey
      PROVE  TypeInv'
    <2> DEFINE d == [c EXCEPT !.pc = pc]
    <2>1. d \in ActorRecord /\ Shape(d)
        BY <1>1, <1>6 DEF ActorRecord, Shape
    <2> QED
        BY <1>3, <1>6, <2>1, TypeParts
<1>7. CASE ReadConfig(a)
    BY <1>4, <1>5, <1>7 DEF ReadConfig, Basis, At
<1>8. CASE Truncate(a)
    BY <1>6, <1>8 DEF Truncate, At, Go
<1>9. CASE WriteConfig(a)
    <2>1. c.pc = "write"
        BY <1>9 DEF WriteConfig, At
    <2>2. c.op \in {"save", "generate", "work"}
        BY <1>1, <2>1 DEF ActorRecord, Shape
    <2>3. \/ Done(a)
          \/ Go(a, "serve") /\ c.op = "work" /\ c.key # NoKey
          \/ Go(a, "mark") /\ c.op \in {"generate", "work"} /\ c.key = NoKey
        BY <1>9, <2>2 DEF WriteConfig
    <2> QED
        BY <1>4, <1>6, <2>1, <2>3 DEF Go
<1> QED
    BY <1>7, <1>8, <1>9

\* A worker ends, an identity is removed, an actor is killed.
LEMMA TypeEnd ==
    ASSUME TypeInv, NEW a \in Actors, Leave(a) \/ StopWorker(a) \/ Unlink(a) \/ Crash(a)
    PROVE  TypeInv'
<1> DEFINE c == actor[a]
<1>1. c \in ActorRecord /\ Shape(c) /\ c.id \in Identities
    BY ActorFits DEF ActorRecord
<1>2. UNCHANGED <<marker, made, ops, crossed, raced>>
    BY DEF Leave, StopWorker, Unlink, Crash, files, history
<1>3. RestOK'
    <2>1. torn' \in [Identities -> BOOLEAN]
        BY TypeRest DEF Leave, StopWorker, Unlink, Crash, history, RestOK
    <2>2. config' \in [Identities -> Files] /\ key' \in [Identities -> {NoKey, Partial} \cup Keys]
        BY <1>1, FileFacts, TypeRest DEF Leave, StopWorker, Unlink, Crash, files, RestOK
    <2>3. saved' \in [Identities -> {FirstName} \cup Names] /\ crashes' \in 0 .. MaxCrashes
        BY <1>1, IdentityAssumption, TypeRest DEF Leave, StopWorker, Unlink, Crash, history, RestOK
    <2> QED
        BY <1>2, <2>1, <2>2, <2>3, TypeRest DEF RestOK
<1>4. ASSUME Done(a) PROVE TypeInv'
    BY <1>3, <1>4, FreeFits, TypeParts DEF Done
<1>5. CASE StopWorker(a)
    <2> DEFINE d == [c EXCEPT !.pc = "unlink"]
    <2>1. d \in ActorRecord /\ Shape(d)
        BY <1>1, <1>5 DEF StopWorker, At, ActorRecord, Shape
    <2>2. ASSUME NEW b \in Actors PROVE actor'[b] \in {d, Free, actor[b]}
        BY <1>5 DEF StopWorker
    <2>3. ASSUME NEW b \in Actors PROVE actor'[b] \in ActorRecord /\ Shape(actor'[b])
        BY <2>1, <2>2, ActorFits, FreeFits
    <2>4. actor' \in [Actors -> ActorRecord]
        BY <1>5, <2>3 DEF StopWorker
    <2>5. \A b \in Actors : actor'[b].pc \in {"check", "read", "serve"}
                                /\ actor'[b].op \in {"generate", "work"} => actor'[b].key # NoKey
        BY <2>3 DEF Shape
    <2> QED
        BY <1>3, <2>3, <2>4, <2>5 DEF TypeInv, TypeOK, RestOK, ActorRecord
<1>6. CASE Unlink(a)
    <2>1. CASE UNCHANGED actor
        BY <1>3, <2>1 DEF TypeInv, TypeOK, RestOK
    <2> QED
        BY <1>4, <1>6, <2>1 DEF Unlink
<1>7. CASE Leave(a) \/ Crash(a)
    BY <1>4, <1>7 DEF Leave, Crash
<1> QED
    BY <1>5, <1>6, <1>7
-----------------------------------------------------------------------------
LEMMA TypeStep == TypeInv /\ [Next]_vars => TypeInv'
<1> SUFFICES ASSUME TypeInv, [Next]_vars PROVE TypeInv'
    OBVIOUS
<1>1. ASSUME NEW a \in Actors, Step(a) \/ Crash(a) PROVE TypeInv'
    BY <1>1, TypeList, TypeKey, TypeConfig, TypeEnd DEF Step
<1>2. ASSUME NEW a \in Actors, NEW i \in Identities,
             \/ \E name \in Names : Begin(a, "save", i, name)
             \/ \E op \in {"generate", "work", "remove"} : Begin(a, op, i, FirstName)
      PROVE  TypeInv'
    BY <1>2, TypeBegin
<1>3. CASE UNCHANGED vars
    BY <1>3 DEF vars, files, history, TypeInv, TypeOK
<1> QED
    BY <1>1, <1>2, <1>3 DEF Next

LEMMA TypeInit == Init => TypeInv
<1> SUFFICES ASSUME Init PROVE TypeInv
    OBVIOUS
<1>1. RestOK
    <2>1. made \in 0 .. MaxKeys /\ ops \in 0 .. MaxOps /\ crashes \in 0 .. MaxCrashes
        BY IdentityAssumption DEF Init
    <2>2. config \in [Identities -> Files] /\ saved \in [Identities -> {FirstName} \cup Names]
        BY FileFacts DEF Init
    <2> QED
        BY <2>1, <2>2 DEF Init, RestOK
<1>2. actor \in [Actors -> ActorRecord] /\ \A a \in Actors : actor[a] = Free
    BY FreeFits DEF Init
<1> QED
    BY <1>1, <1>2, FreeFits DEF TypeInv, TypeOK, RestOK, ActorRecord, Free

\* The files and the actors stay well formed, and a worker, a generator or a
\* validation past the key has one.
THEOREM TypeCorrect == Spec => []TypeOK
<1>1. TypeInv => TypeOK
    BY DEF TypeInv
<1> QED
    BY <1>1, TypeInit, TypeStep, PTL DEF Spec
-----------------------------------------------------------------------------
(***************************************************************************)
(* The key.  A hash that anyone could still write into the configuration   *)
(* of i must be the hash of its key; so the invariant follows the hashes   *)
(* that actors have read.                                                  *)
(***************************************************************************)
\* The actor holds a configuration of i that it may compare or write.
Knows(c, i) ==
    \/ c.pc \in {"find", "newKey", "writeKey", "check"} /\ c.id = i
    \/ c.pc \in {"truncate", "write"} /\ c.into = i

Known(i, h) ==
    \/ Readable(config[i]) /\ config[i].hash = h
    \/ \E a \in Actors : Knows(actor[a], i) /\ actor[a].seen.hash = h

\* All hashes are of the key there is; there is none before the key is
\* written, and one only when the key has been deleted.
HashInv(i) ==
    /\ \A h : key[i] \in Keys /\ Known(i, h) => h \in {NoKey, key[i]}
    /\ \A h : (key[i] = Partial \/ (i = Default /\ key[i] = NoKey) \/ config[i] = Missing) /\ Known(i, h)
                  => h = NoKey
    /\ \A g, h : key[i] = NoKey /\ Known(i, g) /\ Known(i, h) => g = h

\* A key somebody works with is the one in the file; one actor at most is
\* about to write a first key; who deletes the files is alone.
UserInv(i) ==
    \A a \in Actors : Using(a, i) =>
        /\ actor[a].key # NoKey /\ ~At(a, "writeKey") => key[i] = actor[a].key
        /\ At(a, "newKey") => key[i] = NoKey /\ actor[a].seen.hash = NoKey
        /\ At(a, "writeKey") => key[i] = Partial
        /\ \A b \in Actors \ {a} : Using(b, i) =>
             /\ At(a, "newKey") => ~At(b, "newKey")
             /\ At(a, "writeKey") => ~At(b, "writeKey")
             /\ At(a, "stop") => At(b, "serve")
             /\ ~At(a, "unlink")

KeyInv(i) == HashInv(i) /\ UserInv(i)

\* A hash an actor may come to hold while the key stays.
May(i, h) ==
    \/ Known(i, h)
    \/ h = NoKey /\ (i = Default \/ config[i] = Missing)
    \/ h = key[i] /\ key[i] \in Keys /\ config[i] # Missing

\* What actor a may become, beside the others that use i.
MayAct(a, d, i) ==
    /\ d.key # NoKey => key[i] = d.key
    /\ d.pc \notin {"writeKey", "unlink"}
    /\ d.pc = "newKey" => key[i] = NoKey /\ d.seen.hash = NoKey
    /\ \A b \in Actors \ {a} : Using(b, i) =>
         /\ d.pc = "newKey" => ~At(b, "newKey")
         /\ d.pc = "stop" => At(b, "serve")
         /\ ~At(b, "stop") /\ ~At(b, "unlink")

\* A step of one actor that leaves the key alone.
LEMMA ActorStep ==
    ASSUME TypeInv, NEW i \in Identities, KeyInv(i), NEW a \in Actors, NEW d,
           actor' = [actor EXCEPT ![a] = d], key'[i] = key[i],
           config'[i] = Missing => config[i] = Missing,
           Readable(config'[i]) => Known(i, config'[i].hash),
           Knows(d, i) => May(i, d.seen.hash),
           d.op # "none" /\ d.id = i => MayAct(a, d, i)
    PROVE  KeyInv(i)'
<1>1. /\ actor'[a] = d
      /\ \A b \in Actors : b # a => actor'[b] = actor[b]
    BY DEF TypeInv, TypeOK
<1>2. ASSUME NEW h, Known(i, h)' PROVE May(i, h)
    <2>1. CASE Readable(config'[i]) /\ config'[i].hash = h
        BY <2>1 DEF May
    <2>2. ASSUME NEW b \in Actors, Knows(actor'[b], i), actor'[b].seen.hash = h PROVE May(i, h)
        BY <1>1, <2>2 DEF May, Known
    <2> QED
        BY <1>2, <2>1, <2>2 DEF Known
<1>3. HashInv(i)'
    <2>1. ASSUME NEW h, key'[i] \in Keys, Known(i, h)' PROVE h \in {NoKey, key'[i]}
        BY <1>2, <2>1 DEF May, KeyInv, HashInv
    <2>2. ASSUME NEW h, Known(i, h)',
                 key'[i] = Partial \/ (i = Default /\ key'[i] = NoKey) \/ config'[i] = Missing
          PROVE  h = NoKey
        BY <1>2, <2>2, KeyFacts DEF May, KeyInv, HashInv
    <2>3. ASSUME NEW g, NEW h, key'[i] = NoKey, Known(i, g)', Known(i, h)' PROVE g = h
        BY <1>2, <2>3, KeyFacts DEF May, KeyInv, HashInv
    <2> QED
        BY <2>1, <2>2, <2>3 DEF HashInv
<1>4. UserInv(i)'
    BY <1>1 DEF KeyInv, UserInv, MayAct, Using, At
<1> QED
    BY <1>3, <1>4 DEF KeyInv

\* The actor ends.
LEMMA ActorEnds ==
    ASSUME TypeInv, NEW i \in Identities, KeyInv(i), NEW a \in Actors, Done(a),
           key'[i] = key[i], config'[i] = config[i]
    PROVE  KeyInv(i)'
BY ActorStep DEF Done, Free, Knows, Known

\* An actor in the middle of its work has no remover beside it.
LEMMA NoRemover ==
    ASSUME NEW i, KeyInv(i), NEW a \in Actors, Using(a, i), ~At(a, "serve")
    PROVE  \A b \in Actors \ {a} : Using(b, i) => ~At(b, "stop") /\ ~At(b, "unlink")
BY DEF KeyInv, UserInv

LEMMA KeyBegin ==
    ASSUME TypeInv, NEW i \in Identities, KeyInv(i), ~raced'[i],
           NEW a \in Actors, NEW op \in {"save", "generate", "work", "remove"},
           NEW j \in Identities, NEW name \in {FirstName} \cup Names, Begin(a, op, j, name)
    PROVE  KeyInv(i)'
<1> DEFINE d == [Free EXCEPT !.op = op, !.id = j, !.into = j, !.name = name,
                     !.pc = CASE op = "save" -> "read" [] op = "remove" -> "stop" [] OTHER -> "marker"]
<1>1. /\ actor' = [actor EXCEPT ![a] = d] /\ config' = config /\ key' = key
      /\ d.pc = (CASE op = "save" -> "read" [] op = "remove" -> "stop" [] OTHER -> "marker")
      /\ d.op = op /\ d.id = j /\ d.key = NoKey
    BY DEF Begin, files, Free
<1>2. d.pc \in {"read", "stop", "marker"} /\ (d.pc = "stop" => op = "remove")
    BY <1>1
<1> HIDE DEF d
<1>3. ASSUME j = i PROVE MayAct(a, d, i)
    <2>1. \A b \in Actors : ~(/\ Using(b, i) /\ ~At(b, "serve")
                              /\ (op = "remove" \/ actor[b].op = "remove"))
        BY <1>3 DEF Begin, TypeInv, TypeOK
    <2>2. \A b \in Actors : At(b, "stop") \/ At(b, "unlink") => actor[b].op = "remove" /\ ~At(b, "serve")
        BY DEF TypeInv, Shape, At
    <2> QED
        BY <1>1, <1>2, <2>1, <2>2 DEF MayAct
<1>4. ~Knows(d, i)
    BY <1>2 DEF Knows
<1>5. Readable(config'[i]) => Known(i, config'[i].hash)
    BY <1>1 DEF Known
<1> QED
    BY <1>1, <1>3, <1>4, <1>5, ActorStep

LEMMA KeyList ==
    ASSUME TypeInv, NEW i \in Identities, KeyInv(i), NEW a \in Actors,
           EnsureDefault(a) \/ Mark(a) \/ List(a)
    PROVE  KeyInv(i)'
<1> DEFINE c == actor[a]
<1>1. c \in ActorRecord /\ Shape(c) /\ config' = config /\ key' = key
    BY ActorFits DEF EnsureDefault, Mark, List, files
<1>2. Readable(config'[i]) => Known(i, config'[i].hash)
    BY <1>1 DEF Known
<1>3. c.pc \in {"marker", "mark", "list"} /\ c.op \in {"generate", "work"} /\ c.key = NoKey
    <2>1. c.pc \in {"marker", "mark", "list"}
        BY DEF EnsureDefault, Mark, List, At
    <2> QED
        BY <1>1, <2>1 DEF ActorRecord, Shape
<1>4. ASSUME NEW d, d.id = c.id, d.key = NoKey,
             d.pc \in {"mark", "list", "truncate", "find"}, d.id = i
      PROVE  MayAct(a, d, i)
    <2>1. Using(a, i) /\ ~At(a, "serve")
        BY <1>3, <1>4 DEF Using, At
    <2> QED
        BY <1>4, <2>1, NoRemover DEF MayAct
<1>5. CASE Done(a)
    BY <1>1, <1>5, ActorEnds
<1>6. ASSUME NEW pc \in {"mark", "list"}, Go(a, pc) PROVE KeyInv(i)'
    <2> DEFINE d == [c EXCEPT !.pc = pc]
    <2>1. d.id = c.id /\ d.key = NoKey /\ d.pc = pc /\ actor' = [actor EXCEPT ![a] = d]
        BY <1>1, <1>3, <1>6 DEF ActorRecord, Go
    <2> HIDE DEF d
    <2>2. ~Knows(d, i)
        BY <2>1 DEF Knows
    <2> QED
        BY <1>1, <1>2, <1>4, <2>1, <2>2, ActorStep
<1>7. ASSUME actor' = [actor EXCEPT ![a] = [c EXCEPT !.pc = "truncate", !.into = Default,
                                                     !.seen = Text(FirstName, NoKey)]]
      PROVE  KeyInv(i)'
    <2> DEFINE d == [c EXCEPT !.pc = "truncate", !.into = Default, !.seen = Text(FirstName, NoKey)]
    <2>1. /\ d.id = c.id /\ d.key = NoKey /\ d.pc = "truncate" /\ d.into = Default
          /\ d.seen.hash = NoKey /\ actor' = [actor EXCEPT ![a] = d]
        BY <1>1, <1>3, <1>7, FileFacts DEF ActorRecord
    <2> HIDE DEF d
    <2>2. Knows(d, i) => May(i, d.seen.hash)
        BY <2>1 DEF Knows, May
    <2> QED
        BY <1>1, <1>2, <1>4, <2>1, <2>2, ActorStep
<1>8. ASSUME Readable(config[c.id]),
             actor' = [actor EXCEPT ![a] = [c EXCEPT !.pc = "find", !.seen = config[c.id], !.into = c.id]]
      PROVE  KeyInv(i)'
    <2> DEFINE d == [c EXCEPT !.pc = "find", !.seen = config[c.id], !.into = c.id]
    <2>1. /\ d.id = c.id /\ d.key = NoKey /\ d.pc = "find" /\ d.seen = config[c.id]
          /\ actor' = [actor EXCEPT ![a] = d]
        BY <1>1, <1>3, <1>8 DEF ActorRecord
    <2> HIDE DEF d
    <2>2. Knows(d, i) => May(i, d.seen.hash)
        BY <1>8, <2>1 DEF Knows, May, Known
    <2> QED
        BY <1>1, <1>2, <1>4, <2>1, <2>2, ActorStep
<1>9. CASE EnsureDefault(a)
    BY <1>6, <1>7, <1>9 DEF EnsureDefault
<1>10. CASE Mark(a)
    BY <1>6, <1>10 DEF Mark
<1>11. CASE List(a)
    <2>1. config[c.id] \in Files /\ c.id \in Identities
        BY <1>1, TypeRest DEF RestOK, ActorRecord
    <2>2. CASE Broken(config[c.id]) \/ config[c.id] = Missing
        BY <1>5, <1>11, <2>1, <2>2 DEF List
    <2>3. CASE ~(Broken(config[c.id]) \/ config[c.id] = Missing)
        <3>1. Readable(config[c.id])
            BY <2>1, <2>3, FileFacts
        <3> QED
            BY <1>5, <1>8, <1>11, <3>1 DEF List
    <2> QED
        BY <2>2, <2>3
<1> QED
    BY <1>9, <1>10, <1>11

\* FindKey and CheckHash: the key that is found is the key.
LEMMA KeyFind ==
    ASSUME TypeInv, NEW i \in Identities, KeyInv(i), ~raced'[i], NEW a \in Actors,
           FindKey(a) \/ CheckHash(a)
    PROVE  KeyInv(i)'
<1> DEFINE c == actor[a]
<1>1. /\ c \in ActorRecord /\ Shape(c) /\ config' = config /\ key' = key
      /\ c.id \in Identities /\ key[c.id] \in {NoKey, Partial} \cup Keys
    BY ActorFits, TypeRest DEF FindKey, CheckHash, files, ActorRecord, RestOK
<1>2. Readable(config'[i]) => Known(i, config'[i].hash)
    BY <1>1 DEF Known
<1>3. c.pc \in {"find", "check"} /\ c.op # "none"
    BY <1>1 DEF FindKey, CheckHash, At, Shape
<1>4. c.id = i => \A b \in Actors \ {a} : Using(b, i) => ~At(b, "stop") /\ ~At(b, "unlink")
    BY <1>3, NoRemover DEF Using, At
<1>5. CASE Done(a)
    BY <1>1, <1>5, ActorEnds
<1>6. ASSUME NEW k \in Keys, k = key[c.id], actor' = [actor EXCEPT ![a] = [c EXCEPT !.pc = "check", !.key = k]],
             c.pc = "find"
      PROVE  KeyInv(i)'
    <2> DEFINE d == [c EXCEPT !.pc = "check", !.key = k]
    <2>1. /\ d.id = c.id /\ d.key = k /\ d.pc = "check" /\ d.seen = c.seen
          /\ actor' = [actor EXCEPT ![a] = d]
        BY <1>1, <1>6 DEF ActorRecord
    <2> HIDE DEF d
    <2>2. Knows(d, i) => May(i, d.seen.hash)
        BY <1>6, <2>1 DEF Knows, May, Known
    <2>3. d.id = i => MayAct(a, d, i)
        BY <1>4, <1>6, <2>1 DEF MayAct
    <2> QED
        BY <1>1, <1>2, <2>1, <2>2, <2>3, ActorStep
<1>7. ASSUME Go(a, "newKey"), c.pc = "find", key[c.id] = NoKey, c.seen.hash = NoKey,
             c.id = i => \A b \in Actors \ {a} : Using(b, i) => ~At(b, "newKey")
      PROVE  KeyInv(i)'
    <2> DEFINE d == [c EXCEPT !.pc = "newKey"]
    <2>1. /\ d.id = c.id /\ d.key = c.key /\ d.pc = "newKey" /\ d.seen = c.seen
          /\ actor' = [actor EXCEPT ![a] = d]
        BY <1>1, <1>7 DEF ActorRecord, Go
    <2> HIDE DEF d
    <2>2. Knows(d, i) => May(i, d.seen.hash)
        BY <1>7, <2>1 DEF Knows, May, Known
    <2>3. d.id = i => MayAct(a, d, i)
        BY <1>1, <1>4, <1>7, <2>1 DEF MayAct, Shape
    <2> QED
        BY <1>1, <1>2, <2>1, <2>2, <2>3, ActorStep
<1>8. CASE FindKey(a)
    <2>1. c.pc = "find"
        BY <1>8 DEF FindKey, At
    <2>2. CASE key[c.id] \in Keys
        <3>1. actor' = [actor EXCEPT ![a] = [c EXCEPT !.pc = "check", !.key = key[c.id]]]
            BY <1>8, <2>2, KeyFacts DEF FindKey, StoredKey
        <3> QED
            BY <1>6, <2>1, <2>2, <3>1
    <2>3. CASE key[c.id] = Partial
        BY <1>5, <1>8, <2>3, KeyFacts DEF FindKey, StoredKey
    <2>4. CASE key[c.id] = NoKey
        <3>1. Done(a) \/ (Go(a, "newKey") /\ c.seen.hash = NoKey)
            BY <1>8, <2>4, KeyFacts DEF FindKey, StoredKey, MayGetKey
        <3>2. ASSUME c.id = i PROVE \A b \in Actors \ {a} : Using(b, i) => ~At(b, "newKey")
            BY <1>8, <2>4, <3>2 DEF FindKey, TypeInv, TypeOK
        <3> QED
            BY <1>5, <1>7, <2>1, <2>4, <3>1, <3>2
    <2> QED
        BY <1>1, <2>2, <2>3, <2>4
<1>9. CASE CheckHash(a)
    <2>1. c.pc = "check"
        BY <1>9 DEF CheckHash, At
    <2>2. CASE Go(a, "read")
        <3> DEFINE d == [c EXCEPT !.pc = "read"]
        <3>1. d.id = c.id /\ d.key = c.key /\ d.pc = "read" /\ actor' = [actor EXCEPT ![a] = d]
            BY <1>1, <2>2 DEF ActorRecord, Go
        <3> HIDE DEF d
        <3>2. ~Knows(d, i)
            BY <3>1 DEF Knows
        <3>3. d.id = i => MayAct(a, d, i)
            BY <1>3, <1>4, <2>1, <3>1 DEF MayAct, KeyInv, UserInv, Using, At
        <3> QED
            BY <1>1, <1>2, <3>1, <3>2, <3>3, ActorStep
    <2> QED
        BY <1>5, <1>9, <2>2 DEF CheckHash
<1> QED
    BY <1>8, <1>9

\* A key is generated where there is none and no hash of one: the file is
\* opened, and then written.
LEMMA KeyNew ==
    ASSUME TypeInv, NEW i \in Identities, KeyInv(i), NEW a \in Actors, NewKey(a) \/ WriteKey(a)
    PROVE  KeyInv(i)'
<1> DEFINE c == actor[a]
<1>1. /\ c \in ActorRecord /\ Shape(c) /\ config' = config
      /\ c.id \in Identities /\ key \in [Identities -> {NoKey, Partial} \cup Keys]
      /\ c.pc \in {"newKey", "writeKey"} /\ c.op # "none"
    BY ActorFits, TypeRest DEF NewKey, WriteKey, At, Shape, ActorRecord, RestOK
<1>2. Readable(config'[i]) => Known(i, config'[i].hash)
    BY <1>1 DEF Known
<1>3. PICK d :
          /\ actor' = [actor EXCEPT ![a] = d] /\ d.id = c.id /\ d.op = c.op /\ d.seen = c.seen
          /\ d.pc = IF c.pc = "newKey" THEN "writeKey" ELSE "check"
          /\ d.key \in Keys /\ (c.pc = "writeKey" => d.key = c.key)
          /\ key' = [key EXCEPT ![c.id] = IF c.pc = "newKey" THEN Partial ELSE d.key]
    <2>1. CASE NewKey(a)
        <3> DEFINE d == [c EXCEPT !.pc = "writeKey", !.key = Fresh]
        <3>1. Fresh \in Keys /\ c.pc = "newKey"
            BY <2>1, IdentityAssumption, TypeRest DEF NewKey, At, Fresh, Keys, RestOK
        <3>2. actor' = [actor EXCEPT ![a] = d] /\ key' = [key EXCEPT ![c.id] = Partial]
            BY <2>1 DEF NewKey
        <3>3. d.id = c.id /\ d.op = c.op /\ d.seen = c.seen /\ d.pc = "writeKey" /\ d.key = Fresh
            BY <1>1 DEF ActorRecord
        <3> HIDE DEF d
        <3> QED
            BY <3>1, <3>2, <3>3
    <2>2. CASE WriteKey(a)
        <3> DEFINE d == [c EXCEPT !.pc = "check"]
        <3>1. c.pc = "writeKey" /\ c.key \in Keys
            BY <1>1, <2>2 DEF WriteKey, At, Shape, ActorRecord
        <3>2. actor' = [actor EXCEPT ![a] = d] /\ key' = [key EXCEPT ![c.id] = c.key]
            BY <2>2 DEF WriteKey, Go, ToFile
        <3>3. d.id = c.id /\ d.op = c.op /\ d.seen = c.seen /\ d.pc = "check" /\ d.key = c.key
            BY <1>1 DEF ActorRecord
        <3> HIDE DEF d
        <3> QED
            BY <3>1, <3>2, <3>3
    <2> QED
        BY <2>1, <2>2
<1>4. CASE c.id # i
    <2>1. ~Knows(d, i) /\ key'[i] = key[i]
        BY <1>1, <1>3, <1>4 DEF Knows
    <2> QED
        BY <1>1, <1>2, <1>3, <1>4, <2>1, ActorStep
<1>5. CASE c.id = i
    <2>1. key'[i] = IF c.pc = "newKey" THEN Partial ELSE d.key
        BY <1>1, <1>3, <1>5
    <2>2. key[i] = IF c.pc = "newKey" THEN NoKey ELSE Partial
        BY <1>1, <1>5 DEF KeyInv, UserInv, Using, At
    <2>3. ASSUME NEW h, Known(i, h) PROVE h = NoKey
        <3>1. ASSUME c.pc = "newKey" PROVE Known(i, NoKey)
            <4>1. c.seen.hash = NoKey
                BY <1>1, <1>5, <3>1 DEF KeyInv, UserInv, Using, At
            <4>2. Knows(c, i)
                BY <1>5, <3>1 DEF Knows
            <4> QED
                BY <4>1, <4>2 DEF Known
        <3> QED
            BY <1>1, <2>2, <2>3, <3>1 DEF KeyInv, HashInv
    <2>4. actor'[a] = d /\ \A b \in Actors : b # a => actor'[b] = actor[b]
        BY <1>3 DEF TypeInv, TypeOK
    <2>5. ASSUME NEW h, Known(i, h)' PROVE h = NoKey
        <3>1. Knows(d, i) => Knows(c, i)
            BY <1>1, <1>3 DEF Knows
        <3>2. Known(i, h)
            BY <1>1, <1>3, <2>4, <2>5, <3>1 DEF Known
        <3> QED
            BY <2>3, <3>2
    <2>6. HashInv(i)'
        BY <2>5 DEF HashInv
    <2>7. ASSUME NEW b \in Actors \ {a}, Using(b, i)
          PROVE  /\ actor[b].key = NoKey /\ ~At(b, "newKey") /\ ~At(b, "writeKey")
                 /\ ~At(b, "stop") /\ ~At(b, "unlink")
        <3>1. actor[b].key \in {NoKey} \cup Keys
            BY ActorFits DEF ActorRecord
        <3>2. Using(a, i) /\ ~At(a, "serve")
            BY <1>1, <1>5 DEF Using, At
        <3>3. ~At(b, "newKey") /\ ~At(b, "writeKey")
            BY <1>1, <2>2, <2>7, <3>2, KeyFacts DEF KeyInv, UserInv, At
        <3> QED
            BY <1>1, <2>2, <2>7, <3>1, <3>2, <3>3, NoRemover, KeyFacts DEF KeyInv, UserInv
    <2>8. UserInv(i)'
        <3>1. ASSUME NEW b \in Actors PROVE Using(b, i)' <=> Using(b, i)
            BY <1>3, <2>4 DEF Using
        <3>2. \/ d.pc \in {"writeKey", "check"} /\ d.key = key'[i]
              \/ d.pc = "writeKey" /\ key'[i] = Partial
            BY <1>1, <1>3, <2>1
        <3> QED
            BY <1>1, <1>3, <2>1, <2>4, <2>7, <3>1, <3>2 DEF UserInv, At
    <2> QED
        BY <2>6, <2>8 DEF KeyInv
<1> QED
    BY <1>4, <1>5

\* The configuration is read and written again.
LEMMA KeyConfig ==
    ASSUME TypeInv, NEW i \in Identities, KeyInv(i), NEW a \in Actors,
           ReadConfig(a) \/ Truncate(a) \/ WriteConfig(a)
    PROVE  KeyInv(i)'
<1> DEFINE c == actor[a]
<1>1. /\ c \in ActorRecord /\ Shape(c) /\ key' = key /\ config \in [Identities -> Files]
      /\ c.id \in Identities /\ c.into \in Identities /\ c.pc \in {"read", "truncate", "write"}
      /\ c.op \in {"save", "generate", "work"} /\ c.seen \in Files
    BY ActorFits, TypeRest DEF ReadConfig, Truncate, WriteConfig, At, files, Shape, ActorRecord, RestOK
<1>2. c.id = i => /\ c.key # NoKey => key[i] = c.key
                  /\ \A b \in Actors \ {a} : Using(b, i) => ~At(b, "stop") /\ ~At(b, "unlink")
    <2> SUFFICES ASSUME c.id = i
                 PROVE  /\ c.key # NoKey => key[i] = c.key
                        /\ \A b \in Actors \ {a} : Using(b, i) => ~At(b, "stop") /\ ~At(b, "unlink")
        OBVIOUS
    <2>1. Using(a, i) /\ ~At(a, "serve") /\ ~At(a, "writeKey")
        BY <1>1 DEF Using, At
    <2> QED
        BY <2>1, NoRemover DEF KeyInv, UserInv
<1>3. ASSUME NEW d, d.id = c.id, d.key = c.key, d.pc \in {"truncate", "write", "serve", "mark"}, d.id = i
      PROVE  MayAct(a, d, i)
    BY <1>2, <1>3 DEF MayAct
<1>4. CASE ReadConfig(a)
    <2>1. CASE Done(a)
        <3>1. config' = config
            BY <1>4 DEF ReadConfig, files
        <3> QED
            BY <1>1, <2>1, <3>1, ActorEnds
    <2>2. CASE ~Done(a)
        <3> DEFINE now == config[c.id]
                   f == Rewritten(c, now)
                   d == [c EXCEPT !.pc = "truncate", !.seen = f]
        <3>1. /\ config' = config /\ c.pc = "read" /\ now \in Files
              /\ ~Broken(now) /\ (now = Missing => c.op = "save")
              /\ actor' = [actor EXCEPT ![a] = d]
            BY <1>1, <1>4, <2>2 DEF ReadConfig, At, Basis, files
        <3>2. d.id = c.id /\ d.key = c.key /\ d.pc = "truncate" /\ d.into = c.into /\ d.seen = f
            BY <1>1 DEF ActorRecord
        <3> HIDE DEF d
        <3>3. c.id = i => May(i, f.hash)
            <4> SUFFICES ASSUME c.id = i PROVE May(i, f.hash)
                OBVIOUS
            <4>1. CASE c.op = "save"
                <5>1. f.hash = now.hash
                    BY <4>1 DEF Rewritten, Text
                <5> QED
                    BY <3>1, <5>1, FileFacts DEF May, Known
            <4>2. CASE c.op # "save"
                <5>1. f.hash = c.key
                    BY <4>2 DEF Rewritten, Text
                <5>2. c.key \in Keys
                    BY <1>1, <3>1, <4>2 DEF Shape, ActorRecord
                <5> QED
                    BY <1>2, <3>1, <4>2, <5>1, <5>2, KeyFacts DEF May
            <4> QED
                BY <4>1, <4>2
        <3> HIDE DEF f
        <3>4. Knows(d, i) => May(i, d.seen.hash)
            BY <1>1, <3>1, <3>2, <3>3 DEF Knows, Shape
        <3>5. Readable(config'[i]) => Known(i, config'[i].hash)
            BY <3>1 DEF Known
        <3> QED
            BY <1>1, <1>3, <3>1, <3>2, <3>4, <3>5, ActorStep
    <2> QED
        BY <2>1, <2>2
<1>5. CASE Truncate(a)
    <2> DEFINE d == [c EXCEPT !.pc = "write"]
    <2>1. /\ actor' = [actor EXCEPT ![a] = d] /\ c.pc = "truncate"
          /\ config'[i] = IF i = c.into THEN Empty ELSE config[i]
        BY <1>1, <1>5 DEF Truncate, At, Go
    <2>2. d.id = c.id /\ d.key = c.key /\ d.pc = "write" /\ d.into = c.into /\ d.seen = c.seen
        BY <1>1 DEF ActorRecord
    <2> HIDE DEF d
    <2>3. Knows(d, i) => May(i, d.seen.hash)
        BY <2>1, <2>2 DEF Knows, May, Known
    <2>4. /\ config'[i] = Missing => config[i] = Missing
          /\ Readable(config'[i]) => Known(i, config'[i].hash)
        BY <2>1, FileFacts DEF Known
    <2> QED
        BY <1>1, <1>3, <2>1, <2>2, <2>3, <2>4, ActorStep
<1>6. CASE WriteConfig(a)
    <2>1. c.pc = "write" /\ (c.into = i => Known(i, c.seen.hash))
        BY <1>6 DEF WriteConfig, At, Known, Knows
    <2>2. \/ config'[i] = config[i]
          \/ c.into = i /\ config[i] # Missing /\ config'[i] \in {c.seen, Corrupt}
        BY <1>1, <1>6 DEF WriteConfig
    <2>3. Readable(config'[i]) => Known(i, config'[i].hash)
        BY <2>1, <2>2, FileFacts DEF Known
    <2>4. c.seen # Missing
        BY <1>1, <2>1, FileFacts DEF Shape
    <2>5. config'[i] = Missing => config[i] = Missing
        BY <2>2, <2>4, FileFacts
    <2>6. ASSUME NEW pc \in {"serve", "mark"}, Go(a, pc) PROVE KeyInv(i)'
        <3> DEFINE d == [c EXCEPT !.pc = pc]
        <3>1. d.id = c.id /\ d.key = c.key /\ d.pc = pc /\ actor' = [actor EXCEPT ![a] = d]
            BY <1>1, <2>6 DEF ActorRecord, Go
        <3> HIDE DEF d
        <3>2. ~Knows(d, i)
            BY <3>1 DEF Knows
        <3> QED
            BY <1>1, <1>3, <2>3, <2>5, <3>1, <3>2, ActorStep
    <2>7. CASE Done(a)
        <3>1. ~Knows(Free, i) /\ Free.op = "none"
            BY DEF Knows, Free
        <3> QED
            BY <1>1, <2>3, <2>5, <2>7, <3>1, ActorStep DEF Done
    <2> QED
        BY <1>1, <1>6, <2>6, <2>7 DEF WriteConfig
<1> QED
    BY <1>4, <1>5, <1>6

\* remove_client: the workers are stopped, the files are deleted.
LEMMA KeyRemove ==
    ASSUME TypeInv, NEW i \in Identities, KeyInv(i), NEW a \in Actors, StopWorker(a) \/ Unlink(a)
    PROVE  KeyInv(i)'
<1> DEFINE c == actor[a]
<1>1. /\ c \in ActorRecord /\ Shape(c) /\ c.id \in Identities
      /\ config \in [Identities -> Files] /\ key \in [Identities -> {NoKey, Partial} \cup Keys]
      /\ c.pc \in {"stop", "unlink"} /\ c.op = "remove" /\ c.key = NoKey /\ c.id # Default
    BY ActorFits, TypeRest DEF StopWorker, Unlink, At, Shape, ActorRecord, RestOK
<1>2. CASE StopWorker(a)
    <2> DEFINE d == [c EXCEPT !.pc = "unlink"]
    <2>1. /\ config' = config /\ key' = key /\ c.pc = "stop" /\ actor'[a] = d
          /\ \A b \in Actors : b # a => actor'[b] = IF Using(b, c.id) /\ At(b, "serve") THEN Free ELSE actor[b]
        BY <1>2 DEF StopWorker, files, At
    <2>2. d.id = c.id /\ d.key = NoKey /\ d.pc = "unlink" /\ d.op = "remove"
        BY <1>1 DEF ActorRecord
    <2> HIDE DEF d
    <2>3. ASSUME NEW b \in Actors, Knows(actor[b], i)' PROVE Knows(actor[b], i) /\ actor'[b] = actor[b]
        BY <2>1, <2>2, <2>3 DEF Knows, Free
    <2>4. ASSUME NEW h, Known(i, h)' PROVE Known(i, h)
        BY <2>1, <2>3, <2>4 DEF Known
    <2>5. HashInv(i)'
        BY <2>1, <2>4 DEF KeyInv, HashInv
    <2>6. ASSUME NEW b \in Actors \ {a}, Using(b, i)'
          PROVE  Using(b, i) /\ actor'[b] = actor[b] /\ c.id # i
        <3>1. actor'[b] = actor[b] /\ Using(b, i)
            BY <2>1, <2>6 DEF Using, Free
        <3>2. ASSUME c.id = i PROVE FALSE
            <4>1. At(b, "serve")
                BY <1>1, <2>1, <3>1, <3>2 DEF KeyInv, UserInv, Using, At
            <4>2. actor'[b].op = "none"
                BY <2>1, <3>1, <3>2, <4>1 DEF Free
            <4> QED
                BY <2>6, <4>2 DEF Using
        <3> QED
            BY <3>1, <3>2
    <2>7. UserInv(i)'
        <3> SUFFICES ASSUME NEW b \in Actors, Using(b, i)'
                     PROVE  /\ actor'[b].key # NoKey /\ ~At(b, "writeKey")' => key'[i] = actor'[b].key
                            /\ At(b, "newKey")' => key'[i] = NoKey /\ actor'[b].seen.hash = NoKey
                            /\ At(b, "writeKey")' => key'[i] = Partial
                            /\ \A e \in Actors \ {b} : Using(e, i)' =>
                                 /\ At(b, "newKey")' => ~At(e, "newKey")'
                                 /\ At(b, "writeKey")' => ~At(e, "writeKey")'
                                 /\ At(b, "stop")' => At(e, "serve")'
                                 /\ ~At(b, "unlink")'
            BY DEF UserInv
        <3>1. CASE b = a
            BY <2>1, <2>2, <2>6, <3>1 DEF Using, At
        <3>2. CASE b # a
            <4>1. ~Using(a, i)'
                BY <2>1, <2>2, <2>6, <3>2 DEF Using
            <4> QED
                BY <2>1, <2>6, <3>2, <4>1 DEF KeyInv, UserInv, At
        <3> QED
            BY <3>1, <3>2
    <2> QED
        BY <2>5, <2>7 DEF KeyInv
<1>3. CASE Unlink(a) /\ c.id # i
    <2>1. config'[i] = config[i] /\ key'[i] = key[i]
        BY <1>1, <1>3 DEF Unlink
    <2>2. CASE UNCHANGED actor
        BY <2>1, <2>2 DEF KeyInv, HashInv, UserInv, Known, Using, At
    <2> QED
        BY <1>3, <2>1, <2>2, ActorEnds DEF Unlink
<1>4. CASE Unlink(a) /\ c.id = i
    <2>1. c.pc = "unlink" /\ Using(a, i)
        BY <1>1, <1>4 DEF Unlink, At, Using
    <2>2. \A b \in Actors : b # a => ~Using(b, i)
        BY <2>1 DEF KeyInv, UserInv, At
    <2>3. ASSUME NEW b \in Actors PROVE ~Knows(actor[b], i)
        <3>1. actor[b].op # "none" /\ Knows(actor[b], i) => Using(b, i)
            BY <1>1, <1>4, ActorFits DEF Knows, Using, Shape
        <3>2. Knows(actor[b], i) => actor[b].op # "none"
            BY ActorFits DEF Knows, Shape
        <3> QED
            BY <2>1, <2>2, <3>1, <3>2 DEF Knows
    <2>4. CASE Done(a)
        <3>1. config'[i] = config[i] /\ key'[i] = key[i]
            <4>1. actor' # actor
                BY <2>1, <2>4 DEF Done, Free, TypeInv, TypeOK
            <4> QED
                BY <1>1, <1>4, <4>1 DEF Unlink
        <3> QED
            BY <2>4, <3>1, ActorEnds
    <2>5. CASE UNCHANGED actor
        <3>1. /\ config'[i] \in {config[i], Missing} /\ key'[i] \in {key[i], NoKey}
            BY <1>1, <1>4 DEF Unlink
        <3>2. ASSUME NEW h, Known(i, h)' PROVE Known(i, h) /\ h = config[i].hash /\ config'[i] = config[i]
            BY <2>3, <2>5, <3>1, <3>2, FileFacts DEF Known
        <3>3. HashInv(i)'
            BY <1>1, <1>4, <3>1, <3>2, FileFacts, KeyFacts DEF KeyInv, HashInv
        <3>4. UserInv(i)'
            BY <1>1, <2>1, <2>2, <2>5 DEF UserInv, Using, At
        <3> QED
            BY <3>3, <3>4 DEF KeyInv
    <2> QED
        BY <1>4, <2>4, <2>5 DEF Unlink
<1> QED
    BY <1>2, <1>3, <1>4
-----------------------------------------------------------------------------
\* An identity that was raced for stays so.
LEMMA RacedStays ==
    ASSUME TypeInv, [Next]_vars, NEW i \in Identities, ~raced'[i]
    PROVE  ~raced[i]
<1>1. ASSUME NEW a \in Actors, NEW op, NEW j \in Identities, NEW name, Begin(a, op, j, name)
      PROVE  ~raced[i]
    BY <1>1 DEF Begin, TypeInv, TypeOK
<1>2. ASSUME NEW a \in Actors, FindKey(a) PROVE ~raced[i]
    <2>1. actor[a].id \in Identities
        BY ActorFits DEF ActorRecord
    <2> QED
        BY <1>2, <2>1 DEF FindKey, TypeInv, TypeOK
<1>3. CASE UNCHANGED raced
    BY <1>3
<1>4. ASSUME NEW a \in Actors, (Step(a) /\ ~FindKey(a)) \/ Crash(a) PROVE UNCHANGED raced
    BY <1>4 DEF Step, EnsureDefault, Mark, List, NewKey, WriteKey, CheckHash, ReadConfig, Truncate,
                WriteConfig, Leave, StopWorker, Unlink, Crash, history
<1> QED
    BY <1>1, <1>2, <1>3, <1>4 DEF Next, vars, history

KeysInv == TypeInv /\ \A i \in Identities : ~raced[i] => KeyInv(i)

LEMMA KeyStep == KeysInv /\ [Next]_vars => KeysInv'
<1> SUFFICES ASSUME KeysInv, [Next]_vars, NEW i \in Identities, ~raced'[i]
             PROVE  KeyInv(i)'
    BY TypeStep DEF KeysInv
<1>1. TypeInv /\ KeyInv(i)
    BY RacedStays DEF KeysInv
<1>2. ASSUME NEW a \in Actors, Leave(a) \/ Crash(a) PROVE KeyInv(i)'
    BY <1>1, <1>2, ActorEnds DEF Leave, Crash, files
<1>3. ASSUME NEW a \in Actors, Step(a) PROVE KeyInv(i)'
    BY <1>1, <1>2, <1>3, KeyList, KeyFind, KeyNew, KeyConfig, KeyRemove DEF Step
<1>4. ASSUME NEW a \in Actors, NEW j \in Identities,
             \/ \E name \in Names : Begin(a, "save", j, name)
             \/ \E op \in {"generate", "work", "remove"} : Begin(a, op, j, FirstName)
      PROVE  KeyInv(i)'
    BY <1>1, <1>4, KeyBegin
<1>5. CASE UNCHANGED vars
    BY <1>1, <1>5 DEF vars, files, KeyInv, HashInv, UserInv, Known, Using, At
<1> QED
    BY <1>2, <1>3, <1>4, <1>5 DEF Next

LEMMA KeysAlways == Spec => []KeysInv
<1>1. Init => KeysInv
    <2> SUFFICES ASSUME Init, NEW i \in Identities PROVE KeyInv(i)
        BY TypeInit DEF KeysInv
    <2>1. \A h : ~Known(i, h)
        BY FileFacts DEF Init, Known, Knows, Free
    <2>2. \A a \in Actors : ~Using(a, i)
        BY DEF Init, Using, Free
    <2> QED
        BY <2>1, <2>2 DEF KeyInv, HashInv, UserInv
<1> QED
    BY <1>1, KeyStep, PTL DEF Spec

\* An identity known on the network never comes to have another key than the
\* one its hash was computed from, and a running worker uses that key: what
\* _validate_network_identity and update_network_identity of the worker and
\* of the generator are for, without any lock.
THEOREM KeyNeverReplaced == Spec => []NeverAnotherKey
<1>1. KeysInv => NeverAnotherKey
    <2> SUFFICES ASSUME KeysInv, NEW i \in Identities, ~raced[i]
                 PROVE  /\ Readable(config[i]) /\ config[i].hash # NoKey => key[i] \in {NoKey, config[i].hash}
                        /\ \A a \in Actors : Using(a, i) /\ At(a, "serve") => key[i] = actor[a].key
        BY DEF NeverAnotherKey
    <2>1. TypeInv /\ KeyInv(i) /\ key[i] \in {NoKey, Partial} \cup Keys
        BY TypeRest DEF KeysInv, RestOK
    <2>2. ASSUME Readable(config[i]), config[i].hash # NoKey PROVE key[i] \in {NoKey, config[i].hash}
        <3>1. Known(i, config[i].hash)
            BY <2>2 DEF Known
        <3> QED
            BY <2>1, <2>2, <3>1 DEF KeyInv, HashInv
    <2>3. ASSUME NEW a \in Actors, Using(a, i), At(a, "serve") PROVE key[i] = actor[a].key
        BY <2>1, <2>3, ActorFits DEF KeyInv, UserInv, At, Shape
    <2> QED
        BY <2>2, <2>3
<1> QED
    BY <1>1, KeysAlways, PTL

\* A whole key file is only ever deleted, with its identity (remove_client).
THEOREM KeyFileKept == Spec => KeyIsKept
<1>1. KeysInv /\ [Next]_vars =>
          [\A i \in Identities : ~raced'[i] /\ key[i] \in Keys =>
               \/ key'[i] = key[i]
               \/ key'[i] = NoKey /\ \E a \in Actors : Using(a, i) /\ At(a, "unlink")]_vars
    <2> SUFFICES ASSUME KeysInv, [Next]_vars, NEW i \in Identities, ~raced'[i], key[i] \in Keys
                 PROVE  \/ key'[i] = key[i]
                        \/ key'[i] = NoKey /\ \E a \in Actors : Using(a, i) /\ At(a, "unlink")
        OBVIOUS
    <2>1. TypeInv /\ KeyInv(i) /\ key \in [Identities -> {NoKey, Partial} \cup Keys]
        BY RacedStays, TypeRest DEF KeysInv, RestOK
    <2>2. ASSUME NEW a \in Actors, NewKey(a) \/ WriteKey(a) PROVE key'[i] = key[i]
        <3>1. actor[a].id # i
            <4>1. actor[a].pc \in {"newKey", "writeKey"} /\ actor[a].op # "none"
                BY <2>1, <2>2, ActorFits DEF NewKey, WriteKey, At, Shape
            <4> QED
                BY <2>1, <4>1, KeyFacts DEF KeyInv, UserInv, Using, At
        <3> QED
            BY <2>1, <2>2, <3>1 DEF NewKey, WriteKey
    <2>3. ASSUME NEW a \in Actors, Unlink(a)
          PROVE  \/ key'[i] = key[i]
                 \/ key'[i] = NoKey /\ Using(a, i) /\ At(a, "unlink")
        <3>1. actor[a].op # "none"
            BY <2>1, <2>3, ActorFits DEF Unlink, At, Shape
        <3> QED
            BY <2>1, <2>3, <3>1 DEF Unlink, Using, At
    <2>4. ASSUME NEW a \in Actors,
                 (Step(a) /\ ~NewKey(a) /\ ~WriteKey(a) /\ ~Unlink(a)) \/ Crash(a)
          PROVE  key' = key
        BY <2>4 DEF Step, EnsureDefault, Mark, List, FindKey, CheckHash, ReadConfig, Truncate, WriteConfig,
                    Leave, StopWorker, Crash, files
    <2>5. ASSUME NEW a \in Actors, NEW op, NEW j, NEW name, Begin(a, op, j, name) PROVE key' = key
        BY <2>5 DEF Begin, files
    <2> QED
        BY <2>2, <2>3, <2>4, <2>5 DEF Next, vars, files, Step
<1> QED
    BY <1>1, KeysAlways, PTL DEF Spec, KeyIsKept
-----------------------------------------------------------------------------
(***************************************************************************)
(* What is on disk.  While nothing crosses, races or is cut, one actor at  *)
(* most writes a configuration and it alone may be without its text; the   *)
(* text it will write has the name that was saved; a key file is cut only  *)
(* in the hands of who writes it, and a hash has lost its key only in the  *)
(* hands of who removes the identity.                                      *)
(***************************************************************************)
Cutting(a, i) == At(a, "write") /\ actor[a].into = i

\* The text that c is about to write has the name it was asked to save, or
\* the one saved before.
Wording(c, i) ==
    /\ c.op = "save" => c.seen.name = c.name
    /\ c.op # "save" /\ saved[i] # FirstName => c.seen.name = saved[i]

FileSound(i) ==
    /\ \A a, b \in Actors : Writing(a, i) /\ Writing(b, i) => a = b
    /\ \A a \in Actors : Writing(a, i) => Wording(actor[a], i)
    /\ \A a \in Actors : Cutting(a, i) => config[i] = Empty
    /\ (\A a \in Actors : ~Cutting(a, i)) =>
           ~Broken(config[i]) /\ (saved[i] # FirstName => config[i].name = saved[i])

KeySound(i) ==
    /\ key[i] = Partial => \E a \in Actors : At(a, "writeKey") /\ actor[a].id = i
    /\ \A h : key[i] = NoKey /\ Known(i, h) /\ h # NoKey =>
           \E a \in Actors : At(a, "unlink") /\ actor[a].id = i

Sound(i) == FileSound(i) /\ KeySound(i)

\* A step of one actor that leaves the configuration and the saved name alone.
LEMMA FileStep ==
    ASSUME TypeInv, NEW i \in Identities, FileSound(i), NEW a \in Actors, NEW d,
           actor' = [actor EXCEPT ![a] = d], config'[i] = config[i], saved'[i] = saved[i],
           ~Cutting(a, i), ~(d.pc = "write" /\ d.into = i),
           d.pc = "truncate" /\ d.into = i =>
               Wording(d, i) /\ \A b \in Actors \ {a} : ~Writing(b, i)
    PROVE  FileSound(i)'
<1>1. actor'[a] = d /\ \A b \in Actors \ {a} : actor'[b] = actor[b]
    BY DEF TypeInv, TypeOK
<1>2. ~Cutting(a, i)' /\ (Writing(a, i)' => Wording(d, i) /\ \A b \in Actors \ {a} : ~Writing(b, i))
    BY <1>1 DEF Cutting, Writing, At
<1>3. \A b \in Actors \ {a} : /\ Cutting(b, i)' <=> Cutting(b, i)
                              /\ Writing(b, i)' <=> Writing(b, i)
                              /\ Wording(actor[b], i)' <=> Wording(actor[b], i)
    BY <1>1 DEF Cutting, Writing, At, Wording
<1>4. Wording(actor[a], i)' <=> Wording(d, i)
    BY <1>1 DEF Wording
<1>5. \A b, e \in Actors : Writing(b, i)' /\ Writing(e, i)' => b = e
    BY <1>2, <1>3 DEF FileSound
<1>6. \A b \in Actors : Writing(b, i)' => Wording(actor[b], i)'
    BY <1>2, <1>3, <1>4 DEF FileSound
<1>7. \A b \in Actors : Cutting(b, i)' <=> Cutting(b, i)
    BY <1>2, <1>3
<1> QED
    BY <1>5, <1>6, <1>7 DEF FileSound

\* A step of one actor that leaves the key alone, and its hashes.
LEMMA KeyStays ==
    ASSUME TypeInv, NEW i \in Identities, KeySound(i), NEW a \in Actors, NEW d,
           actor' = [actor EXCEPT ![a] = d], key'[i] = key[i],
           Readable(config'[i]) => config'[i].hash = NoKey \/ Known(i, config'[i].hash),
           key[i] = NoKey /\ Knows(d, i) => d.seen.hash = NoKey \/ Known(i, d.seen.hash),
           actor[a].id = i => ~At(a, "writeKey"),
           actor[a].id = i /\ At(a, "unlink") => \A h : Known(i, h) => h = NoKey
    PROVE  KeySound(i)'
<1>1. actor'[a] = d /\ \A b \in Actors \ {a} : actor'[b] = actor[b]
    BY DEF TypeInv, TypeOK
<1>2. ASSUME NEW h, key'[i] = NoKey, Known(i, h)' PROVE h = NoKey \/ Known(i, h)
    <2>1. CASE Readable(config'[i]) /\ config'[i].hash = h
        BY <2>1
    <2>2. ASSUME NEW b \in Actors, Knows(actor'[b], i), actor'[b].seen.hash = h PROVE h = NoKey \/ Known(i, h)
        BY <1>1, <1>2, <2>2 DEF Known
    <2> QED
        BY <1>2, <2>1, <2>2 DEF Known
<1>3. ASSUME key'[i] = Partial PROVE \E b \in Actors : At(b, "writeKey")' /\ actor'[b].id = i
    BY <1>1, <1>3 DEF KeySound, At
<1>4. ASSUME NEW h, key'[i] = NoKey, Known(i, h)', h # NoKey
      PROVE  \E b \in Actors : At(b, "unlink")' /\ actor'[b].id = i
    <2>1. PICK b \in Actors : At(b, "unlink") /\ actor[b].id = i
        BY <1>2, <1>4 DEF KeySound
    <2>2. b # a
        BY <1>2, <1>4, <2>1
    <2> QED
        BY <1>1, <2>1, <2>2 DEF At
<1> QED
    BY <1>3, <1>4 DEF KeySound

\* A step that leaves all of them alone and writes no text of i.
LEMMA SoundStep ==
    ASSUME TypeInv, NEW i \in Identities, Sound(i), NEW a \in Actors, NEW d,
           actor' = [actor EXCEPT ![a] = d],
           config'[i] = config[i], saved'[i] = saved[i], key'[i] = key[i],
           ~Cutting(a, i), ~(d.pc = "write" /\ d.into = i),
           d.pc = "truncate" /\ d.into = i =>
               Wording(d, i) /\ \A b \in Actors \ {a} : ~Writing(b, i),
           key[i] = NoKey /\ Knows(d, i) => d.seen.hash = NoKey \/ Known(i, d.seen.hash),
           actor[a].id = i => ~At(a, "writeKey"),
           actor[a].id = i /\ At(a, "unlink") => \A h : Known(i, h) => h = NoKey
    PROVE  Sound(i)'
<1>1. FileSound(i)'
    BY FileStep DEF Sound
<1>2. Readable(config'[i]) => Known(i, config'[i].hash)
    BY DEF Known
<1>3. KeySound(i)'
    BY <1>2, KeyStays DEF Sound
<1> QED
    BY <1>1, <1>3 DEF Sound

\* The actor ends, or takes up another operation.
LEMMA SoundBegin ==
    ASSUME TypeInv, NEW i \in Identities, Sound(i),
           NEW a \in Actors, NEW op, NEW j \in Identities, NEW name, Begin(a, op, j, name)
    PROVE  Sound(i)'
<1> DEFINE d == [Free EXCEPT !.op = op, !.id = j, !.into = j, !.name = name,
                     !.pc = CASE op = "save" -> "read" [] op = "remove" -> "stop" [] OTHER -> "marker"]
<1>1. /\ actor' = [actor EXCEPT ![a] = d] /\ config' = config /\ key' = key /\ saved' = saved
      /\ actor[a].op = "none"
    BY DEF Begin, files
<1>2. d.pc \in {"read", "stop", "marker"}
    BY DEF Free
<1> HIDE DEF d
<1>3. actor[a].pc = "none"
    BY <1>1, ActorFits DEF Shape
<1> QED
    BY <1>1, <1>2, <1>3, SoundStep DEF Cutting, At, Knows

\* An actor that ends at any step but those of a write or of a removal.
LEMMA SoundEnd ==
    ASSUME TypeInv, NEW i \in Identities, Sound(i), NEW a \in Actors, Done(a),
           config'[i] = config[i], saved'[i] = saved[i], key'[i] = key[i],
           ~Cutting(a, i), actor[a].id = i => ~At(a, "writeKey") /\ ~At(a, "unlink")
    PROVE  Sound(i)'
BY SoundStep DEF Done, Free, Knows

LEMMA SoundList ==
    ASSUME TypeInv, NEW i \in Identities, Sound(i), NEW a \in Actors, Undisturbed(i)',
           EnsureDefault(a) \/ Mark(a) \/ List(a)
    PROVE  Sound(i)'
<1> DEFINE c == actor[a]
<1>1. /\ c \in ActorRecord /\ Shape(c) /\ c.pc \in {"marker", "mark", "list"}
      /\ config' = config /\ key' = key /\ saved' = saved
      /\ config \in [Identities -> Files] /\ c.id \in Identities
    BY ActorFits, TypeRest DEF EnsureDefault, Mark, List, At, files, history, ActorRecord, RestOK
<1>2. ASSUME NEW d, actor' = [actor EXCEPT ![a] = d], d.pc \in {"mark", "list", "none"} PROVE Sound(i)'
    BY <1>1, <1>2, SoundStep DEF Cutting, At, Knows
<1>3. CASE EnsureDefault(a) /\ ~(marker \/ config[Default] # Missing)
    <2> DEFINE d == [c EXCEPT !.pc = "truncate", !.into = Default, !.seen = Text(FirstName, NoKey)]
    <2>1. actor' = [actor EXCEPT ![a] = d] /\ config[Default] = Missing /\ Cross(a, Default)
        BY <1>3 DEF EnsureDefault
    <2>2. /\ d.pc = "truncate" /\ d.into = Default /\ d.op = c.op /\ d.seen.name = FirstName
          /\ d.seen.hash = NoKey /\ c.op # "save"
        BY <1>1 DEF ActorRecord, Text, Shape
    <2> HIDE DEF d
    <2>3. ASSUME i = Default PROVE Wording(d, i) /\ \A b \in Actors \ {a} : ~Writing(b, i)
        <3>1. \A b \in Actors \ {a} : ~Writing(b, i)
            BY <2>1, <2>3 DEF Cross, Undisturbed, TypeInv, TypeOK
        <3>2. \A b \in Actors : ~Cutting(b, i)
            BY <1>1, <3>1 DEF Cutting, Writing, At
        <3>3. saved[i] = FirstName
            BY <2>1, <2>3, <3>2, FileFacts DEF Sound, FileSound
        <3> QED
            BY <2>2, <3>1, <3>3 DEF Wording
    <2> QED
        BY <1>1, <2>1, <2>2, <2>3, SoundStep DEF Cutting, At
<1>4. CASE (EnsureDefault(a) /\ (marker \/ config[Default] # Missing)) \/ Mark(a)
    <2>1. \E pc \in {"mark", "list"} : actor' = [actor EXCEPT ![a] = [c EXCEPT !.pc = pc]]
        BY <1>4 DEF EnsureDefault, Mark, Go
    <2>2. \A pc : [c EXCEPT !.pc = pc].pc = pc
        BY <1>1 DEF ActorRecord
    <2> QED
        BY <1>2, <2>1, <2>2
<1>5. CASE List(a)
    <2>1. CASE Done(a)
        BY <1>2, <2>1 DEF Done, Free
    <2>2. CASE ~Done(a)
        <3> DEFINE d == [c EXCEPT !.pc = "find", !.seen = config[c.id], !.into = c.id]
        <3>1. actor' = [actor EXCEPT ![a] = d] /\ \A j \in Identities : Readable(config[j]) \/ j # c.id
            <4>1. ~\E j \in Identities : Broken(config[j]) \/ config[c.id] = Missing
                BY <1>5, <2>2 DEF List
            <4> QED
                BY <1>1, <1>5, <2>2, <4>1, FileFacts DEF List
        <3>2. d.pc = "find" /\ d.id = c.id /\ d.seen = config[c.id]
            BY <1>1 DEF ActorRecord
        <3> HIDE DEF d
        <3>3. Knows(d, i) => Known(i, d.seen.hash)
            BY <1>1, <3>1, <3>2 DEF Knows, Known
        <3> QED
            BY <1>1, <3>1, <3>2, <3>3, SoundStep DEF Cutting, At
    <2> QED
        BY <2>1, <2>2
<1> QED
    BY <1>3, <1>4, <1>5

\* The key is found, or generated and written.
LEMMA SoundKey ==
    ASSUME TypeInv, NEW i \in Identities, KeyInv(i), Sound(i), NEW a \in Actors,
           FindKey(a) \/ NewKey(a) \/ WriteKey(a) \/ CheckHash(a)
    PROVE  Sound(i)'
<1> DEFINE c == actor[a]
<1>1. /\ c \in ActorRecord /\ Shape(c) /\ c.pc \in {"find", "newKey", "writeKey", "check"}
      /\ config' = config /\ saved' = saved /\ c.id \in Identities
      /\ key \in [Identities -> {NoKey, Partial} \cup Keys]
    BY ActorFits, TypeRest DEF FindKey, NewKey, WriteKey, CheckHash, At, files, history, ActorRecord, RestOK
<1>2. ASSUME Done(a), ~At(a, "writeKey"), key' = key PROVE Sound(i)'
    BY <1>1, <1>2, SoundEnd DEF Cutting, At
<1>3. ASSUME NEW d, actor' = [actor EXCEPT ![a] = d], key'[i] = key[i], d.seen = c.seen, d.id = c.id,
             d.pc \in {"check", "newKey", "writeKey", "read"}, c.id = i => ~At(a, "writeKey")
      PROVE  Sound(i)'
    <2>1. Knows(d, i) => Known(i, d.seen.hash)
        BY <1>1, <1>3 DEF Knows, Known
    <2> QED
        BY <1>1, <1>3, <2>1, SoundStep DEF Cutting, At
<1>4. CASE FindKey(a) \/ CheckHash(a)
    <2>1. key' = key /\ ~At(a, "writeKey")
        BY <1>4 DEF FindKey, CheckHash, At, files
    <2>2. CASE ~Done(a)
        <3>1. \/ \E k \in Keys : actor' = [actor EXCEPT ![a] = [c EXCEPT !.pc = "check", !.key = k]]
              \/ \E pc \in {"newKey", "read"} : actor' = [actor EXCEPT ![a] = [c EXCEPT !.pc = pc]]
            BY <1>1, <1>4, <2>2, KeyFacts DEF FindKey, CheckHash, StoredKey, Go
        <3>2. \A k : /\ [c EXCEPT !.pc = "check", !.key = k].pc = "check"
                     /\ [c EXCEPT !.pc = "check", !.key = k].id = c.id
                     /\ [c EXCEPT !.pc = "check", !.key = k].seen = c.seen
            BY <1>1 DEF ActorRecord
        <3>3. \A pc : /\ [c EXCEPT !.pc = pc].pc = pc /\ [c EXCEPT !.pc = pc].id = c.id
                      /\ [c EXCEPT !.pc = pc].seen = c.seen
            BY <1>1 DEF ActorRecord
        <3> QED
            BY <1>3, <2>1, <3>1, <3>2, <3>3
    <2> QED
        BY <1>2, <2>1, <2>2
<1>5. CASE NewKey(a) \/ WriteKey(a)
    <2>1. PICK d : /\ actor' = [actor EXCEPT ![a] = d] /\ d.seen = c.seen /\ d.id = c.id
                   /\ NewKey(a) => d.pc = "writeKey"
                   /\ WriteKey(a) => d.pc = "check"
        <3>1. CASE NewKey(a)
            <4> DEFINE d == [c EXCEPT !.pc = "writeKey", !.key = Fresh]
            <4>1. ~WriteKey(a) /\ actor' = [actor EXCEPT ![a] = d]
                BY <3>1 DEF NewKey, WriteKey, At
            <4>2. d.pc = "writeKey" /\ d.seen = c.seen /\ d.id = c.id
                BY <1>1 DEF ActorRecord
            <4> HIDE DEF d
            <4> QED
                BY <4>1, <4>2
        <3>2. CASE WriteKey(a)
            <4> DEFINE d == [c EXCEPT !.pc = "check"]
            <4>1. ~NewKey(a) /\ actor' = [actor EXCEPT ![a] = d]
                BY <3>2 DEF NewKey, WriteKey, At, Go
            <4>2. d.pc = "check" /\ d.seen = c.seen /\ d.id = c.id
                BY <1>1 DEF ActorRecord
            <4> HIDE DEF d
            <4> QED
                BY <4>1, <4>2
        <3> QED
            BY <1>5, <3>1, <3>2
    <2>2. CASE c.id # i
        <3>1. key'[i] = key[i]
            BY <1>1, <1>5, <2>2 DEF NewKey, WriteKey
        <3> QED
            BY <1>3, <1>5, <2>1, <2>2, <3>1
    <2>3. CASE c.id = i
        <3>1. FileSound(i)'
            BY <1>1, <1>5, <2>1, FileStep DEF Sound, Cutting, At
        <3>2. CASE NewKey(a)
            <4>1. key'[i] = Partial /\ At(a, "writeKey")' /\ actor'[a].id = i
                BY <1>1, <2>1, <2>3, <3>2 DEF NewKey, At, TypeInv, TypeOK
            <4>2. KeySound(i)'
                BY <4>1, KeyFacts DEF KeySound
            <4> QED
                BY <3>1, <4>2 DEF Sound
        <3>3. CASE WriteKey(a)
            <4>1. c.key \in Keys
                BY <1>1, <3>3 DEF WriteKey, At, ActorRecord, Shape
            <4>2. key'[i] = c.key
                BY <1>1, <2>3, <3>3 DEF WriteKey, ToFile
            <4>3. KeySound(i)'
                BY <4>1, <4>2, KeyFacts DEF KeySound
            <4> QED
                BY <3>1, <4>3 DEF Sound
        <3> QED
            BY <1>5, <3>2, <3>3
    <2> QED
        BY <2>2, <2>3
<1> QED
    BY <1>4, <1>5

\* The configuration is read and written again.
LEMMA SoundConfig ==
    ASSUME TypeInv, NEW i \in Identities, KeyInv(i), Sound(i), NEW a \in Actors, Undisturbed(i)',
           ReadConfig(a) \/ Truncate(a) \/ WriteConfig(a)
    PROVE  Sound(i)'
<1> DEFINE c == actor[a]
<1>1. /\ c \in ActorRecord /\ Shape(c) /\ c.pc \in {"read", "truncate", "write"}
      /\ c.id \in Identities /\ c.into \in Identities /\ key' = key
      /\ config \in [Identities -> Files] /\ saved \in [Identities -> {FirstName} \cup Names]
    BY ActorFits, TypeRest DEF ReadConfig, Truncate, WriteConfig, At, files, ActorRecord, RestOK
<1>2. CASE ReadConfig(a)
    <2>1. config' = config /\ saved' = saved /\ c.pc = "read" /\ c.into = c.id
        BY <1>1, <1>2 DEF ReadConfig, files, At, Shape
    <2>2. CASE Done(a)
        BY <2>1, <2>2, <1>1, SoundEnd DEF Cutting, At
    <2>3. CASE ~Done(a)
        <3> DEFINE now == config[c.id]
                   d == [c EXCEPT !.pc = "truncate", !.seen = Rewritten(c, now)]
        <3>1. /\ actor' = [actor EXCEPT ![a] = d] /\ Cross(a, c.id)
              /\ ~Broken(now) /\ (now = Missing => c.op = "save")
            BY <1>2, <2>3 DEF ReadConfig, Basis
        <3>2. /\ d.pc = "truncate" /\ d.into = c.id /\ d.op = c.op /\ d.name = c.name
              /\ d.seen = Rewritten(c, now)
            BY <1>1, <2>1 DEF ActorRecord
        <3> HIDE DEF d
        <3>3. ASSUME c.id = i PROVE \A b \in Actors \ {a} : ~Writing(b, i)
            BY <3>1, <3>3 DEF Cross, Undisturbed, TypeInv, TypeOK
        <3>4. ASSUME c.id = i PROVE Wording(d, i)
            <4>1. CASE c.op = "save"
                BY <3>2, <4>1 DEF Wording, Rewritten, Text
            <4>2. CASE c.op # "save"
                <5>1. \A b \in Actors : ~Cutting(b, i)
                    BY <2>1, <3>3, <3>4 DEF Cutting, Writing, At
                <5>2. saved[i] # FirstName => now.name = saved[i]
                    BY <3>4, <5>1 DEF Sound, FileSound
                <5> QED
                    BY <3>2, <4>2, <5>2 DEF Wording, Rewritten, Text
            <4> QED
                BY <4>1, <4>2
        <3>5. ASSUME c.id = i, key[i] = NoKey PROVE d.seen.hash = NoKey \/ Known(i, d.seen.hash)
            <4>1. CASE c.op = "save"
                <5>1. d.seen.hash = now.hash
                    BY <3>2, <4>1 DEF Rewritten, Text
                <5>2. Readable(now) \/ now = Missing
                    BY <1>1, <3>1, FileFacts
                <5> QED
                    BY <3>5, <5>1, <5>2, FileFacts DEF Known
            <4>2. CASE c.op # "save"
                <5>1. c.op \in {"generate", "work"} /\ c.key # NoKey
                    BY <1>1, <2>1, <4>2 DEF ActorRecord, Shape
                <5>2. key[i] = c.key
                    BY <2>1, <3>5, <5>1 DEF KeyInv, UserInv, Using, At
                <5> QED
                    BY <3>5, <5>1, <5>2
            <4> QED
                BY <4>1, <4>2
        <3> QED
            BY <1>1, <2>1, <3>1, <3>2, <3>3, <3>4, <3>5, SoundStep DEF Cutting, At, Knows
    <2> QED
        BY <2>2, <2>3
<1>3. CASE c.into # i /\ (Truncate(a) \/ WriteConfig(a))
    <2>1. config'[i] = config[i]
        BY <1>1, <1>3 DEF Truncate, WriteConfig
    <2>2. saved'[i] = saved[i]
        <3>1. c.op = "save" => c.into = c.id
            BY <1>1 DEF Shape
        <3> QED
            BY <1>1, <1>3, <3>1 DEF Truncate, WriteConfig, history
    <2>3. PICK d : /\ actor' = [actor EXCEPT ![a] = d] /\ d.into \in {c.into, Default}
                   /\ d.pc = "write" => d.into = c.into
                   /\ d.pc \in {"write", "serve", "mark", "none"}
        <3>1. ASSUME NEW pc \in {"write", "serve", "mark"}
              PROVE  [c EXCEPT !.pc = pc].pc = pc /\ [c EXCEPT !.pc = pc].into = c.into
            BY <1>1 DEF ActorRecord
        <3>2. Free.pc = "none" /\ Free.into = Default
            BY DEF Free
        <3>3. Done(a) \/ \E pc \in {"write", "serve", "mark"} : Go(a, pc)
            BY <1>3 DEF Truncate, WriteConfig
        <3> QED
            BY <3>1, <3>2, <3>3 DEF Done, Go
    <2>4. ~Knows(d, i) /\ ~(d.pc \in {"truncate", "write"} /\ d.into = i)
        BY <1>3, <2>3 DEF Knows
    <2>5. ~Cutting(a, i) /\ ~At(a, "writeKey") /\ ~At(a, "unlink")
        BY <1>1, <1>3 DEF Cutting, At
    <2> QED
        BY <1>1, <2>1, <2>2, <2>3, <2>4, <2>5, SoundStep
<1>4. CASE Truncate(a) /\ c.into = i
    <2> DEFINE d == [c EXCEPT !.pc = "write"]
    <2>1. /\ actor' = [actor EXCEPT ![a] = d] /\ config'[i] = Empty /\ saved' = saved /\ c.pc = "truncate"
          /\ actor'[a] = d /\ \A b \in Actors \ {a} : actor'[b] = actor[b]
        BY <1>1, <1>4 DEF Truncate, Go, At, history, TypeInv, TypeOK
    <2>2. /\ d.pc = "write" /\ d.into = i /\ d.seen = c.seen /\ d.op = c.op /\ d.name = c.name
        BY <1>1, <1>4 DEF ActorRecord
    <2> HIDE DEF d
    <2>3. Writing(a, i)
        BY <1>4, <2>1 DEF Writing
    <2>4. \A b \in Actors : Writing(b, i)' => b = a
        BY <2>1, <2>3 DEF Sound, FileSound, Writing
    <2>5. Wording(actor[a], i)'
        BY <2>1, <2>2, <2>3 DEF Sound, FileSound, Wording
    <2>6. Cutting(a, i)'
        BY <2>1, <2>2 DEF Cutting, At
    <2>7. FileSound(i)'
        BY <2>1, <2>4, <2>5, <2>6 DEF FileSound
    <2>8. Known(i, d.seen.hash)
        BY <1>4, <2>1, <2>2 DEF Known, Knows
    <2>9. ~Readable(config'[i])
        BY <2>1, FileFacts
    <2>10. KeySound(i)'
        BY <1>1, <2>1, <2>8, <2>9, KeyStays DEF Sound, At
    <2> QED
        BY <2>7, <2>10 DEF Sound
<1>5. CASE WriteConfig(a) /\ c.into = i
    <2>1. Cutting(a, i) /\ Writing(a, i) /\ config[i] = Empty /\ c.pc = "write"
        BY <1>5 DEF WriteConfig, Cutting, Writing, At, Sound, FileSound
    <2>2. config'[i] = c.seen /\ Readable(c.seen)
        <3>1. Readable(c.seen)
            BY <1>1, <2>1 DEF Shape
        <3> QED
            BY <1>1, <1>5, <2>1, <3>1, FileFacts DEF WriteConfig
    <2>3. PICK d : actor' = [actor EXCEPT ![a] = d] /\ d.pc \in {"serve", "mark", "none"}
        <3>1. ASSUME NEW pc \in {"serve", "mark"} PROVE [c EXCEPT !.pc = pc].pc = pc
            BY <1>1 DEF ActorRecord
        <3>2. Free.pc = "none"
            BY DEF Free
        <3>3. Done(a) \/ \E pc \in {"serve", "mark"} : Go(a, pc)
            BY <1>5 DEF WriteConfig
        <3> QED
            BY <3>1, <3>2, <3>3 DEF Done, Go
    <2>4. actor'[a] = d /\ \A b \in Actors \ {a} : actor'[b] = actor[b]
        BY <2>3 DEF TypeInv, TypeOK
    <2>5. \A b \in Actors : ~Writing(b, i)' /\ ~Cutting(b, i)'
        BY <2>1, <2>3, <2>4 DEF Sound, FileSound, Writing, Cutting, At
    <2>6. saved'[i] # FirstName => c.seen.name = saved'[i]
        <3>1. Wording(c, i) /\ (c.op = "save" => c.id = i)
            BY <1>1, <1>5, <2>1 DEF Sound, FileSound, Shape
        <3>2. CASE c.op = "save"
            BY <1>1, <1>5, <3>1, <3>2 DEF WriteConfig, Wording
        <3>3. CASE c.op # "save"
            BY <1>5, <3>1, <3>3 DEF WriteConfig, Wording
        <3> QED
            BY <3>2, <3>3
    <2>7. ~Broken(config'[i])
        BY <2>2 DEF Readable, Broken
    <2>8. FileSound(i)'
        BY <2>2, <2>5, <2>6, <2>7 DEF FileSound
    <2>9. Known(i, config'[i].hash)
        BY <1>5, <2>1, <2>2 DEF Known, Knows
    <2>10. ~Knows(d, i) /\ ~At(a, "writeKey") /\ ~At(a, "unlink")
        BY <2>1, <2>3 DEF Knows, At
    <2>11. KeySound(i)'
        BY <1>1, <2>3, <2>9, <2>10, KeyStays DEF Sound
    <2> QED
        BY <2>8, <2>11 DEF Sound
<1> QED
    BY <1>2, <1>3, <1>4, <1>5

\* A worker ends, an identity is removed, an actor is killed.
LEMMA SoundRemove ==
    ASSUME TypeInv, NEW i \in Identities, KeyInv(i), Sound(i), NEW a \in Actors, Undisturbed(i)',
           Leave(a) \/ StopWorker(a) \/ Unlink(a) \/ Crash(a)
    PROVE  Sound(i)'
<1> DEFINE c == actor[a]
<1>1. /\ c \in ActorRecord /\ Shape(c) /\ c.id \in Identities /\ c.into \in Identities
      /\ config \in [Identities -> Files] /\ key \in [Identities -> {NoKey, Partial} \cup Keys]
      /\ saved \in [Identities -> {FirstName} \cup Names]
    BY ActorFits, TypeRest DEF ActorRecord, RestOK
<1>2. CASE Leave(a)
    BY <1>2, SoundEnd DEF Leave, files, history, Cutting, At
<1>3. CASE Crash(a)
    <2>1. ~Cutting(a, i) /\ (c.id = i => ~At(a, "writeKey") /\ ~At(a, "unlink"))
        BY <1>3 DEF Crash, Undisturbed, Cutting, At
    <2> QED
        BY <1>3, <2>1, SoundEnd DEF Crash, files
<1>4. CASE StopWorker(a)
    <2> DEFINE d == [c EXCEPT !.pc = "unlink"]
    <2>1. /\ config' = config /\ key' = key /\ saved' = saved /\ c.pc = "stop" /\ actor'[a] = d
          /\ \A b \in Actors \ {a} : \/ actor'[b] = actor[b]
                                     \/ actor'[b] = Free /\ actor[b].pc = "serve"
        BY <1>4 DEF StopWorker, files, history, At
    <2>2. d.pc = "unlink"
        BY <1>1 DEF ActorRecord
    <2> HIDE DEF d
    <2>3. ASSUME NEW b \in Actors
          PROVE  \/ actor'[b] = actor[b]
                 \/ actor'[b].pc \in {"unlink", "none"} /\ actor[b].pc \in {"stop", "serve"}
        <3>1. Free.pc = "none"
            BY DEF Free
        <3>2. CASE b = a
            BY <2>1, <2>2, <3>2
        <3>3. CASE b # a
            BY <2>1, <3>1, <3>3
        <3> QED
            BY <3>2, <3>3
    <2>4. ASSUME NEW b \in Actors
          PROVE  /\ Cutting(b, i)' <=> Cutting(b, i)
                 /\ Writing(b, i)' <=> Writing(b, i)
                 /\ Writing(b, i) => actor'[b] = actor[b]
        <3>1. CASE actor'[b] = actor[b]
            BY <3>1 DEF Cutting, Writing, At
        <3>2. CASE actor'[b].pc \in {"unlink", "none"} /\ actor[b].pc \in {"stop", "serve"}
            BY <3>2 DEF Cutting, Writing, At
        <3> QED
            BY <2>3, <3>1, <3>2
    <2>5. FileSound(i)'
        <3>1. \A b, e \in Actors : Writing(b, i)' /\ Writing(e, i)' => b = e
            BY <2>4 DEF Sound, FileSound
        <3>2. ASSUME NEW b \in Actors, Writing(b, i)' PROVE Wording(actor[b], i)'
            <4>1. Wording(actor[b], i) /\ actor'[b] = actor[b]
                BY <2>4, <3>2 DEF Sound, FileSound
            <4> QED
                BY <2>1, <4>1 DEF Wording
        <3> QED
            BY <2>1, <2>4, <3>1, <3>2 DEF Sound, FileSound
    <2>6. ASSUME NEW h, Known(i, h)' PROVE Known(i, h)
        BY <2>1, <2>3, <2>6 DEF Known, Knows
    <2>7. KeySound(i)'
        BY <2>1, <2>3, <2>6 DEF Sound, KeySound, At
    <2> QED
        BY <2>5, <2>7 DEF Sound
<1>5. CASE Unlink(a) /\ c.id # i
    <2>1. config'[i] = config[i] /\ key'[i] = key[i] /\ saved'[i] = saved[i] /\ c.pc = "unlink"
        BY <1>1, <1>5 DEF Unlink, At
    <2>2. CASE UNCHANGED actor
        <3>1. FileSound(i)'
            BY <2>1, <2>2 DEF Sound, FileSound, Writing, Cutting, Wording, At
        <3>2. KeySound(i)'
            BY <2>1, <2>2 DEF Sound, KeySound, Known, At
        <3> QED
            BY <3>1, <3>2 DEF Sound
    <2>3. CASE Done(a)
        BY <1>5, <2>1, <2>3, SoundEnd DEF Cutting, At
    <2> QED
        BY <1>5, <2>2, <2>3 DEF Unlink
<1>6. CASE Unlink(a) /\ c.id = i
    <2>1. c.pc = "unlink" /\ Using(a, i) /\ c.op = "remove" /\ c.into = i /\ i # Default
        BY <1>1, <1>6 DEF Unlink, At, Using, ActorRecord, Shape
    <2>2. \A b \in Actors : b # a => ~Using(b, i)
        BY <2>1 DEF KeyInv, UserInv, At
    <2>3. ASSUME NEW b \in Actors PROVE ~Knows(actor[b], i) /\ ~Writing(b, i) /\ ~Cutting(b, i)
        <3>1. CASE b = a
            BY <2>1, <3>1 DEF Knows, Writing, Cutting, At
        <3>2. CASE b # a
            <4>1. actor[b] \in ActorRecord /\ Shape(actor[b]) /\ ~Using(b, i)
                BY <2>2, <3>2, ActorFits
            <4>2. actor[b].op # "none" => actor[b].id # i
                BY <4>1 DEF Using
            <4>3. actor[b].pc \in {"truncate", "write"} => actor[b].into # i
                BY <2>1, <4>1, <4>2 DEF Shape, ActorRecord
            <4>4. actor[b].pc \in {"find", "newKey", "writeKey", "check"} => actor[b].id # i
                BY <4>1, <4>2 DEF Shape
            <4> QED
                BY <4>3, <4>4 DEF Knows, Writing, Cutting, At
        <3> QED
            BY <3>1, <3>2
    <2>4. CASE Done(a)
        <3>1. config' = config /\ key' = key /\ saved' = saved /\ config[i] = Missing
            <4>1. actor' # actor
                BY <2>1, <2>4 DEF Done, Free, TypeInv, TypeOK
            <4> QED
                BY <1>6, <4>1 DEF Unlink
        <3>2. \A h : ~Known(i, h)
            BY <2>3, <3>1, FileFacts DEF Known
        <3> QED
            BY <2>1, <2>3, <2>4, <3>1, <3>2, SoundStep DEF Done, Free, Knows, At
    <2>5. CASE UNCHANGED actor
        <3>1. \/ config'[i] = Missing /\ saved'[i] = FirstName
              \/ config'[i] = config[i] /\ saved'[i] = saved[i]
            BY <1>1, <1>6 DEF Unlink
        <3>2. key'[i] \in {key[i], NoKey}
            BY <1>1, <1>6 DEF Unlink
        <3>3. FileSound(i)'
            <4>1. \A b \in Actors : ~Writing(b, i)' /\ ~Cutting(b, i)'
                BY <2>3, <2>5 DEF Writing, Cutting, At
            <4>2. ~Broken(config'[i]) /\ (saved'[i] # FirstName => config'[i].name = saved'[i])
                BY <2>3, <3>1, FileFacts DEF Sound, FileSound
            <4> QED
                BY <4>1, <4>2 DEF FileSound
        <3>4. KeySound(i)'
            <4>1. At(a, "unlink")' /\ actor'[a].id = i
                BY <1>6, <2>1, <2>5 DEF At
            <4>2. key'[i] = Partial => \E b \in Actors : At(b, "writeKey")' /\ actor'[b].id = i
                BY <2>5, <3>2, KeyFacts DEF Sound, KeySound, At
            <4> QED
                BY <4>1, <4>2 DEF KeySound
        <3> QED
            BY <3>3, <3>4 DEF Sound
    <2> QED
        BY <1>6, <2>4, <2>5 DEF Unlink
<1> QED
    BY <1>2, <1>3, <1>4, <1>5, <1>6
-----------------------------------------------------------------------------
\* What was disturbed stays so.
LEMMA DisturbedStays ==
    ASSUME TypeInv, [Next]_vars, NEW i \in Identities, Undisturbed(i)'
    PROVE  Undisturbed(i)
<1>1. ~raced[i]
    BY RacedStays DEF Undisturbed
<1>2. ~crossed[i]
    <2>1. ASSUME NEW a \in Actors, EnsureDefault(a) \/ ReadConfig(a) PROVE ~crossed[i]
        <3>1. CASE UNCHANGED crossed
            BY <3>1 DEF Undisturbed
        <3>2. CASE \E j \in Identities : Cross(a, j)
            BY <3>2 DEF Cross, Undisturbed, TypeInv, TypeOK
        <3>3. actor[a].id \in Identities /\ Default \in Identities
            BY ActorFits DEF ActorRecord, Identities
        <3> QED
            BY <2>1, <3>1, <3>2, <3>3 DEF EnsureDefault, ReadConfig
    <2>2. ASSUME NEW a \in Actors, (Step(a) /\ ~EnsureDefault(a) /\ ~ReadConfig(a)) \/ Crash(a)
          PROVE  UNCHANGED crossed
        BY <2>2 DEF Step, Mark, List, FindKey, NewKey, WriteKey, CheckHash, Truncate, WriteConfig, Leave,
                    StopWorker, Unlink, Crash, history
    <2>3. ASSUME NEW a, NEW op, NEW j, NEW name, Begin(a, op, j, name) PROVE UNCHANGED crossed
        BY <2>3 DEF Begin
    <2> QED
        BY <2>1, <2>2, <2>3 DEF Next, vars, history, Undisturbed
<1>3. ~torn[i]
    <2>1. ASSUME NEW a \in Actors, Crash(a) PROVE ~torn[i]
        BY <2>1 DEF Crash, Undisturbed
    <2>2. ASSUME NEW a \in Actors, Step(a) PROVE UNCHANGED torn
        BY <2>2 DEF Step, EnsureDefault, Mark, List, FindKey, NewKey, WriteKey, CheckHash, ReadConfig,
                    Truncate, WriteConfig, Leave, StopWorker, Unlink, history
    <2>3. ASSUME NEW a, NEW op, NEW j, NEW name, Begin(a, op, j, name) PROVE UNCHANGED torn
        BY <2>3 DEF Begin
    <2> QED
        BY <2>1, <2>2, <2>3 DEF Next, vars, history, Undisturbed
<1> QED
    BY <1>1, <1>2, <1>3 DEF Undisturbed

SoundInv == KeysInv /\ \A i \in Identities : Undisturbed(i) => Sound(i)

LEMMA SoundNext == SoundInv /\ [Next]_vars => SoundInv'
<1> SUFFICES ASSUME SoundInv, [Next]_vars, NEW i \in Identities, Undisturbed(i)'
             PROVE  Sound(i)'
    BY KeyStep DEF SoundInv
<1>1. TypeInv /\ KeyInv(i) /\ Sound(i)
    BY DisturbedStays DEF SoundInv, KeysInv, Undisturbed
<1>2. ASSUME NEW a \in Actors, Step(a) \/ Crash(a) PROVE Sound(i)'
    BY <1>1, <1>2, SoundList, SoundKey, SoundConfig, SoundRemove DEF Step
<1>3. ASSUME NEW a \in Actors, NEW op, NEW j \in Identities, NEW name, Begin(a, op, j, name)
      PROVE  Sound(i)'
    BY <1>1, <1>3, SoundBegin
<1>4. CASE UNCHANGED vars
    <2>1. UNCHANGED <<config, key, actor, saved>>
        BY <1>4 DEF vars, files, history
    <2>2. FileSound(i)'
        BY <1>1, <2>1 DEF Sound, FileSound, Writing, Cutting, Wording, At
    <2>3. KeySound(i)'
        BY <1>1, <2>1 DEF Sound, KeySound, Known, At
    <2> QED
        BY <2>2, <2>3 DEF Sound
<1> QED
    BY <1>2, <1>3, <1>4 DEF Next

LEMMA SoundAlways == Spec => []SoundInv
<1>1. Init => SoundInv
    <2> SUFFICES ASSUME Init, NEW i \in Identities PROVE KeyInv(i) /\ Sound(i)
        BY TypeInit DEF SoundInv, KeysInv
    <2>1. \A h : ~Known(i, h)
        BY FileFacts DEF Init, Known, Knows, Free
    <2>2. \A a \in Actors : ~Using(a, i) /\ ~Writing(a, i) /\ ~Cutting(a, i)
        BY DEF Init, Using, Writing, Cutting, At, Free
    <2>3. KeyInv(i)
        BY <2>1, <2>2 DEF KeyInv, HashInv, UserInv
    <2>4. config[i] = Missing /\ key[i] = NoKey /\ saved[i] = FirstName
        BY DEF Init
    <2>5. FileSound(i)
        BY <2>2, <2>4, FileFacts DEF FileSound
    <2>6. KeySound(i)
        BY <2>1, <2>4, KeyFacts DEF KeySound
    <2> QED
        BY <2>3, <2>5, <2>6 DEF Sound
<1> QED
    BY <1>1, SoundNext, PTL DEF Spec

\* A name once saved stays (save_identity), whatever generators and workers
\* write to the same file (update_network_identity), unless one of them read
\* it while another wrote, was killed while it wrote, or raced for the key.
THEOREM NameStays == Spec => []SavedNameStays
<1>1. SoundInv => SavedNameStays
    BY DEF SoundInv, Sound, FileSound, SavedNameStays, Cutting, Writing, At
<1> QED
    BY <1>1, SoundAlways, PTL

\* The files of an identity that no actor uses let it start again: its
\* configuration can be read, its key file is a key, and
\* _validate_network_identity finds that they fit.  (list_identities reads the
\* configurations of the other identities as well, of which this is true
\* under the same conditions.)
THEOREM CanStart == Spec => []StartsAgain
<1>1. SoundInv => StartsAgain
    <2> SUFFICES ASSUME SoundInv, NEW i \in Identities, Undisturbed(i),
                        \A a \in Actors : ~Using(a, i) /\ ~Writing(a, i)
                 PROVE  /\ ~Broken(config[i]) /\ key[i] # Partial
                        /\ config[i].hash \in {NoKey, key[i]}
        BY DEF StartsAgain
    <2>1. /\ TypeInv /\ KeyInv(i) /\ Sound(i)
          /\ config[i] \in Files /\ key[i] \in {NoKey, Partial} \cup Keys
        BY TypeRest DEF SoundInv, KeysInv, Undisturbed, RestOK
    <2>2. ~Broken(config[i])
        BY <2>1 DEF Sound, FileSound, Cutting, Writing, At
    <2>3. \A a \in Actors : actor[a].id = i => actor[a].pc \notin {"writeKey", "unlink"}
        BY <2>1, ActorFits DEF Using, Shape
    <2>4. key[i] # Partial
        BY <2>1, <2>3 DEF Sound, KeySound, At
    <2>5. CASE Readable(config[i])
        <3>1. Known(i, config[i].hash)
            BY <2>5 DEF Known
        <3> QED
            BY <2>1, <2>2, <2>3, <2>4, <3>1 DEF KeyInv, HashInv, Sound, KeySound, At
    <2>6. CASE config[i] = Missing
        BY <2>2, <2>4, <2>6, FileFacts
    <2> QED
        BY <2>1, <2>2, <2>4, <2>5, <2>6, FileFacts
<1> QED
    BY <1>1, SoundAlways, PTL
=============================================================================
