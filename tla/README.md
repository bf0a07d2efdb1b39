# Verification of FriendlyNode (poligone)

TLA+ specifications of the parts of FriendlyNode where threads, processes and files interact,
the TLC runs that check them on small instances, and TLAPS proofs for every instance.
`PROJECT.json` lists the runs, the source lines each definition models, the mutants that show
each property depends on the code, the hazards and the findings.

    tlc -workers 2 -config outbound_http.cfg MC_OutboundMessages
    tlapm OutboundMessages_proofs.tla

Paths below are under `src/friendlynode/` unless they start with `web-ui/`.

## 1. The system

One *controller* process runs `ControllerApp` (`controller/app.py`) and a threaded HTTP server
(`controller/http_server.py`: one thread per request, two kinds of long-lived event streams).
It hosts the engine (`engine/engine_main.py`), which holds a Reticulum instance and an
`LxmfProcessManager`. The manager runs one *worker* process per enabled local identity
(`engine/lxmf_worker.py`) and one output thread per worker, which reads the worker's events
from a pipe and applies them. The *page* (`web-ui/assets/js/app.js`) talks to the HTTP server.

| Component | State | Operations | Hard behaviours | What makes it correct |
|---|---|---|---|---|
| `ClientContactStore` (`client_contacts.py`) | `messages.json` per contact | add, retry, update, record per-node results, complete, fail pending, delete, clear | no lock: read, truncate and write of several threads interleave; a crash in between | what a record claims is true; a pending message is settled |
| `ControllerApp`, messages | none of its own | send, repeat, handlers of worker events, recovery at start | HTTP thread and output thread change one record; a timeout races a late answer; late events of an earlier attempt | the confirmation never undoes an outcome |
| `LxmfProcessManager` | `_workers`, control connections, output threads | start, stop, restart, send, announce | exit of one worker applied after its successor started; requests time out | an exit fails only messages nobody has |
| LXMF worker | propagation queue, LXMF router, control port | accept a request, callbacks, replicate to nodes, receive, automatic announce, stop | LXMF's callback threads; one job for many nodes; ends at any point | every message it accepted gets an outcome, or the exit does |
| `StateCache` | logs, announce ring, change sequence, conditions | append, merge, snapshot, wait, notify | waiters and notifiers, a ring that drops, merging without a new id | no waiter misses a change |
| HTTP streams | last id sent, per connection | ready, event, keepalive | reconnection between two events | ready covers the gap |
| Page | `currentStatus`, requests under way | refresh, status fetch, snapshot and stream of announces | answers out of order, events during a request | what is shown is never lost or older than before |
| `EngineSupervisor`, `EngineMain` | the engine, running identities | start, stop, restart Reticulum | restart fails half-way; no lock | workers that ran run again |
| `RnsRuntime` (`engine/rns_runtime.py`) | interface signatures, last announce times | announce, monitor loop, stop | the monitor, callers and `stop()` share them without a lock | a changed interface is not overlooked, announces keep their distance |
| `NomadnetRuntime` (`engine/nomadnet_runtime.py`) | none of its own | fetch a page: path, link, request | Reticulum's callbacks come at any time or never, the runtime stops meanwhile | a fetch ends, and leaves no link |
| `RuntimeManager` (`controller/runtime_manager.py`), `AppConfig` | release directories, manifests, configuration file | install, select, set a feature | crash or failure between file operations | the controller starts again, with the runtime its configuration names |
| `PropagationNodeStore` (`propagation.py`) | one JSON file, a lock | remember, switch, forget a node | threads, crash while saving | each operation happens at once or not at all |
| `LocalIdentityStore` (`local_identities.py`) | `identity.json` and key file per identity | list, save, update hashes, remove | workers, generators and HTTP threads write one file | an identity keeps its key, names are not lost |
| NomadNet browser store, settings, access | small JSON or INI files | load, save, normalise | sequential | values normalised |

The remaining components (stubs, API placeholders, storage, plugins, launcher, legacy client
accounts) keep no state that interacts; `PROJECT.json` lists each with its reason.

## 2. Modules

| Module | Models | State |
|---|---|---|
| `ConversationStore` | the records of one conversation and what each store operation writes, as pure operators | none |
| `OutboundMessages` | one conversation, the HTTP threads, workers, output threads and the start of the controller | file, threads, worker processes, pipes |
| `MC_OutboundMessages` | its instances for TLC | |
| `ClientUpdates` | change notification, client event stream, the page's refreshes | versions, stream, channel, requests |
| `AnnounceFeed` | announces: handlers, ring, stream, the page's list | records, ring, stream, requests, list |
| `EngineLifecycle` | engine and worker processes, and the threads that start and stop them | table of workers, processes, what each thread has still to do |
| `LocalIdentity` | configuration, key file and marker of the identities | files, what each program has read |
| `RuntimeInstall` | installed releases and the configuration that names one | directories, manifests, file, settings in memory |
| `PropagationStore`, `AbstractRegistry` | the registry of propagation nodes, and what it promises | file, temporary file, lock |
| `ControllerFiles` | composes `RuntimeInstall` and `PropagationStore` under one controller | |
| `AnnounceMonitor` | automatic and manual announces of one runtime | interfaces, signatures, last announces |
| `PageFetch` | page fetches: path, link, request | each fetch, its link |
| `RnsRuntime` | composes `AnnounceMonitor` and `PageFetch` over one module that `stop()` unloads | |
| `MC_<module>` | instances for TLC | |
| `<module>_proofs` | lemmas and theorems | |

### ConversationStore

`Message` is a record of `messages.json`: its state, number of attempts, delivery method,
nodes that accepted, result per node, the two counters and the error text by its origin. A
conversation maps ids to records, `NoMessage` standing for an id that is not in the list.
An `Op` is a call of the store with its arguments, or an event of a worker, which becomes one.
`Writes(op, c)` says whether the operation writes at all, having read `c` (it does not when it
raises, finds no such message, or `expected_state` differs), and `Written(op, c)` what it writes.
Definitions marked "Variant:" here and in the other modules are deliberately wrong twins of the
definition below them, used only to show that a property notices the change.

### OutboundMessages

Every thread is at a place `pc[t]` with an operation `op[t]`. A store operation is three steps:
`StoreRead` reads and computes, `StoreTruncate` is the opening of the file by `write_text`,
`StoreWrite` writes the text. Any other thread may act in between; over the bytes of another
writer the result may be invalid JSON (`disk = "mixed"`), and a reader that meets an empty or
mixed file raises (`StoreReadFails`), which each caller handles as its code does.

* `SendMessage`, `RepeatMessage`, `RemoveMessage`, `ClearMessages` start a request thread.
  After `add` or `retry` it goes on to the control port (`SubmitRequest`, `SubmitFails`), waits
  (`ReplyQueued`, `ReplyFailed`, `ReplyTimeout`) and confirms or fails the record with
  `expected_state="sending"`.
* `AcceptRequest`, `RefuseRequest` are the worker's control thread, `DirectOutcome` LXMF's
  callbacks, `NodeAccepted`, `NodeFailed`, `ReplicationComplete`, `FinalFailure` the propagation
  thread, `ReceiveMessage` an inbound message, `WorkerExit` any end of the process.
* `ReadEvent`, `ReadExit` are the output thread: it applies one event after the other and, after
  the last one, the exit. `StartWorker` starts a successor as soon as the process has ended; the
  output thread of the ended one may still be reading.
* `RestartController` is the end of the controller at any point and its next start, whose
  recovery (`op[Starter]`) runs while the HTTP server already answers. A start that cannot read
  the file ends without an engine.

History variables: `drawn`, `delivered`, `nodesOf` record what happened; `stale` holds the threads
whose list was overtaken by another write; `disturbed` is set when two accesses to the file did
overlap (a stale or torn write, a read of a file that was not whole) or the controller died while
truncating. Guards never read them, except `drawn`, which makes ids unique.

### ClientUpdates

A conversation is its number of writes. A writing thread writes, then notifies (`Write`,
`Notify`). The stream thread reads the change id, greets with `ready`, and then checks, waits and
sends (`Connect`, `StreamCheck`, `StreamTimeout`, `StreamSend`); each of these holds the
condition's lock in the code. The page dispatches one event at a time (`Dispatch`), a request reads
one conversation after the other (`ReadConversation`), and its answer replaces what is shown
(`Arrive`), also that of a status fetch (`StartPoll`). `lost` remembers that an event was ignored,
a refresh failed, or an older answer replaced a newer one.

### AnnounceFeed

An announce is its packet and its hop count, the one field that a duplicate fills in
(`_merge_announce`) and that a filter reads. Rows, batches and the ring hold ids, as the code shares the
dicts. `Report` is `append_announce`; `Connect`, `StreamTake`, `StreamSend` the thread of
`_serve_announce_stream`; `Apply`, `PollStatus`, `Serve`, `Arrive`, `Dispatch` the page. `gap`
remembers that snapshot and stream no longer fit together. The steps after which the code does lose a row or
its place, each excepted by name and nothing else:

* a filter applied while a snapshot is fetched is not fetched again (`app.js:4169`), so the answer is of the
  old filter, or older than the row the new stream starts behind (`app.js:4218`);
* an answer replaces newer rows that the stream has sent already, is of another filter (a status answer has
  none), or fails (`app.js:4193`, `app.js:9184`);
* the ring drops a match that a slow stream still had to send (`state_cache.py:94`); with a filter it can be one
  of the newest matches. An answer that arrives while such rows are on their way would have them behind its own;
* an answer newer than the stream stands in the list while older rows still come, and the connection is
  lost: the `EventSource` opens the same URL, the stream repeats from the old `after_id`, the repeated rows
  replace nothing, and the older rows push others out;
* a merge that fills in hops makes an old record match (`NoLateMatch`); it comes with the next
  snapshot, where it takes the place of a newer row.

The ring that drops a row, the second `Apply` and the lost connection were found by the proof: the invariant
for `RowShownOrComing` was not inductive, and TLC, with larger bounds than the run has, showed each one as a
row that nothing brings any more.

### EngineLifecycle

A thread has a `plan`, the calls it has still to make: a call that makes others is replaced by them,
one that touches shared state is one step. `StartEngine`, `StopEngine`, `RestartReticulum` are the
methods of `EngineSupervisor`; `Check`, `RemoveEntry`, `Spawn`, `Register` are `LxmfProcessManager.start`,
`Find`, `Ask`, `Await`, `RemoveEntry` its `stop`, in the order of the code, which takes no lock. `StartFails` is
a start that raises before its worker is entered (identities that cannot be listed, `Popen`), also in the answer
about a worker that runs already; `StatusFails` one that raises in `_worker_status` when the worker is entered.
At the start of the engine such a failure is reported and the next identity follows; anywhere else the rest of
the plan is dropped.
A worker listens, becomes deaf (`ControlEnds`: an exception ends its control thread), is asked to stop,
or exits at any point. `raced` is set when two requests overlap one of which can start a worker.

### LocalIdentity

An actor is an HTTP thread that saves or removes an identity, an identity generator, or a worker that
starts. It lists the identities (`EnsureDefault`, `Mark`, `List`), finds or generates the key
(`FindKey`, `NewKey`, `WriteKey`), validates the hash (`CheckHash`) and rewrites the configuration
(`ReadConfig`, `Truncate`, `WriteConfig`). `Crash` kills it anywhere. The hashes of destination and
identity are functions of the key, so one stands for both.

### ControllerFiles

`RuntimeInstall` has one step for each file operation of an installation (download, clear, remove, move, feature
files, manifest), of `AppConfig.save` and of a feature's switch; `Kill` and `StepFails` may come between
any two, `Start` is the next start of the controller. `rmtree` and `copytree` work on one file after the other: a
directory is removed in parts, in any order (`Remove` for a runtime, `LxmfRemove` for LXMF), and of a feature's
paths some may be there (`feature = "part"`), so a kill or an exception also comes half-way through them.
Where the code then leaves something to repair is listed in `Unsafe` and `UnsafeToFail` (`cut`): a file emptied
or a manifest torn, a directory half removed, an installation between the removal of the named runtime and the
saved configuration, and, for a failure, a memory that is ahead of the disk. `halfway` holds the versions whose
feature or directory was left so, until their manifest is written again; `FeatureFilesMatch` speaks of the
others, and thereby says that a repeated change or installation repairs what the failed one left, which is not so
when a restoration stops at paths that are there in part (the mutant).
`PropagationStore` is the registry with its lock
and its temporary file. The composition gives both to the same HTTP threads, and one kill ends both.
`Abstract == INSTANCE AbstractRegistry WITH registry <- store` is the refinement: every operation
changes the registry in the step that replaces the file, and no other step does.

### RnsRuntime

The monitor looks at one interface after the other, compares its signature (`seen`) with the recorded
one, decides by the interval, and announces; `CallAnnounce` and its steps are `make_announce` of an
HTTP thread. `PageFetch` has one step for each wait and each call of `fetch_page`, and each asks anew
whether the module is loaded. `BeginStop` and the steps after it are `stop()`: it ends the monitor,
waits for it for a limited time, and unloads the module under everybody's feet. The clock advances freely;
nothing in the code forces a pass of the monitor within a second. `auto` is when the last automatic announce of an
interface went out and when its pass began: the code keeps and compares the beginnings of passes, so a slow pass
brings the next announce early by as much as its own came late, which is what `AnnouncesPaced` promises and no
more. It promises nothing after a slow manual announce wrote an older time over a newer one, or after a failure
at the second of two destinations, when one announce went out and no time is kept (`NoAnnounce`).

* The signature of an interface is recorded before the throttle decides, so a change that falls into the
  interval is not announced later by itself; `ChangesNoticed` speaks of noticing, not of announcing.
* A `link.teardown()` that raises is dropped by the code (`nomadnet_runtime.py:103`); the link is then `"left"`,
  the one case that `NoLinkLeft` excepts.
* A page that has come is dropped for an error if the module was unloaded meanwhile.

## 3. Runs

| Run | Instance | Shows |
|---|---|---|
| `outbound_http` | 1 outbound and 1 inbound message, 2 request threads, 1 worker, 1 removal, 1 restart | `TypeOK`, `ErrorMatchesState`, `SuccessWasReported`, `SendingIsOwned` |
| `outbound_fair` | 1 message, 2 workers, both modes, 0 or 1 enabled node, fairness | `SendingResolves` |
| `outbound_retry` | 1 message, 2 nodes, 1 repeat | `ResultsMatchNodes`, `CountMatchesResults`, `RetryOnlySettled` |
| `outbound_stuck` | 1 message, 1 request thread, 2 workers | `SendingAlwaysOwned` is violated |
| `outbound_exit` | 1 message, 2 workers | `ExitErrorIsTrue` is violated |
| `updates_fair` | 2 conversations, 2 writers, 1 lost connection, 1 failed refresh, 1 status fetch, fairness | `TypeOK`, `UpdateComing`, `ShownNeverBack`, `UpdatesShown` |
| `updates_missed` | 1 conversation, 2 writes | `NoMessageMissed` is violated |
| `announce_feed` | 2 packets, one without a hash, ring of 3, rows and batches of 2, 2 turns | `TypeOK`, `OneRecordPerPacket`, `RingIsNewest`, `StreamSkipsNothing`, `RowShownOrComing`, `SettledListInOrder` |
| `engine_lifecycle` | 2 threads, 1 identity, 2 requests beside the start, 3 processes, 1 failure of a start, fairness | `TypeOK`, `AliveIsKnown`, `OneWorkerPerIdentity`, `RestartBringsBack`, `RequestsEnd` |
| `local_identity` | 2 actors, 2 identities, 2 keys, 5 operations, 1 kill | `TypeOK`, `NeverAnotherKey`, `KeyIsKept`, `SavedNameStays`, `StartsAgain` |
| `controller_files` | 2 threads, 2 releases, 2 propagation nodes, 3 operations, 1 kill or failure | `FilesTypeOK`, `StartsFromConfig`, `InUseIsNamed`, `FeatureFilesMatch`, `RegistryExclusive`, `OldUntilNew`, `RegistryIsAtomic` (refinement of `AbstractRegistry`) |
| `rns_runtime` | 2 interfaces, 1 HTTP thread, 1 change, 1 request, interval 1, clock to 2, fairness | `RuntimeTypeOK`, `NoLinkLeft`, `AnnouncesPaced`, `ChangesNoticed`, `UsersEnd` |

**Bounds.** `MaxRepeats`, `MaxRemovals`, `MaxRestarts`, `MaxWrites`, `MaxDrops`, `MaxFailures` and
`MaxPolls` stand in the guards of the actions they bound; one unread inbound event per worker is
the bound written in `ReceiveMessage`. The races of this code need two accesses to one file: an
HTTP thread and the output thread, or two HTTP threads; both pairs are there. A second message
would add only the fact that each write replaces the whole list, which the inbound message of
`outbound_http` shows, one that arrives while an outbound record is being changed. One repeat
is enough for events of an earlier attempt to meet a later one, two workers for an exit to meet a
successor, two nodes for a job to be accepted by one and refused by the other. In `ClientUpdates`
two writers and two conversations let a refresh read one before and the other after a change.
The ring of `announce_feed` is one longer than a batch and one shorter than the number of records, so
that both limits are met; its two turns let a lost connection follow a changed filter, or a status answer
meet a snapshot. What `gap` must except needs more: with its inductive invariant the module was also checked
once each with rows of 3, a ring of 5 and 6 records, and with two filters, a ring of 3, 5 records and 3 turns (some
5 and 7 million states); the theorems cover the rest. In `engine_lifecycle` the starter and two requests are three sequences of calls over two
threads: a start against a restart, a stop against a stop; a third engine and process is what a restart
after a restart needs. `local_identity` takes five operations because a key has to be made, used,
removed and met again. `controller_files` needs an installation, a second one or a selection that overlaps
it, and a kill or failure between, or a failure and the operation that repairs it. In `rns_runtime` a failing interface must come before a changed one in the list, and
the clock must pass the interval once while another announce is under way.

Request threads, actors, releases and nodes are symmetric in the runs that declare it, none of which
checks liveness.

**Deadlock** is not checked: when the bounds are spent and everything is settled, the system waits
for its user.

**Fairness.** Every thread that was started is scheduled, and each of its waits ends (7 s for an
answer, 15 s in the stream): `WF` on `StoreStep`, `HttpStep`, `OutputStep`, `ControlStep`,
`StreamStep`, `Notify`. From LXMF, which is not in the repository, `DirectStep` and
`PropagationStep` assume that it calls back for a message it was given: the worker itself waits
for that without a timeout (`engine/lxmf_worker.py:502`), so nothing less would do. From the
browser it is assumed that an EventSource reconnects, handlers run and requests are answered or
fail. Users, exits, restarts, lost connections and status fetches owe nothing.
`FairSpec` of `EngineLifecycle` asks only that threads are scheduled: `process.wait` has a timeout, after
which the worker is terminated and killed, so nothing is asked of a worker. `RuntimeSpec` likewise asks for
the monitor's, the stopping and the HTTP threads, whose waits all end; Reticulum, the clock and users owe
nothing.

## 4. Findings

* **A message can stay "sending" with nobody sending it** (`outbound_stuck`).
  `update_outbound_message` of the HTTP thread and of the output thread read and write the file
  without a lock, so the confirmation can write back "sending" over the recorded outcome. Such a
  message cannot be repeated ("Message is already sending", `client_contacts.py:347`).
* **The exit of a replaced worker fails a message of its successor** (`outbound_exit`).
  `lxmf.worker_exited` carries the identity only; see `controller/app.py:1365`.
* **The page can miss a change** (`updates_missed`). The comment at
  `web-ui/assets/js/app.js:4042` says that no message can be missed; an event that arrives while
  `clientRefreshInFlight` is set is ignored and nothing fetches the change.

`SendingIsOwned`, `SendingResolves`, `CountMatchesResults`, `RetryOnlySettled`, `UpdateComing` and
`UpdatesShown` show that these are the only reasons: each holds as long as no two accesses to the
file overlapped (`disturbed`), respectively nothing of what `lost` records happened.
`ErrorMatchesState`, `SuccessWasReported` and `ResultsMatchNodes` hold without any such condition.

`AnnounceFeed`, `EngineLifecycle`, `LocalIdentity` and `ControllerFiles` have further overlaps that do harm,
each named by a history variable in a guarded property: `gap` and `NoLateMatch`; `raced` (a restart of the
engine beside a start leaves a worker nobody can stop); `crossed`, `raced`, `torn` (a save read before another
writer's text is written over it; two first starts make two keys; a kill empties `identity.json`);
`crossed`, `cut` and `halfway`. No doc or comment denies them, so they are no findings.

## 5. Proofs

All theorems hold for every value of the constants that satisfies the named assumption of the module,
and nothing else is assumed.

**`OutboundMessages_proofs`**, from `StoreAssumption` and `OutboundAssumption`. Its first part holds the
lemmas about the operators of `ConversationStore`.

* `TypeCorrect`: `Spec => []TypeOK`. `TypeOK` is not inductive by itself. `TypeInv` adds `OpShape`:
  only request threads hold operations that send, and a thread at the control port or waiting has
  an `add` or `retry` of an outbound message. One lemma per action group.
* `ErrorsCorrect`, `ResultsCorrect`: what every list satisfies. The argument is the same for both:
  `ListStep` says that after a step each list (the file, or what a thread is about to write) was
  one of the lists before, is empty, or was written by one operation from the file's list; the
  lemmas `WrittenErrors` and `WrittenResults` say that `Written` preserves the property. Because the
  invariant speaks of all lists, stale ones included, it survives every overwriting.
* `SuccessCorrect`: the invariant must follow the evidence through the system. `Evidence` says that
  every list, every operation in progress and every unread event is backed by the history
  variables. `HistoryGrows` says that these only grow; `OpStep` and `PipeStep` say where operations
  and events come from; `WrittenReported` says that a backed operation on a backed list writes
  a backed list.
* `NobodyForgotten` (`SendingIsOwned`): a message shown as sending has somebody who will settle it. Three
  invariants carry it. `FileSound`: while no accesses overlapped, one thread at most is in its write, lists
  that were overtaken are in `stale`, and every other list a thread is about to write is `Written(op[t], messages)`;
  so no outcome is written away. `RequestInv`: a control request belongs to the one thread that waits
  for its answer and has none yet. `Handled` says who *will* settle the message, where the property only
  needs somebody involved: the thread that sends it, the request on its way, the callback LXMF owes, the
  queued job or its unread event, the end of the worker as long as it is not applied, or the start of the
  controller. An exit that is applied is the last thing its thread does (`Ended`), so the outcomes the worker
  had reported before come first.
* `RepeatsSettled` (`RetryOnlySettled`): with `FileSound` the file changes by one operation at a time
  (`FileChange`); attempts are counted from one (`Counted`), so a record with none was never sent.
* `CountsMatch` (`CountMatchesResults`): two numbers that reach the record by different ways agree. In
  `CountInv` a message with its first attempt only has one source (`OneSource`): what there is of it outside the
  file is at the thread that sends it, in one request, or with one job and its events; nobody sends it twice,
  because an id is drawn once (`Unsent`). The job's count is the number of nodes that accepted (`JobSound`); each of
  them is in the file or in an event that the output thread has yet to apply, before the one with the count
  (`Covered`, as the output is read in order), and a failure names a node that never accepted (`EventsSound`).
  An exit or a restart that loses some of these events loses the count behind them too. `Reporters`: only
  output threads apply them.

**`LocalIdentity_proofs`**, from `IdentityAssumption`. `TypeCorrect` needs `Shape`: what an actor may be
doing in each operation, and when it has a key. `KeyNeverReplaced` (`NeverAnotherKey`) and `KeyFileKept`
(`KeyIsKept`) share `KeyInv(i)`, assumed of identities that were not raced for. It cannot
speak of the file alone, since an actor that has read an old configuration writes it later: `HashInv`
speaks of every hash that the file or an actor holds. With a key, all are its hash or none; before a key
is written, none; after the key was deleted, all the same. `UserInv` says that whoever works with a key has
the one in the file, that one actor at most is about to write a first key, and that whoever deletes the
files is alone. `ActorStep` does all steps that leave the key alone at once; `KeyNew` and `KeyRemove` are the
others. `NameStays` (`SavedNameStays`) and `CanStart` (`StartsAgain`) share `SoundInv`, assumed of identities
that are undisturbed (no overlapping access, no kill in a write, no race for the key). Then one actor at most
is writing, what it writes carries the saved name, and the file is empty while it does and readable, with that
name, otherwise (`FileSound`); half of a key is in the file only while somebody writes it, and a hash without a
key only while somebody deletes the identity (`KeySound`).

**`PropagationStore_proofs`, `ControllerFiles_proofs`.** `AlwaysExclusive` has the inductive invariant
`TypeOK /\ Exclusive`: who is past the load holds the lock, has the list its operation makes of the file as it
still is, and what replaces the file is whole. From it `Atomic` follows: `Replace` is a step of
`AbstractRegistry`, every other step a stutter. `FilesRefine` shows that the composition implements
`PropagationStore` (installations, kills and starts map to its steps or to stutters), so `FilesExclusive`
and `FilesAtomic` are inherited; they use `FilesAssumption`. The other five are about the runtimes:
`FilesTypeCorrect`, `RestartFinds` (`StartsFromConfig`), `MemoryIsFile` (`InUseIsNamed`), `FeaturesMatch`
(`FeatureFilesMatch`) and the action property `OldStays` (`OldUntilNew`), all from `InstallInv`. It says of
each step of an operation what was done by then to directories, manifest, file and settings in memory
(`Whole`), of a controller at rest what it says of no operation (`Whole(Free)`), and weaker things of
what a thread is building that hold after a cut as well ((`Building`). Operations that overlapped (`crossed`) and
operations that were ended at a step in `Unsafe` or `UnsafeToFail` (`cut`) are excepted there and in the
properties. `FeaturesMatch` does not depend on `cut`: `Matched` says of each version what its files are while
an operation is at work on it, and `halfway` takes over when that is ended. that overlapped (`crossed`) and
cuts at a step in `Unsafe` (`cut`) are excepted there and in the properties, and nowhere else.

**`EngineLifecycle_proofs`**, from the assumption of its module. The threads have plans, sequences of calls that
are replaced by the calls they make, so the invariants speak of every call in a plan and of what stands
behind it. `TypeCorrect` needs the shape of plans: which call may wait behind which (`Follows`) and which
belongs to which request (`Fits`). `NobodyLost` (`AliveIsKnown`) and `OneWorker` (`OneWorkerPerIdentity`)
have the invariant `Orderly`: as nothing is locked, each call relies between the step that looked and the step that
acts on nobody else having started, stopped or replaced what it saw (`Relies`). It is assumed until requests race
(`raced`), as in the properties. `AllBack` (`RestartBringsBack`): `AskedAwaits` says that a worker that was
asked to stop is waited for, `Restores` that a restart without a failure still has to start each identity that
ran before, or that it runs or ended by itself.

**`ClientUpdates_proofs`**, from `UpdatesAssumption`: `TypeCorrect`; `UpdateIsComing`, by induction with
`NotAhead` (no change id and no read is ahead of what was given or written), which is what makes a
replaced answer older and a notification newer; `NeverBack`, from `OneRefresh`: without polls
`inFlight` says whether a request is under way, there is one at most, and what it has read is not older than
what is shown.

**`AnnounceFeed_proofs`**, from `FeedAssumption`: `RingCorrect` and `PacketsOnce`, with `RingInv`, their
conjunction over well-typed records; `FeedTypeCorrect` (`TypeOK`); `StreamComplete` (`StreamSkipsNothing`).
The model filters the ring with `RowsAt`, the rows at a set of positions taken in order, because the prover knows
nothing of `SelectSeq`; `OrderOfPositions` proves that the order exists, from the ranks of the positions, and
`BatchIsFirst` that a batch is in order, behind the last id and without a gap. `StreamInv` keeps that while rows
are sent one by one and reports change the ring (`BatchInOrder`, `BatchComplete`), and says that a hop
count, once known, stays (`BornStays`): what matched when it was reported matches when the batch is taken.
`RowsComing` (`RowShownOrComing`) and `ListSettles` (`SettledListInOrder`) come from `FeedInv`, which adds to
`StreamInv` what is under way: `FlowInv`, that a connection sends matches in ascending order from behind its
`after_id`, each dispatched before a newer one; `AnswerInv`, that an answer leaves no match out below its last
row; and `Fits`, what the list has. Without a late match and outside `gap`, a match the ring holds is in the list,
due on the stream, or older than every row of a full list (`Shown`), where rows up to the
stream's start count only when no answer is to replace them (`Here`). A list that is not full cannot be known to
stay so after a push: hence the list is in order with nothing missing between its rows (`Sorted`, `Whole`), or,
after an answer came ahead of the stream, full and in two ascending runs, the second one still growing, with a
row due that belongs between them (`Rotated`). Each step is a lemma (`ReportFits`, `ConnectFits`, ..,
`DispatchFits`). That no row of the newest `Limit` is older than `Limit` others is a count (`NotOlder`), and
`Settled` leaves nothing due, so a settled list is not rotated.

**`RnsRuntime_proofs`**, from `MonitorAssumption` and `RuntimeAssumption`: `RuntimeTypes` (`RuntimeTypeOK`), with
the number of changes as a bound of the versions; `LinksClosed` (`NoLinkLeft`), from `LinkInv`, which adds that a
fetch that gives up before it opened a link has none. `AlwaysPaced` (the action property `AnnouncesPaced`), from `PaceInv`: for each
interface the recorded time is not before the beginning of the pass of its last automatic announce, except
between that announce and its record, and unless the announce is forgotten (`NoAnnounce`: an older time was put
there, or none); a monitor about to send has compared with it.

Every safety property and action property of a passing run is stated by a theorem. Only model-checked are the
liveness properties, `SendingResolves`, `UpdatesShown`, `RequestsEnd`, `ChangesNoticed` and `UsersEnd`: they need fairness and ENABLED, which are outside what the prover does.

## 6. What the models leave out

* One conversation of one identity: the files of two contacts do not interact, except that an
  exit and a start change all of them. Order of the list, names, hashes, texts and time stamps.
* Migration of legacy records when they are read, and the sample conversation. On records the
  program wrote itself `_normalise_message_record` changes nothing: the one rule that could
  apply, results filled in from the accepting nodes when there are none, would need a record
  with a node and no result, which `ResultsMatchNodes` (proved) excludes.
* In `OutboundMessages` a worker is started only when no other of its identity runs, as
  `LxmfProcessManager.start` checks; two concurrent starts and the end of the control thread by an
  exception are in `EngineLifecycle`. For a sender that end looks like requests that are not
  answered.
* In `ClientUpdates` a write is one step, and the thread that still serves a closed connection is
  not kept: it changes no shared state.
* In `AnnounceFeed` the other filters: they test fields that a merge fills in like the hop count. Two pages.
* In `EngineLifecycle` `RnsRuntime.start` is one step: a second instance of Reticulum in one process, which
  overlapping restarts can ask for, fails in the library.
* In `LocalIdentity` the announce settings of an identity, which are kept and lost like its name.
* In `RuntimeInstall` archives, checksums and version lists, the second optional feature, the save with which
  `AppConfig.load` refreshes its file, and `remove_lxmf_release`, which nothing calls. The LXMF settings file is
  written like the configuration file.
* In `AnnounceMonitor` a runtime without destinations, which announces nothing. An announce goes to all
  destinations in one step, which may fail between two of them. An interface that changes in every pass could keep the monitor busy for ever;
  changes are bounded.
* Not modelled: the clock of the worker's automatic announces, the NomadNet browser store (one document
  under a lock and a temporary file, as in `PropagationStore`, the rest is normalisation), access control,
  HTTP routing, the editor of Reticulum's configuration (parsing and formatting), legacy accounts,
  placeholders and the launcher.

## 7. Plan

1. `PropagationReplication`: an abstract job (a set of targets, each with one outcome, then one completion)
   which the queue, pipe and records of `OutboundMessages` implement.
2. The worker's automatic announces beside requests to announce; two pages in `AnnounceFeed`.
