--------------------------- MODULE OutboundMessages ---------------------------
(***************************************************************************)
(* One conversation of one local identity: HTTP threads that send, repeat, *)
(* delete and clear (controller/app.py), the LXMF worker process that      *)
(* delivers (engine/lxmf_worker.py), the thread that reads its output      *)
(* (engine/lxmf_process_manager.py) and applies its events to the file,    *)
(* and the start of the controller.                                        *)
(*                                                                         *)
(* ClientContactStore holds no lock: every operation reads messages.json,  *)
(* computes, truncates the file (write_text opens it with "w") and writes  *)
(* it, and these are separate steps here.                                  *)
(***************************************************************************)
EXTENDS ConversationStore, Sequences

CONSTANTS OutIds, InIds,   \* ids of outbound and of inbound messages
          Http,            \* slots for concurrent HTTP request threads
          Workers,         \* incarnations of the identity's worker process
          Starter,         \* the thread that runs ControllerApp.start
          NoCaller,        \* a control request whose HTTP thread timed out
          Methods,         \* message modes the settings may have
          TargetSets,      \* sets of enabled propagation nodes
          MaxRepeats,      \* bound: requests to repeat a message
          MaxRemovals,     \* bound: requests to delete or clear
          MaxRestarts      \* bound: restarts of the controller

ASSUME OutboundAssumption ==
    /\ MsgIds = OutIds \cup InIds /\ OutIds \cap InIds = {}
    /\ Methods \subseteq DeliveryMethod
    /\ TargetSets \subseteq SUBSET Nodes
    /\ Starter \notin Http \cup Workers /\ Http \cap Workers = {}
    /\ NoCaller \notin Http
    /\ MaxRepeats \in Nat /\ MaxRemovals \in Nat /\ MaxRestarts \in Nat

\* A worker's name also names the thread that reads its output.
Threads == Http \cup Workers \cup {Starter}

VARIABLES
    disk,      \* messages.json: "whole", "empty" (truncated) or "mixed"
    messages,  \* its content, when it is whole
    pc,        \* where each thread is
    op,        \* the store operation it is doing
    out,       \* the list it is about to write
    reply,     \* the worker's answer to its control request
    status,    \* of each worker process
    requests,  \* each worker's control requests, in the order of arrival
    direct,    \* direct messages handed to LXMF, by id: attempts under way
    queue,     \* each worker's propagation queue, the job in work at its head
    pipe,      \* each worker's output: events not yet read
    spent,     \* how much of each bound was used
    drawn,     \* history: ids already used
    delivered, \* history: messages whose delivery LXMF confirmed
    nodesOf,   \* history: nodes whose acceptance the worker saw
    stale,     \* history: threads whose list was overtaken by a write
    disturbed  \* history: two accesses to the file overlapped, or the
               \* controller died while it was truncated

fileVars    == <<disk, messages>>
threadVars  == <<pc, op, out, reply>>
workerVars  == <<status, requests, direct, queue>>
historyVars == <<drawn, delivered, nodesOf, stale, disturbed>>
vars == <<disk, messages, pc, op, out, reply, status, requests, direct, queue, pipe,
          spent, drawn, delivered, nodesOf, stale, disturbed>>

Request == [caller : Http \cup {NoCaller}, m : OutIds, method : DeliveryMethod,
            targets : SUBSET Nodes]
\* What a worker reports.
Report == {e \in Op : /\ e.kind \in {"delivered", "failed", "propagated", "nodefailed",
                                      "complete", "received"}
                      /\ e.m \in OutIds \/ e.kind = "received"}
Job == [m : OutIds, targets : SUBSET Nodes, todo : SUBSET Nodes, ok : Nat, complete : BOOLEAN]

TypeOK ==
    /\ disk \in {"whole", "empty", "mixed"}
    /\ messages \in Conversation
    /\ pc \in [Threads -> {"idle", "read", "truncate", "write", "control", "wait", "done"}]
    /\ op \in [Threads -> Op]
    /\ out \in [Threads -> Conversation]
    /\ reply \in [Threads -> {"none", "queued", "error"}]
    /\ status \in [Workers -> {"unused", "running", "exited"}]
    /\ requests \in [Workers -> Seq(Request)]
    /\ direct \in [Workers -> [OutIds -> Nat]]
    /\ queue \in [Workers -> Seq(Job)]
    /\ pipe \in [Workers -> Seq(Report)]
    /\ spent \in [repeats : Nat, removals : Nat, restarts : Nat]
    /\ drawn \subseteq OutIds
    /\ delivered \subseteq OutIds
    /\ nodesOf \in [OutIds -> SUBSET Nodes]
    /\ stale \subseteq Threads
    /\ disturbed \in BOOLEAN

Init ==
    /\ disk = "whole" /\ messages = NoMessages
    /\ pc = [t \in Threads |-> "idle"]
    /\ op = [t \in Threads |-> NoOp]
    /\ out = [t \in Threads |-> NoMessages]
    /\ reply = [t \in Threads |-> "none"]
    /\ status = [w \in Workers |-> "unused"]
    /\ requests = [w \in Workers |-> <<>>]
    /\ direct = [w \in Workers |-> [m \in OutIds |-> 0]]
    /\ queue = [w \in Workers |-> <<>>]
    /\ pipe = [w \in Workers |-> <<>>]
    /\ spent = [repeats |-> 0, removals |-> 0, restarts |-> 0]
    /\ drawn = {} /\ delivered = {} /\ nodesOf = [m \in OutIds |-> {}]
    /\ stale = {} /\ disturbed = FALSE
-----------------------------------------------------------------------------
\* Thread t starts the operation o.
Begin(t, o, at) == /\ pc' = [pc EXCEPT ![t] = at]
                   /\ op' = [op EXCEPT ![t] = o]

\* The operation of thread t is over: op and out are local and forgotten.
Finish(t) == /\ Begin(t, NoOp, IF op[t].kind = "workerexit" THEN "done" ELSE "idle")
             /\ out' = [out EXCEPT ![t] = NoMessages]

\* add_outbound_message and prepare_outbound_retry return a record, and the
\* thread goes on to queue it; every other operation is the last of its thread.
AfterWrite(t) == IF op[t].kind \in {"add", "retry"}
                 THEN Begin(t, op[t], "control") /\ out' = [out EXCEPT ![t] = NoMessages]
                 ELSE Finish(t)

(***************************************************************************)
(* The conversation file.                                                  *)
(***************************************************************************)
StoreRead(t) ==
    /\ pc[t] = "read" /\ disk = "whole"
    /\ IF Writes(op[t], messages)
       THEN /\ pc' = [pc EXCEPT ![t] = "truncate"]
            /\ out' = [out EXCEPT ![t] = Written(op[t], messages)]
            /\ UNCHANGED op
       ELSE Finish(t)
    /\ UNCHANGED <<fileVars, reply, workerVars, pipe, spent, historyVars>>

\* json.loads raises on a truncated or mixed file.  In the try block of
\* _queue_client_outbound_message this marks the message failed; the output
\* thread drops the event; ControllerApp.start ends and no engine runs.
StoreReadFails(t) ==
    /\ pc[t] = "read" /\ disk # "whole"
    /\ CASE op[t].kind = "queued"  -> Begin(t, [op[t] EXCEPT !.kind = "sendfailed"], "read")
                                      /\ UNCHANGED out
         [] op[t].kind = "restart" -> Begin(t, NoOp, "done") /\ UNCHANGED out
         [] OTHER                  -> Finish(t)
    /\ disturbed' = TRUE
    /\ UNCHANGED <<fileVars, reply, workerVars, pipe, spent,
                   drawn, delivered, nodesOf, stale>>

StoreTruncate(t) ==
    /\ pc[t] = "truncate"
    /\ pc' = [pc EXCEPT ![t] = "write"]
    /\ disk' = "empty"
    /\ disturbed' = (disturbed \/ t \in stale \/ disk # "whole")
    /\ stale' = (stale \ {t}) \cup
                {u \in Threads \ {t} : pc[u] = "truncate" /\ op[u].kind # "clear"}
    /\ UNCHANGED <<messages, op, out, reply, workerVars, pipe, spent,
                   drawn, delivered, nodesOf>>

\* Over the bytes of another writer the shorter text leaves a tail behind.
StoreWrite(t) ==
    /\ pc[t] = "write"
    /\ \/ disk' = "whole" /\ messages' = out[t]
       \/ disk # "empty" /\ disk' = "mixed" /\ UNCHANGED messages
    /\ AfterWrite(t)
    /\ UNCHANGED <<reply, workerVars, pipe, spent, historyVars>>

(***************************************************************************)
(* HTTP requests.                                                          *)
(***************************************************************************)
\* _client_message_delivery_context: the mode and the nodes enabled now.
Contexts == {<<"direct", {}>> : x \in Methods \cap {"direct"}}
            \cup {<<"propagation", ns>> : ns \in IF "propagation" \in Methods THEN TargetSets ELSE {}}

OutOp(kind, m, context) ==
    [kind |-> kind, m |-> m, method |-> context[1], targets |-> context[2], ok |-> 0]

SendMessage(t, m, context) ==
    /\ pc[t] = "idle" /\ m \notin drawn
    /\ drawn' = drawn \cup {m}
    /\ Begin(t, OutOp("add", m, context), "read")
    /\ UNCHANGED <<fileVars, out, reply, workerVars, pipe, spent,
                   delivered, nodesOf, stale, disturbed>>

RepeatMessage(t, m, context) ==
    /\ pc[t] = "idle" /\ m \in drawn /\ spent.repeats < MaxRepeats
    /\ spent' = [spent EXCEPT !.repeats = @ + 1]
    /\ Begin(t, OutOp("retry", m, context), "read")
    /\ UNCHANGED <<fileVars, out, reply, workerVars, pipe, historyVars>>

\* Also of a message that is gone already.
RemoveMessage(t, m) ==
    /\ pc[t] = "idle" /\ m \in drawn
    /\ spent.removals < MaxRemovals
    /\ spent' = [spent EXCEPT !.removals = @ + 1]
    /\ Begin(t, PlainOp("delete", m), "read")
    /\ UNCHANGED <<fileVars, out, reply, workerVars, pipe, historyVars>>

\* clear_messages writes without reading.
ClearMessages(t) ==
    /\ pc[t] = "idle"
    /\ Begin(t, PlainOp("clear", AnyMsg), "truncate")
    /\ out' = [out EXCEPT ![t] = NoMessages]
    /\ spent.removals < MaxRemovals
    /\ spent' = [spent EXCEPT !.removals = @ + 1]
    /\ UNCHANGED <<fileVars, reply, workerVars, pipe, historyVars>>
Running == {w \in Workers : status[w] = "running"}

\* _send_control_json reaches the worker; the request waits its turn.
SubmitRequest(t, w) ==
    /\ pc[t] = "control" /\ w \in Running
    /\ op[t].method = "propagation" => op[t].targets # {}
    /\ requests' = [requests EXCEPT ![w] = Append(@,
            [caller |-> t, m |-> op[t].m, method |-> op[t].method, targets |-> op[t].targets])]
    /\ pc' = [pc EXCEPT ![t] = "wait"]
    /\ UNCHANGED <<fileVars, op, out, reply, status, direct, queue, pipe, spent, historyVars>>

FailedSend(t) == Begin(t, [op[t] EXCEPT !.kind = "sendfailed"], "read")

\* No enabled node, no engine, no worker, or no connection within 0.25 s.
SubmitFails(t) ==
    /\ pc[t] = "control"
    /\ FailedSend(t)
    /\ UNCHANGED <<fileVars, out, reply, workerVars, pipe, spent, historyVars>>

ReplyQueued(t) ==
    /\ pc[t] = "wait" /\ reply[t] = "queued"
    /\ Begin(t, [op[t] EXCEPT !.kind = "queued"], "read")
    /\ reply' = [reply EXCEPT ![t] = "none"]
    /\ UNCHANGED <<fileVars, out, workerVars, pipe, spent, historyVars>>

\* The worker refused, or its answer names so many nodes that the 4096
\* bytes of one recv do not hold it and json.loads raises.
ReplyFailed(t) ==
    /\ pc[t] = "wait"
    /\ reply[t] = "error" \/ (reply[t] = "queued" /\ op[t].method = "propagation")
    /\ FailedSend(t)
    /\ reply' = [reply EXCEPT ![t] = "none"]
    /\ UNCHANGED <<fileVars, out, workerVars, pipe, spent, historyVars>>

\* 7 s without an answer, or the worker ended: the request itself stays with
\* a worker that lives.
ReplyTimeout(t) ==
    /\ pc[t] = "wait" /\ reply[t] = "none"
    /\ FailedSend(t)
    /\ requests' = [w \in Workers |-> [i \in DOMAIN requests[w] |->
                       IF requests[w][i].caller = t
                       THEN [requests[w][i] EXCEPT !.caller = NoCaller]
                       ELSE requests[w][i]]]
    /\ UNCHANGED <<fileVars, out, reply, status, direct, queue, pipe, spent, historyVars>>

(***************************************************************************)
(* The worker process: its control thread, LXMF's callbacks for direct     *)
(* messages, and the thread that works through the propagation queue.      *)
(***************************************************************************)
Answer(caller, value) ==
    reply' = IF caller = NoCaller THEN reply ELSE [reply EXCEPT ![caller] = value]

Emit(w, event) == pipe' = [pipe EXCEPT ![w] = Append(@, event)]
Event(kind, m, method, targets, ok) ==
    [kind |-> kind, m |-> m, method |-> method, targets |-> targets, ok |-> ok]

\* The job at the head of the queue goes on as j.
Continue(w, j) == queue' = [queue EXCEPT ![w] = <<j>> \o Tail(@)]

AcceptRequest(w) ==
    /\ w \in Running /\ requests[w] # <<>>
    /\ LET r == Head(requests[w])
       IN  /\ Answer(r.caller, "queued")
           /\ IF r.method = "direct"
              THEN /\ direct' = [direct EXCEPT ![w][r.m] = @ + 1]
                   /\ UNCHANGED queue
              ELSE /\ queue' = [queue EXCEPT ![w] = Append(@,
                        [m |-> r.m, targets |-> r.targets, todo |-> r.targets,
                         ok |-> 0, complete |-> FALSE])]
                   /\ UNCHANGED direct
    /\ requests' = [requests EXCEPT ![w] = Tail(@)]
    /\ UNCHANGED <<fileVars, pc, op, out, status, pipe, spent, historyVars>>

\* Not ready, or the destination's identity is not known after the lookup.
RefuseRequest(w) ==
    /\ w \in Running /\ requests[w] # <<>>
    /\ Answer(Head(requests[w]).caller, "error")
    /\ requests' = [requests EXCEPT ![w] = Tail(@)]
    /\ UNCHANGED <<fileVars, pc, op, out, status, direct, queue, pipe, spent, historyVars>>

\* _outbound_succeeded and _outbound_failed, called by LXMF once per message.
DirectOutcome(w, m, kind) ==
    /\ w \in Running /\ direct[w][m] > 0
    /\ direct' = [direct EXCEPT ![w][m] = @ - 1]
    /\ Emit(w, Event(kind, m, "direct", {}, 0))
    /\ delivered' = IF kind = "delivered" THEN delivered \cup {m} ELSE delivered
    /\ UNCHANGED <<fileVars, threadVars, status, requests, queue, spent,
                   drawn, nodesOf, stale, disturbed>>

\* _receive_message.  Bound: at most one unread inbound event per worker.
ReceiveMessage(w, m) ==
    /\ w \in Running
    /\ \A i \in DOMAIN pipe[w] : pipe[w][i].kind # "received"
    /\ Emit(w, PlainOp("received", m))
    /\ UNCHANGED <<fileVars, threadVars, workerVars, spent, historyVars>>

\* _replicate_propagation_message, one node at a time.
NodeAccepted(w, n) ==
    /\ w \in Running /\ queue[w] # <<>> /\ n \in Head(queue[w]).todo
    /\ LET j == Head(queue[w])
       IN  /\ Emit(w, Event("propagated", j.m, "propagation", {n}, 0))
           /\ nodesOf' = [nodesOf EXCEPT ![j.m] = @ \cup {n}]
           /\ Continue(w, [j EXCEPT !.todo = j.todo \ {n}, !.ok = j.ok + 1])
    /\ UNCHANGED <<fileVars, threadVars, status, requests, direct, spent,
                   drawn, delivered, stale, disturbed>>

\* No stamp cost, or the attempt failed; when the stamp could not be
\* generated the remaining nodes are not attempted.
NodeFailed(w, n) ==
    /\ w \in Running /\ queue[w] # <<>> /\ n \in Head(queue[w]).todo
    /\ LET j == Head(queue[w])
       IN  /\ Emit(w, Event("nodefailed", j.m, "propagation", {n}, 0))
           /\ \E rest \in {j.todo \ {n}, {}} : Continue(w, [j EXCEPT !.todo = rest])
    /\ UNCHANGED <<fileVars, threadVars, status, requests, direct, spent, historyVars>>

\* Variant: no job goes on to a final failure.
JobAlwaysOver(j) == TRUE

\* After the completion event: only a job without acceptance goes on, to
\* its final failure.
JobOver(j) == j.ok > 0

ReplicationComplete(w) ==
    /\ w \in Running /\ queue[w] # <<>>
    /\ LET j == Head(queue[w])
       IN  /\ j.todo = {} /\ ~j.complete
           /\ Emit(w, Event("complete", j.m, "propagation", j.targets, j.ok))
           /\ IF JobOver(j) THEN queue' = [queue EXCEPT ![w] = Tail(@)]
                            ELSE Continue(w, [j EXCEPT !.complete = TRUE])
    /\ UNCHANGED <<fileVars, threadVars, status, requests, direct, spent, historyVars>>

\* _emit_final_propagation_failure: no node accepted, or an exception in
\* the loop, which may follow an acceptance.
FinalFailure(w) ==
    /\ w \in Running /\ queue[w] # <<>>
    /\ Emit(w, Event("failed", Head(queue[w]).m, "propagation", {}, 0))
    /\ queue' = [queue EXCEPT ![w] = Tail(@)]
    /\ UNCHANGED <<fileVars, threadVars, status, requests, direct, spent, historyVars>>

\* The process ends: stopped, or on its own.  What it wrote can still be read.
WorkerExit(w) ==
    /\ w \in Running
    /\ status' = [status EXCEPT ![w] = "exited"]
    /\ requests' = [requests EXCEPT ![w] = <<>>]
    /\ direct' = [direct EXCEPT ![w] = [m \in OutIds |-> 0]]
    /\ queue' = [queue EXCEPT ![w] = <<>>]
    /\ UNCHANGED <<fileVars, threadVars, pipe, spent, historyVars>>

(***************************************************************************)
(* The controller.                                                         *)
(***************************************************************************)
\* LxmfProcessManager.start, once ControllerApp.start is through: a process
\* that has ended is replaced, its output thread may still be reading.
StartWorker(w) ==
    /\ pc[Starter] = "idle" /\ Running = {} /\ status[w] = "unused"
    /\ status' = [status EXCEPT ![w] = "running"]
    /\ UNCHANGED <<fileVars, threadVars, requests, direct, queue, pipe, spent, historyVars>>

\* _read_worker_output: the next event, and after the last one the exit.
ReadEvent(w) ==
    /\ pc[w] = "idle" /\ status[w] # "unused" /\ pipe[w] # <<>>
    /\ Begin(w, Head(pipe[w]), "read")
    /\ pipe' = [pipe EXCEPT ![w] = Tail(@)]
    /\ UNCHANGED <<fileVars, out, reply, workerVars, spent, historyVars>>

ReadExit(w) ==
    /\ pc[w] = "idle" /\ status[w] = "exited" /\ pipe[w] = <<>>
    /\ Begin(w, PlainOp("workerexit", AnyMsg), "read")
    /\ UNCHANGED <<fileVars, out, reply, workerVars, pipe, spent, historyVars>>

\* The controller process dies at any point and starts again: threads,
\* workers and pipes are gone, the file stays as it is.  ControllerApp.start
\* fails what was pending while the HTTP server already answers.
RestartController ==
    /\ spent.restarts < MaxRestarts
    /\ spent' = [spent EXCEPT !.restarts = @ + 1]
    /\ pc' = [t \in Threads |->
                IF t = Starter THEN "read"
                ELSE IF t \in Workers /\ status[t] # "unused" THEN "done" ELSE "idle"]
    /\ op' = [t \in Threads |-> IF t = Starter THEN PlainOp("restart", AnyMsg) ELSE NoOp]
    /\ out' = [t \in Threads |-> NoMessages]
    /\ reply' = [t \in Threads |-> "none"]
    /\ status' = [w \in Workers |-> IF status[w] = "running" THEN "exited" ELSE status[w]]
    /\ requests' = [w \in Workers |-> <<>>]
    /\ direct' = [w \in Workers |-> [m \in OutIds |-> 0]]
    /\ queue' = [w \in Workers |-> <<>>]
    /\ pipe' = [w \in Workers |-> <<>>]
    /\ stale' = {}
    /\ disturbed' = (disturbed \/ disk # "whole")
    /\ UNCHANGED <<fileVars, drawn, delivered, nodesOf>>
-----------------------------------------------------------------------------
StoreStep(t) == StoreRead(t) \/ StoreReadFails(t) \/ StoreTruncate(t) \/ StoreWrite(t)

\* What a request thread does by itself once it was started.
HttpStep(t) == \/ \E w \in Workers : SubmitRequest(t, w)
               \/ SubmitFails(t)
               \/ ReplyQueued(t) \/ ReplyFailed(t) \/ ReplyTimeout(t)

ControlStep(w) == AcceptRequest(w) \/ RefuseRequest(w)
DirectStep(w) == \E m \in OutIds, kind \in {"delivered", "failed"} : DirectOutcome(w, m, kind)
PropagationStep(w) == \/ \E n \in Nodes : NodeAccepted(w, n) \/ NodeFailed(w, n)
                      \/ ReplicationComplete(w) \/ FinalFailure(w)
OutputStep(w) == ReadEvent(w) \/ ReadExit(w)

User(t) == \/ \E m \in OutIds, context \in Contexts :
                 SendMessage(t, m, context) \/ RepeatMessage(t, m, context)
           \/ \E m \in MsgIds : RemoveMessage(t, m)
           \/ ClearMessages(t)

Next ==
    \/ \E t \in Threads : StoreStep(t)
    \/ \E t \in Http : User(t) \/ HttpStep(t)
    \/ \E w \in Workers :
          \/ ControlStep(w) \/ DirectStep(w) \/ PropagationStep(w) \/ OutputStep(w)
          \/ \E m \in InIds : ReceiveMessage(w, m)
          \/ WorkerExit(w) \/ StartWorker(w)
    \/ RestartController

Spec == Init /\ [][Next]_vars

\* Every thread is scheduled and its waits time out; a worker answers its
\* control port, and LXMF calls back for every message it was given.  Users,
\* exits and restarts owe nothing.
Fairness ==
    /\ \A t \in Threads : WF_vars(StoreStep(t))
    /\ \A t \in Http : WF_vars(HttpStep(t))
    /\ \A w \in Workers : /\ WF_vars(ControlStep(w)) /\ WF_vars(DirectStep(w))
                          /\ WF_vars(PropagationStep(w)) /\ WF_vars(OutputStep(w))

FairSpec == Spec /\ Fairness

-----------------------------------------------------------------------------
(***************************************************************************)
(* Properties.  The first three hold whatever the threads do to the file;  *)
(* the others as long as no two accesses overlapped.                       *)
(***************************************************************************)
\* An error text is shown exactly with the messages marked failed, in the
\* file and in every list a thread is about to write: the HTTP thread's
\* confirmation never wipes the error of a failure that overtook it.
ErrorMatchesState ==
    \A c \in {messages} \cup {out[t] : t \in Threads} : \A m \in MsgIds :
        c[m].state = "failed" <=> c[m].error # ""

\* A message is shown as delivered only if LXMF confirmed its delivery, and
\* as propagated only with nodes that accepted it, also after stale writes,
\* late events and retries.
SuccessWasReported ==
    \A m \in OutIds :
        /\ messages[m].state = "delivered" => m \in delivered
        /\ messages[m].state = "propagated" => messages[m].nodes # {}
        /\ messages[m].nodes \subseteq nodesOf[m]

\* propagation_nodes and propagation_results of a record agree on who
\* accepted: a retry that resets one resets the other.
ResultsMatchNodes ==
    \A m \in MsgIds, n \in Nodes :
        /\ messages[m].results[n] = "accepted" => n \in messages[m].nodes
        /\ n \in messages[m].nodes => messages[m].results[n] \in {"accepted", "failed"}

\* Events that take a message out of "sending".
Settles(e, m) == e.m = m /\ e.kind \in {"delivered", "failed", "propagated"}

\* Somebody is still going to settle message m: the HTTP thread of an
\* attempt, a worker that has it, an event not yet applied, the exit of a
\* worker, or the start of the controller.
Owned(m) ==
    \/ \E t \in Http : op[t].m = m /\ op[t].kind \in {"retry", "add", "sendfailed"}
    \/ \E w \in Workers :
          \/ direct[w][m] > 0
          \/ \E i \in DOMAIN queue[w] : queue[w][i].m = m
          \/ \E i \in DOMAIN pipe[w] : Settles(pipe[w][i], m)
          \/ pc[w] # "idle" /\ Settles(op[w], m)
          \/ status[w] = "exited" /\ pc[w] # "done"
    \/ op[Starter].kind = "restart"

\* A message in state "sending", which cannot be repeated, is never left
\* there with nobody to settle it.
SendingIsOwned ==
    \A m \in OutIds : ~disturbed /\ messages[m].state = "sending" => Owned(m)

\* After its only attempt the number of accepting nodes, taken from the
\* worker's report, is the number of results marked accepted.
CountMatchesResults ==
    \A m \in OutIds : ~disturbed /\ messages[m].attempts = 1
        => messages[m].accepted = AcceptedResults(messages[m].results)

\* A new attempt starts only from a settled message.
RetryOnlySettled ==
    [][\A m \in OutIds :
          ~disturbed' /\ messages'[m].attempts > messages[m].attempts
          => messages[m].state \notin {"sending", "received"}]_vars

\* Undisturbed, every message leaves "sending".
SendingResolves ==
    [](~disturbed) => \A m \in OutIds :
        messages[m].state = "sending" ~> messages[m].state # "sending"

(***************************************************************************)
(* What the program says of itself and does not keep; see the README.      *)
(***************************************************************************)
\* "Message is already sending": somebody is sending it.
SendingAlwaysOwned ==
    \A m \in OutIds : messages[m].state = "sending" => Owned(m)

\* "LXMF worker ended before delivery completed": no running worker has it.
ExitErrorIsTrue ==
    \A m \in OutIds : ~disturbed /\ messages[m].error = "worker_exited"
        => \A w \in Running : /\ direct[w][m] = 0
                               /\ \A i \in DOMAIN queue[w] : queue[w][i].m # m
=============================================================================
