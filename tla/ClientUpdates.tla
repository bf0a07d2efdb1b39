---------------------------- MODULE ClientUpdates ----------------------------
(***************************************************************************)
(* How a change of the conversations reaches the page: threads of the      *)
(* controller write a conversation and then call notify_client_change      *)
(* (state_cache.py); a thread of the HTTP server waits on the condition    *)
(* for /api/clients/stream and sends server-sent events (http_server.py);  *)
(* the page fetches /api/clients at each event, and polls /api/status      *)
(* (web-ui/assets/js/app.js).                                              *)
(*                                                                         *)
(* A conversation is its number of writes so far.  Writes are whole here;  *)
(* overlapping ones are the subject of module OutboundMessages.            *)
(***************************************************************************)
EXTENDS Integers, Sequences, FiniteSets

CONSTANTS Conversations, Writers,
          Fetches,       \* slots for requests the page has under way
          MaxWrites,     \* bound: writes of each conversation
          MaxDrops,      \* bound: lost connections of the event stream
          MaxFailures,   \* bound: refreshes that fail
          MaxPolls       \* bound: fetches of /api/status

ASSUME UpdatesAssumption ==
    /\ MaxWrites \in Nat /\ MaxDrops \in Nat /\ MaxFailures \in Nat /\ MaxPolls \in Nat
    /\ IsFiniteSet(Fetches) /\ Cardinality(Fetches) > MaxPolls

VARIABLES
    version,   \* writes of each conversation so far
    writer,    \* where each writing thread is
    sequence,  \* client_change_sequence
    stream,    \* the thread that serves /api/clients/stream
    channel,   \* events sent and not yet dispatched by the page
    inFlight,  \* clientRefreshInFlight
    fetch,     \* the page's requests: kind, and what was read of each conversation
    shown,     \* what the page shows of each conversation
    spent,     \* how much of each bound was used
    lost       \* history: an event was ignored, a refresh failed, or an older
               \* answer replaced a newer one

vars == <<version, writer, sequence, stream, channel, inFlight, fetch, shown, spent, lost>>

Unread == -1
NoFetch == [kind |-> "none", seen |-> [c \in Conversations |-> Unread]]
Refresh == [NoFetch EXCEPT !.kind = "refresh"]
Poll == [NoFetch EXCEPT !.kind = "poll"]
Closed == [at |-> "closed", last |-> 0, got |-> 0]

TypeOK ==
    /\ version \in [Conversations -> 0 .. MaxWrites]
    /\ writer \in [Writers -> {"idle", "written"}]
    /\ sequence \in Nat
    /\ stream \in [at : {"closed", "check", "waiting", "send"}, last : Nat, got : Nat]
    /\ channel \in Seq({"ready", "change"})
    /\ inFlight \in BOOLEAN
    /\ fetch \in [Fetches -> [kind : {"none", "refresh", "poll"},
                              seen : [Conversations -> {Unread} \cup 0 .. MaxWrites]]]
    /\ shown \in [Conversations -> 0 .. MaxWrites]
    /\ spent \in [drops : 0 .. MaxDrops, failures : 0 .. MaxFailures, polls : 0 .. MaxPolls]
    /\ lost \in BOOLEAN

\* The page has loaded its first /api/status and opens the stream.
Init ==
    /\ version = [c \in Conversations |-> 0]
    /\ writer = [w \in Writers |-> "idle"]
    /\ sequence = 0
    /\ stream = Closed /\ channel = <<>>
    /\ inFlight = FALSE
    /\ fetch = [f \in Fetches |-> NoFetch]
    /\ shown = [c \in Conversations |-> 0]
    /\ spent = [drops |-> 0, failures |-> 0, polls |-> 0]
    /\ lost = FALSE
-----------------------------------------------------------------------------
(***************************************************************************)
(* The controller.  The condition's lock makes each of these steps one.    *)
(***************************************************************************)
Write(w, c) ==
    /\ writer[w] = "idle" /\ version[c] < MaxWrites
    /\ version' = [version EXCEPT ![c] = @ + 1]
    /\ writer' = [writer EXCEPT ![w] = "written"]
    /\ UNCHANGED <<sequence, stream, channel, inFlight, fetch, shown, spent, lost>>

\* notify_client_change: notify_all lets a waiting stream look again.
Notify(w) ==
    /\ writer[w] = "written"
    /\ writer' = [writer EXCEPT ![w] = "idle"]
    /\ sequence' = sequence + 1
    /\ stream' = IF stream.at = "waiting" THEN [stream EXCEPT !.at = "check"] ELSE stream
    /\ UNCHANGED <<version, channel, inFlight, fetch, shown, spent, lost>>

\* Variant: no event greets a new connection.
NoGreeting == <<>>

\* _serve_client_stream sends "ready" after it has read the change id.
Greeting == <<"ready">>

\* The EventSource connects, again and again.
Connect ==
    /\ stream.at = "closed"
    /\ stream' = [at |-> "check", last |-> sequence, got |-> sequence]
    /\ channel' = Greeting
    /\ UNCHANGED <<version, writer, sequence, inFlight, fetch, shown, spent, lost>>

Disconnect ==
    /\ stream.at # "closed" /\ spent.drops < MaxDrops
    /\ stream' = Closed /\ channel' = <<>>
    /\ spent' = [spent EXCEPT !.drops = @ + 1]
    /\ UNCHANGED <<version, writer, sequence, inFlight, fetch, shown, lost>>

\* Variant: the comparison with after_id is off by one.
MuchNewer(id, after) == id > after + 1
Newer(id, after) == id > after

\* wait_for_client_change: the predicate, and the wait or the return.
StreamCheck ==
    /\ stream.at = "check"
    /\ stream' = IF Newer(sequence, stream.last)
                 THEN [stream EXCEPT !.at = "send", !.got = sequence]
                 ELSE [stream EXCEPT !.at = "waiting"]
    /\ UNCHANGED <<version, writer, sequence, channel, inFlight, fetch, shown, spent, lost>>

\* 15 s: wait_for gives up and the id is returned all the same.
StreamTimeout ==
    /\ stream.at = "waiting"
    /\ stream' = [stream EXCEPT !.at = "send", !.got = sequence]
    /\ UNCHANGED <<version, writer, sequence, channel, inFlight, fetch, shown, spent, lost>>

\* The event, or a keepalive that no handler sees.
StreamSend ==
    /\ stream.at = "send"
    /\ IF Newer(stream.got, stream.last)
       THEN /\ channel' = Append(channel, "change")
            /\ stream' = [stream EXCEPT !.at = "check", !.last = stream.got]
       ELSE /\ stream' = [stream EXCEPT !.at = "check"]
            /\ UNCHANGED channel
    /\ UNCHANGED <<version, writer, sequence, inFlight, fetch, shown, spent, lost>>

\* A request reads one conversation after the other.
ReadConversation(f, c) ==
    /\ fetch[f].kind # "none" /\ fetch[f].seen[c] = Unread
    /\ fetch' = [fetch EXCEPT ![f].seen[c] = version[c]]
    /\ UNCHANGED <<version, writer, sequence, stream, channel, inFlight, shown, spent, lost>>

(***************************************************************************)
(* The page.  Its handlers run one at a time.                              *)
(***************************************************************************)
\* Variant: a refresh starts whether or not another one is under way.
MayAlwaysRefresh(busy) == TRUE
MayRefresh(busy) == ~busy

\* refreshClientDataFromStream, for "ready" and "client-change" alike.
Dispatch ==
    /\ channel # <<>>
    /\ channel' = Tail(channel)
    /\ IF MayRefresh(inFlight)
       THEN /\ inFlight' = TRUE
            /\ \E f \in Fetches : /\ fetch[f].kind = "none"
                                  /\ fetch' = [fetch EXCEPT ![f] = Refresh]
            /\ UNCHANGED lost
       ELSE /\ lost' = TRUE
            /\ UNCHANGED <<inFlight, fetch>>
    /\ UNCHANGED <<version, writer, sequence, stream, shown, spent>>

\* fetchStatus: the five-second timer of one tab, and many buttons.
StartPoll(f) ==
    /\ fetch[f].kind = "none" /\ spent.polls < MaxPolls
    /\ fetch' = [fetch EXCEPT ![f] = Poll]
    /\ spent' = [spent EXCEPT !.polls = @ + 1]
    /\ UNCHANGED <<version, writer, sequence, stream, channel, inFlight, shown, lost>>

\* Variant: the answer is used before it is complete.
AnyAnswer(seen) == TRUE
Complete(seen) == \A c \in Conversations : seen[c] # Unread

\* The answer replaces what is shown, whatever its age.
Arrive(f) ==
    /\ fetch[f].kind # "none" /\ Complete(fetch[f].seen)
    /\ shown' = fetch[f].seen
    /\ fetch' = [fetch EXCEPT ![f] = NoFetch]
    /\ inFlight' = (inFlight /\ fetch[f].kind # "refresh")
    /\ lost' = (lost \/ \E c \in Conversations : fetch[f].seen[c] < shown[c])
    /\ UNCHANGED <<version, writer, sequence, stream, channel, spent>>

\* No answer, or not an OK one: logged, and not tried again.
RefreshFails(f) ==
    /\ fetch[f].kind = "refresh" /\ spent.failures < MaxFailures
    /\ spent' = [spent EXCEPT !.failures = @ + 1]
    /\ fetch' = [fetch EXCEPT ![f] = NoFetch]
    /\ inFlight' = FALSE
    /\ lost' = TRUE
    /\ UNCHANGED <<version, writer, sequence, stream, channel, shown>>
-----------------------------------------------------------------------------
StreamStep == StreamCheck \/ StreamTimeout \/ StreamSend
FetchStep(f) == Arrive(f) \/ \E c \in Conversations : ReadConversation(f, c)

Next ==
    \/ \E w \in Writers : Notify(w) \/ \E c \in Conversations : Write(w, c)
    \/ Connect \/ Disconnect \/ StreamStep
    \/ Dispatch
    \/ \E f \in Fetches : StartPoll(f) \/ FetchStep(f) \/ RefreshFails(f)

Spec == Init /\ [][Next]_vars

\* Threads are scheduled, the EventSource reconnects, the page's event loop
\* runs and its requests are answered.  Writes, polls and failures owe nothing.
Fairness ==
    /\ \A w \in Writers : WF_vars(Notify(w))
    /\ WF_vars(Connect) /\ WF_vars(StreamStep) /\ WF_vars(Dispatch)
    /\ \A f \in Fetches : WF_vars(FetchStep(f))

FairSpec == Spec /\ Fairness
-----------------------------------------------------------------------------
\* Something that will still bring the latest of conversation c to the page.
Coming(c) ==
    \/ \E w \in Writers : writer[w] = "written"
    \/ stream.at = "closed" \/ sequence > stream.last
    \/ channel # <<>>
    \/ \E f \in Fetches : /\ fetch[f].kind # "none"
                          /\ fetch[f].seen[c] \in {Unread, version[c]}

\* Unless an event was ignored, a refresh failed or an older answer replaced
\* a newer one, a page that is behind has the update coming: the change id
\* read before "ready", the wait and the refreshes leave no gap.
UpdateComing ==
    \A c \in Conversations : ~lost /\ shown[c] # version[c] => Coming(c)

\* While nothing polls, clientRefreshInFlight alone keeps the answers in
\* order: no conversation the page shows ever goes back.
ShownNeverBack ==
    [][\A c \in Conversations : spent.polls = 0 => shown'[c] >= shown[c]]_vars

\* With nothing lost, every write is shown in the end, across disconnections.
UpdatesShown ==
    [](~lost) => \A c \in Conversations : \A n \in 1 .. MaxWrites :
        version[c] = n ~> shown[c] >= n

\* "The next "ready" event refreshes the complete client snapshot, so no
\* message can be missed" (app.js): a page that is behind has it coming.
NoMessageMissed ==
    \A c \in Conversations : shown[c] # version[c] => Coming(c)
=============================================================================
