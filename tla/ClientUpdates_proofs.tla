------------------------ MODULE ClientUpdates_proofs -------------------------
(***************************************************************************)
(* Change notification, for any number of writers, conversations, requests *)
(* and losses.                                                             *)
(***************************************************************************)
EXTENDS ClientUpdates, SequenceTheorems, TLAPS

Slot == [kind : {"none", "refresh", "poll"}, seen : [Conversations -> {Unread} \cup 0 .. MaxWrites]]
StreamState == [at : {"closed", "check", "waiting", "send"}, last : Nat, got : Nat]
Spent == [drops : 0 .. MaxDrops, failures : 0 .. MaxFailures, polls : 0 .. MaxPolls]

LEMMA SlotFacts ==
    /\ NoFetch \in Slot /\ NoFetch.kind = "none"
    /\ Refresh \in Slot /\ Refresh.kind = "refresh" /\ Poll \in Slot /\ Poll.kind = "poll"
    /\ \A c \in Conversations : Refresh.seen[c] = Unread /\ Poll.seen[c] = Unread /\ NoFetch.seen[c] = Unread
BY DEF NoFetch, Refresh, Poll, Slot

\* A request with one more conversation read.
LEMMA SlotRead ==
    ASSUME NEW s \in Slot, NEW c \in Conversations, NEW n \in 0 .. MaxWrites
    PROVE  /\ [s EXCEPT !.seen[c] = n] \in Slot
           /\ [s EXCEPT !.seen[c] = n].kind = s.kind
           /\ \A e \in Conversations : [s EXCEPT !.seen[c] = n].seen[e] = IF e = c THEN n ELSE s.seen[e]
BY DEF Slot

LEMMA TypeInit == Init => TypeOK
<1> SUFFICES ASSUME Init PROVE TypeOK
    OBVIOUS
<1>1. fetch \in [Fetches -> Slot]
    BY SlotFacts DEF Init
<1>2. spent \in Spent
    BY UpdatesAssumption DEF Init, Spent
<1>3. version \in [Conversations -> 0 .. MaxWrites] /\ shown \in [Conversations -> 0 .. MaxWrites]
    BY UpdatesAssumption DEF Init
<1>4. stream \in StreamState /\ channel \in Seq({"ready", "change"})
    BY DEF Init, Closed, StreamState
<1>5. writer \in [Writers -> {"idle", "written"}] /\ sequence \in Nat /\ inFlight \in BOOLEAN /\ lost \in BOOLEAN
    BY DEF Init
<1> QED
    BY <1>1, <1>2, <1>3, <1>4, <1>5 DEF TypeOK, Slot, Spent, StreamState

LEMMA TypeStep == TypeOK /\ [Next]_vars => TypeOK'
<1> SUFFICES ASSUME TypeOK, [Next]_vars PROVE TypeOK'
    OBVIOUS
<1>0. /\ fetch \in [Fetches -> Slot] /\ stream \in StreamState /\ spent \in Spent
      /\ MaxDrops \in Nat /\ MaxFailures \in Nat /\ MaxPolls \in Nat /\ MaxWrites \in Nat
    BY UpdatesAssumption DEF TypeOK, Slot, StreamState, Spent
<1>1. ASSUME NEW w \in Writers, NEW c \in Conversations, Write(w, c) PROVE TypeOK'
    BY <1>0, <1>1 DEF Write, TypeOK
<1>2. ASSUME NEW w \in Writers, Notify(w) PROVE TypeOK'
    <2>1. stream' \in StreamState
        BY <1>0, <1>2 DEF Notify, StreamState
    <2> QED
        BY <1>2, <2>1 DEF Notify, TypeOK, StreamState
<1>3. CASE Connect
    <2>1. stream' \in StreamState /\ channel' \in Seq({"ready", "change"})
        BY <1>3 DEF Connect, Greeting, StreamState, TypeOK
    <2> QED
        BY <1>3, <2>1 DEF Connect, TypeOK, StreamState
<1>4. CASE Disconnect
    <2>1. spent' \in Spent
        BY <1>0, <1>4 DEF Disconnect, Spent
    <2> QED
        BY <1>4, <2>1 DEF Disconnect, TypeOK, Spent, Closed
<1>5. CASE StreamStep
    <2>1. stream' \in StreamState
        BY <1>0, <1>5 DEF StreamStep, StreamCheck, StreamTimeout, StreamSend, StreamState, TypeOK
    <2>2. channel' \in Seq({"ready", "change"})
        <3>1. CASE StreamSend
            <4>1. channel' = Append(channel, "change") \/ channel' = channel
                BY <3>1 DEF StreamSend
            <4>2. channel \in Seq({"ready", "change"}) /\ "change" \in {"ready", "change"}
                BY DEF TypeOK
            <4>3. Append(channel, "change") \in Seq({"ready", "change"})
                BY <4>2, AppendProperties
            <4> QED
                BY <4>1, <4>2, <4>3
        <3>2. CASE StreamCheck \/ StreamTimeout
            BY <3>2 DEF StreamCheck, StreamTimeout, TypeOK
        <3> QED
            BY <1>5, <3>1, <3>2 DEF StreamStep
    <2>3. UNCHANGED <<version, writer, sequence, inFlight, fetch, shown, spent, lost>>
        BY <1>5 DEF StreamStep, StreamCheck, StreamTimeout, StreamSend
    <2> QED
        BY <2>1, <2>2, <2>3 DEF TypeOK, StreamState
<1>6. CASE Dispatch
    <2>1. channel' \in Seq({"ready", "change"})
        BY <1>6 DEF Dispatch, TypeOK
    <2>2. fetch' \in [Fetches -> Slot] /\ inFlight' \in BOOLEAN /\ lost' \in BOOLEAN
        BY <1>0, <1>6, SlotFacts DEF Dispatch, TypeOK
    <2> QED
        BY <1>6, <2>1, <2>2 DEF Dispatch, TypeOK, Slot
<1>7. ASSUME NEW f \in Fetches, StartPoll(f) PROVE TypeOK'
    <2>1. fetch' \in [Fetches -> Slot] /\ spent' \in Spent
        BY <1>0, <1>7, SlotFacts DEF StartPoll, Spent
    <2> QED
        BY <1>7, <2>1 DEF StartPoll, TypeOK, Slot, Spent
<1>8. ASSUME NEW f \in Fetches, NEW c \in Conversations, ReadConversation(f, c) PROVE TypeOK'
    <2>1. fetch' = [fetch EXCEPT ![f] = [fetch[f] EXCEPT !.seen[c] = version[c]]]
        BY <1>8 DEF ReadConversation
    <2>2. fetch' \in [Fetches -> Slot]
        BY <1>0, <2>1, SlotRead DEF TypeOK
    <2> QED
        BY <1>8, <2>2 DEF ReadConversation, TypeOK, Slot
<1>9. ASSUME NEW f \in Fetches, Arrive(f) PROVE TypeOK'
    <2>1. fetch[f].seen \in [Conversations -> 0 .. MaxWrites]
        BY <1>0, <1>9 DEF Arrive, Complete, Slot, Unread
    <2>2. fetch' \in [Fetches -> Slot]
        BY <1>0, <1>9, SlotFacts DEF Arrive
    <2>3. inFlight' \in BOOLEAN /\ lost' \in BOOLEAN
        BY <1>9 DEF Arrive, TypeOK
    <2> QED
        BY <1>9, <2>1, <2>2, <2>3 DEF Arrive, TypeOK, Slot
<1>10. ASSUME NEW f \in Fetches, RefreshFails(f) PROVE TypeOK'
    <2>1. fetch' \in [Fetches -> Slot] /\ spent' \in Spent
        BY <1>0, <1>10, SlotFacts DEF RefreshFails, Spent
    <2> QED
        BY <1>10, <2>1 DEF RefreshFails, TypeOK, Slot, Spent
<1>11. CASE UNCHANGED vars
    BY <1>11 DEF vars, TypeOK
<1> QED
    BY <1>1, <1>2, <1>3, <1>4, <1>5, <1>6, <1>7, <1>8, <1>9, <1>10, <1>11 DEF Next, FetchStep

\* The notification, the stream and the page's requests stay well formed.
THEOREM TypeCorrect == Spec => []TypeOK
BY TypeInit, TypeStep, PTL DEF Spec
-----------------------------------------------------------------------------
(***************************************************************************)
(* UpdateComing.                                                           *)
(***************************************************************************)
\* Nobody is ahead: the stream knows no change id that was not given, and a
\* request or the page no write that was not made.
NotAhead ==
    /\ stream.last <= sequence /\ stream.got <= sequence
    /\ \A c \in Conversations : shown[c] <= version[c]
    /\ \A f \in Fetches, c \in Conversations : fetch[f].seen[c] <= version[c]

LEMMA NotAheadStep == TypeOK /\ NotAhead /\ [Next]_vars => NotAhead'
<1> SUFFICES ASSUME TypeOK, NotAhead, [Next]_vars PROVE NotAhead'
    OBVIOUS
<1>0. fetch \in [Fetches -> Slot] /\ stream \in StreamState /\ sequence \in Nat
    BY DEF TypeOK, Slot, StreamState
<1>1. ASSUME NEW w \in Writers, NEW e \in Conversations, Write(w, e) PROVE NotAhead'
    <2>1. \A c \in Conversations : version[c] \in Nat /\ version[c] <= version'[c] /\ version'[c] \in Nat
        BY <1>1, UpdatesAssumption DEF Write, TypeOK
    <2>2. \A f \in Fetches, c \in Conversations : fetch[f].seen[c] \in Int
        BY <1>0, UpdatesAssumption DEF Slot, Unread
    <2>3. \A c \in Conversations : shown[c] \in Nat
        BY UpdatesAssumption DEF TypeOK
    <2> QED
        BY <1>1, <2>1, <2>2, <2>3 DEF Write, NotAhead
<1>2. ASSUME NEW w \in Writers, Notify(w) PROVE NotAhead'
    BY <1>0, <1>2 DEF Notify, NotAhead, StreamState
<1>3. CASE Connect
    BY <1>0, <1>3 DEF Connect, NotAhead
<1>4. CASE Disconnect
    BY <1>0, <1>4 DEF Disconnect, Closed, NotAhead
<1>5. CASE StreamStep
    <2>1. UNCHANGED <<version, sequence, fetch, shown>>
        BY <1>5 DEF StreamStep, StreamCheck, StreamTimeout, StreamSend
    <2>2. stream'.last \in {stream.last, stream.got} /\ stream'.got \in {stream.got, sequence}
        BY <1>0, <1>5 DEF StreamStep, StreamCheck, StreamTimeout, StreamSend, StreamState
    <2> QED
        BY <1>0, <2>1, <2>2 DEF NotAhead
<1>6. ASSUME NEW f \in Fetches, NEW s \in {NoFetch, Refresh, Poll}, fetch' = [fetch EXCEPT ![f] = s],
             UNCHANGED <<version, sequence, stream>>,
             \A c \in Conversations : shown'[c] <= version[c]
      PROVE  NotAhead'
    <2>1. \A c \in Conversations : s.seen[c] <= version[c]
        BY SlotFacts, UpdatesAssumption DEF TypeOK, Unread
    <2>2. ASSUME NEW g \in Fetches PROVE fetch'[g] = IF g = f THEN s ELSE fetch[g]
        BY <1>0, <1>6
    <2> QED
        BY <1>6, <2>1, <2>2 DEF NotAhead
<1>7. CASE Dispatch
    <2>1. CASE UNCHANGED fetch
        BY <1>7, <2>1 DEF Dispatch, NotAhead
    <2>2. ASSUME NEW f \in Fetches, fetch' = [fetch EXCEPT ![f] = Refresh] PROVE NotAhead'
        BY <1>6, <1>7, <2>2 DEF Dispatch, NotAhead
    <2> QED
        BY <1>7, <2>1, <2>2 DEF Dispatch
<1>8. ASSUME NEW f \in Fetches, StartPoll(f) \/ RefreshFails(f) PROVE NotAhead'
    BY <1>6, <1>8 DEF StartPoll, RefreshFails, NotAhead
<1>9. ASSUME NEW f \in Fetches, NEW e \in Conversations, ReadConversation(f, e) PROVE NotAhead'
    <2>1. fetch' = [fetch EXCEPT ![f] = [fetch[f] EXCEPT !.seen[e] = version[e]]]
        BY <1>9 DEF ReadConversation
    <2>2. ASSUME NEW g \in Fetches, NEW c \in Conversations
          PROVE  fetch'[g].seen[c] = IF g = f /\ c = e THEN version[c] ELSE fetch[g].seen[c]
        BY <1>0, <2>1, SlotRead DEF TypeOK
    <2>3. \A c \in Conversations : version[c] \in Nat
        BY UpdatesAssumption DEF TypeOK
    <2> QED
        BY <1>9, <2>2, <2>3 DEF ReadConversation, NotAhead
<1>10. ASSUME NEW f \in Fetches, Arrive(f) PROVE NotAhead'
    BY <1>6, <1>10 DEF Arrive, NotAhead
<1>11. CASE UNCHANGED vars
    BY <1>11 DEF vars, NotAhead
<1> QED
    BY <1>1, <1>2, <1>3, <1>4, <1>5, <1>7, <1>8, <1>9, <1>10, <1>11 DEF Next, FetchStep

\* Under what a step changes, an update that is coming keeps coming.
LEMMA ComingStep ==
    ASSUME TypeOK, NotAhead, [Next]_vars, NEW c \in Conversations,
           ~lost => shown[c] = version[c] \/ Coming(c)
    PROVE  ~lost' => shown'[c] = version'[c] \/ Coming(c)'
<1> SUFFICES ASSUME ~lost' PROVE shown'[c] = version'[c] \/ Coming(c)'
    OBVIOUS
<1>0. /\ fetch \in [Fetches -> Slot] /\ stream \in StreamState /\ sequence \in Nat
      /\ channel \in Seq({"ready", "change"})
    BY DEF TypeOK, Slot, StreamState
<1>1. ASSUME NEW w \in Writers, NEW e \in Conversations, Write(w, e) PROVE Coming(c)'
    <2>1. writer'[w] = "written"
        BY <1>1 DEF Write, TypeOK
    <2> QED
        BY <2>1 DEF Coming
<1>2. ASSUME NEW w \in Writers, Notify(w) PROVE Coming(c)'
    <2>1. stream'.last = stream.last /\ sequence' > stream.last
        BY <1>0, <1>2 DEF Notify, NotAhead, StreamState
    <2> QED
        BY <2>1 DEF Coming
<1>3. CASE Connect
    <2>1. channel' # <<>>
        BY <1>3 DEF Connect, Greeting
    <2> QED
        BY <2>1 DEF Coming
<1>4. CASE Disconnect
    BY <1>4 DEF Disconnect, Closed, Coming
<1>5. CASE StreamStep
    <2>1. UNCHANGED <<version, writer, sequence, fetch, shown, lost>>
        BY <1>5 DEF StreamStep, StreamCheck, StreamTimeout, StreamSend
    <2>2. CASE stream'.last = stream.last
        <3>1. channel # <<>> => channel' # <<>>
            BY <1>0, <1>5 DEF StreamStep, StreamCheck, StreamTimeout, StreamSend
        <3>2. stream.at # "closed"
            BY <1>5 DEF StreamStep, StreamCheck, StreamTimeout, StreamSend
        <3> QED
            BY <2>1, <2>2, <3>1, <3>2 DEF Coming
    <2>3. CASE stream'.last # stream.last
        <3>1. channel' = Append(channel, "change")
            BY <1>0, <1>5, <2>3 DEF StreamStep, StreamCheck, StreamTimeout, StreamSend, StreamState
        <3>2. channel' # <<>>
            BY <1>0, <3>1
        <3> QED
            BY <3>2 DEF Coming
    <2> QED
        BY <2>2, <2>3
<1>6. ASSUME NEW f \in Fetches, NEW s \in {Refresh, Poll}, fetch' = [fetch EXCEPT ![f] = s]
      PROVE  Coming(c)'
    <2>1. fetch'[f] = s /\ s.kind # "none" /\ s.seen[c] = Unread
        BY <1>0, <1>6, SlotFacts
    <2> QED
        BY <2>1 DEF Coming
<1>7. CASE Dispatch
    BY <1>6, <1>7 DEF Dispatch
<1>8. ASSUME NEW f \in Fetches, StartPoll(f) \/ RefreshFails(f) PROVE Coming(c)'
    BY <1>6, <1>8 DEF StartPoll, RefreshFails
<1>9. ASSUME NEW f \in Fetches, NEW e \in Conversations, ReadConversation(f, e)
      PROVE  shown'[c] = version'[c] \/ Coming(c)'
    <2>1. fetch' = [fetch EXCEPT ![f] = [fetch[f] EXCEPT !.seen[e] = version[e]]]
        BY <1>9 DEF ReadConversation
    <2>2. ASSUME NEW g \in Fetches
          PROVE  /\ fetch'[g].kind = fetch[g].kind
                 /\ fetch'[g].seen[c] = IF g = f /\ c = e THEN version[c] ELSE fetch[g].seen[c]
        BY <1>0, <2>1, SlotRead DEF TypeOK
    <2>3. UNCHANGED <<version, writer, sequence, stream, channel, shown, lost>>
        BY <1>9 DEF ReadConversation
    <2> QED
        BY <2>2, <2>3 DEF Coming
<1>10. ASSUME NEW f \in Fetches, Arrive(f) PROVE shown'[c] = version'[c] \/ Coming(c)'
    <2>1. /\ shown' = fetch[f].seen /\ fetch[f].seen[c] # Unread
          /\ ~lost /\ ~(fetch[f].seen[c] < shown[c])
          /\ UNCHANGED <<version, writer, sequence, stream, channel>>
        BY <1>10 DEF Arrive, Complete
    <2>2. CASE shown'[c] = version[c]
        BY <2>1, <2>2
    <2>3. CASE shown'[c] # version[c]
        <3>1. shown[c] # version[c]
            BY <1>0, <2>1, <2>3, UpdatesAssumption DEF NotAhead, TypeOK, Slot
        <3>2. Coming(c)
            BY <2>1, <3>1
        <3>3. ASSUME NEW g \in Fetches, fetch[g].kind # "none", fetch[g].seen[c] \in {Unread, version[c]}
              PROVE  fetch'[g] = fetch[g]
            BY <1>10, <2>1, <2>3, <3>3 DEF Arrive
        <3> QED
            BY <2>1, <3>2, <3>3 DEF Coming
    <2> QED
        BY <2>2, <2>3
<1>11. CASE UNCHANGED vars
    BY <1>11 DEF vars, Coming
<1> QED
    BY <1>1, <1>2, <1>3, <1>4, <1>5, <1>7, <1>8, <1>9, <1>10, <1>11 DEF Next, FetchStep

LEMMA NotAheadInit == Init => NotAhead
BY SlotFacts DEF Init, Closed, NotAhead, Unread

\* Unless an event was ignored, a refresh failed or an older answer replaced
\* a newer one, a page that is behind has the update coming: the change id
\* read before "ready" (_serve_client_stream), the wait and the refreshes
\* leave no gap.
THEOREM UpdateIsComing == Spec => []UpdateComing
<1>1. Init => UpdateComing
    BY DEF Init, UpdateComing
<1>2. TypeOK /\ NotAhead /\ UpdateComing /\ [Next]_vars => UpdateComing'
    BY ComingStep DEF UpdateComing
<1> QED
    BY <1>1, <1>2, TypeInit, TypeStep, NotAheadInit, NotAheadStep, PTL DEF Spec
-----------------------------------------------------------------------------
(***************************************************************************)
(* ShownNeverBack.                                                         *)
(***************************************************************************)
\* Without polls clientRefreshInFlight says whether a request is under way,
\* and there is never a second one; what it has read is not older than what
\* is shown.
OneRefresh ==
    spent.polls = 0 =>
        \A f \in Fetches : fetch[f].kind # "none" =>
            /\ fetch[f].kind = "refresh" /\ inFlight
            /\ \A g \in Fetches : fetch[g].kind # "none" => g = f
            /\ \A c \in Conversations : fetch[f].seen[c] = Unread \/ fetch[f].seen[c] >= shown[c]

LEMMA OneRefreshStep == TypeOK /\ NotAhead /\ OneRefresh /\ [Next]_vars => OneRefresh'
<1> SUFFICES ASSUME TypeOK, NotAhead, OneRefresh, [Next]_vars, spent'.polls = 0 PROVE OneRefresh'
    BY DEF OneRefresh
<1>0. fetch \in [Fetches -> Slot] /\ spent \in Spent /\ MaxPolls \in Nat
    BY UpdatesAssumption DEF TypeOK, Slot, Spent
<1>1. ASSUME spent.polls = spent'.polls, UNCHANGED <<fetch, inFlight, shown>> PROVE OneRefresh'
    BY <1>1 DEF OneRefresh
<1>2. ASSUME NEW w \in Writers, Notify(w) \/ \E c \in Conversations : Write(w, c) PROVE OneRefresh'
    BY <1>1, <1>2 DEF Notify, Write
<1>3. CASE Connect \/ Disconnect \/ StreamStep
    BY <1>0, <1>1, <1>3 DEF Connect, Disconnect, StreamStep, StreamCheck, StreamTimeout, StreamSend, Spent
<1>4. CASE Dispatch
    <2>1. CASE inFlight
        BY <1>1, <1>4, <2>1 DEF Dispatch, MayRefresh
    <2>2. CASE ~inFlight
        <3>1. spent.polls = 0 /\ inFlight' /\ shown' = shown
            BY <1>4, <2>2 DEF Dispatch, MayRefresh
        <3>2. \A g \in Fetches : fetch[g].kind = "none"
            BY <2>2, <3>1 DEF OneRefresh
        <3>3. PICK f \in Fetches : fetch' = [fetch EXCEPT ![f] = Refresh]
            BY <1>4, <2>2 DEF Dispatch, MayRefresh
        <3>4. fetch'[f] = Refresh /\ \A g \in Fetches : g # f => fetch'[g] = fetch[g]
            BY <1>0, <3>3
        <3> QED
            BY <3>1, <3>2, <3>4, SlotFacts DEF OneRefresh
    <2> QED
        BY <2>1, <2>2
<1>5. ASSUME NEW f \in Fetches, StartPoll(f) PROVE FALSE
    BY <1>0, <1>5 DEF StartPoll, Spent
<1>6. ASSUME NEW f \in Fetches, NEW e \in Conversations, ReadConversation(f, e) PROVE OneRefresh'
    <2>1. fetch' = [fetch EXCEPT ![f] = [fetch[f] EXCEPT !.seen[e] = version[e]]]
        BY <1>6 DEF ReadConversation
    <2>2. ASSUME NEW g \in Fetches, NEW c \in Conversations
          PROVE  fetch'[g].seen[c] = IF g = f /\ c = e THEN version[c] ELSE fetch[g].seen[c]
        BY <1>0, <2>1, SlotRead DEF TypeOK
    <2>3. \A g \in Fetches : fetch'[g].kind = fetch[g].kind
        BY <1>0, <2>1
    <2>4. UNCHANGED <<spent, inFlight, shown>>
        BY <1>6 DEF ReadConversation
    <2> QED
        BY <2>2, <2>3, <2>4 DEF OneRefresh, NotAhead
<1>7. ASSUME NEW f \in Fetches, Arrive(f) \/ RefreshFails(f) PROVE OneRefresh'
    <2>1. spent.polls = 0 /\ fetch[f].kind # "none" /\ fetch' = [fetch EXCEPT ![f] = NoFetch]
        BY <1>0, <1>7 DEF Arrive, RefreshFails, Spent
    <2>2. \A g \in Fetches : fetch'[g].kind = "none"
        BY <1>0, <2>1, SlotFacts DEF OneRefresh
    <2> QED
        BY <2>2 DEF OneRefresh
<1>8. CASE UNCHANGED vars
    BY <1>1, <1>8 DEF vars
<1> QED
    BY <1>2, <1>3, <1>4, <1>5, <1>6, <1>7, <1>8 DEF Next, FetchStep

\* While nothing polls, clientRefreshInFlight alone keeps the answers in
\* order: no conversation the page shows ever goes back.
THEOREM NeverBack == Spec => ShownNeverBack
<1>1. Init => OneRefresh
    BY SlotFacts DEF Init, OneRefresh
<1>2. TypeOK /\ OneRefresh /\ [Next]_vars =>
          [\A c \in Conversations : spent.polls = 0 => shown'[c] >= shown[c]]_vars
    <2> SUFFICES ASSUME TypeOK, OneRefresh, Next, NEW c \in Conversations, spent.polls = 0
                 PROVE  shown'[c] >= shown[c]
        OBVIOUS
    <2>1. shown[c] \in Nat
        BY UpdatesAssumption DEF TypeOK
    <2>2. CASE UNCHANGED shown
        BY <2>1, <2>2
    <2>3. ASSUME NEW f \in Fetches, Arrive(f) PROVE shown'[c] >= shown[c]
        <3>1. shown' = fetch[f].seen /\ fetch[f].kind # "none" /\ fetch[f].seen[c] # Unread
            BY <2>3 DEF Arrive, Complete
        <3> QED
            BY <3>1 DEF OneRefresh
    <2>4. (\E f \in Fetches : Arrive(f)) \/ UNCHANGED shown
        BY DEF Next, Write, Notify, Connect, Disconnect, StreamStep, StreamCheck, StreamTimeout, StreamSend,
               Dispatch, StartPoll, FetchStep, ReadConversation, RefreshFails
    <2> QED
        BY <2>2, <2>3, <2>4
<1> QED
    BY <1>1, <1>2, TypeInit, TypeStep, NotAheadInit, NotAheadStep, OneRefreshStep, PTL DEF Spec, ShownNeverBack
=============================================================================
