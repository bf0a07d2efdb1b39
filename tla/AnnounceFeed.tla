---------------------------- MODULE AnnounceFeed ----------------------------
(***************************************************************************)
(* How announces reach the page: the handlers registered with Reticulum    *)
(* report each packet (announce_handlers.py), the state cache merges the   *)
(* reports of one packet and keeps the newest records (state_cache.py), a  *)
(* thread of the HTTP server sends them to an EventSource                  *)
(* (http_server.py), and the page puts the stream and the snapshots it     *)
(* fetches together into one list (web-ui/assets/js/app.js).               *)
(*                                                                         *)
(* A record is the packet it reports and its hop count, the one field that *)
(* a later report fills in and a filter reads.  Rows, batches and the ring *)
(* hold ids: a dict is shared, so a merge shows in all of them.            *)
(***************************************************************************)
EXTENDS Integers, Sequences, FiniteSets

CONSTANTS Packets,
          Unhashed,      \* packets reported without a hash
          Filters,       \* hop limits the user may ask for; 0 is no filter
          KnownHops,     \* hop counts Reticulum's path table may hold
          RingSize,      \* MAX_ANNOUNCE_RECORDS
          Limit,         \* 500: rows of a snapshot, of a batch and of the page
          MaxRecords,    \* bound: records appended
          MaxTurns       \* bound: uses of the filter form, lost connections,
                         \* fetches of /api/status and failed ones, together

ASSUME FeedAssumption ==
    /\ Unhashed \subseteq Packets /\ IsFiniteSet(Packets)
    /\ 0 \in Filters /\ Filters \subseteq Nat /\ KnownHops \subseteq Nat \ {0}
    /\ Limit \in Nat \ {0} /\ RingSize \in Nat /\ Limit <= RingSize
    /\ MaxRecords \in Nat /\ MaxTurns \in Nat

VARIABLES
    records,   \* the records by id; announce_sequence is their number
    ring,      \* announces: ids, oldest first
    stream,    \* the thread serving the page's connection
    channel,   \* ids sent to the page and not dispatched yet
    url,       \* filter and after_id the EventSource was opened with
    request,   \* what the page has asked for, by route
    wanted,    \* the filter of announceQueryKey
    list,      \* currentStatus.announces: ids
    turns,     \* how much of MaxTurns was used
    sent,      \* history: ids sent on this connection
    gap        \* history: snapshot and stream do not fit together; which of
               \* the steps below do that, and why, stands at each of them

pageVars == <<channel, url, request, wanted, list, turns, gap>>
vars == <<records, ring, stream, sent, pageVars>>

Unknown == 0
HopCounts == {Unknown} \cup KnownHops
Ids(s) == {s[i] : i \in DOMAIN s}
Closed == [at |-> "closed", last |-> 0, batch |-> <<>>]
NoRequest == [at |-> "none", filter |-> 0, rows |-> <<>>]
Routes == {"announces", "status"}

TypeOK ==
    /\ records \in Seq([packet : Packets, hops : HopCounts, born : HopCounts])
    /\ stream.at \in {"closed", "waiting", "sending"} /\ stream.last \in 0 .. Len(records)
    /\ url \in [filter : Filters, after : 0 .. Len(records)]
    /\ request \in [Routes -> [at : {"none", "asked", "served"}, filter : Filters,
                               rows : Seq(DOMAIN records)]]
    /\ wanted \in Filters /\ gap \in BOOLEAN
    /\ \A s \in {ring, stream.batch, channel, list} : s \in Seq(DOMAIN records)
    /\ Len(ring) <= RingSize /\ Len(stream.batch) <= Limit /\ Len(list) <= Limit
    /\ sent \subseteq DOMAIN records
    /\ turns \in 0 .. MaxTurns

\* The page has rendered the tab once: nothing is recorded yet.
Init ==
    /\ records = <<>> /\ ring = <<>> /\ list = <<>> /\ channel = <<>>
    /\ stream = Closed /\ sent = {}
    /\ url = [filter |-> 0, after |-> 0]
    /\ request = [r \in Routes |-> NoRequest]
    /\ wanted = 0 /\ gap = FALSE
    /\ turns = 0
-----------------------------------------------------------------------------
(***************************************************************************)
(* The state cache.  Its lock makes each of these steps one.               *)
(***************************************************************************)
\* Variant: nothing is dropped.
Everything(s, n) == s

\* Variant: the newest entries are dropped instead of the oldest.
FirstOf(s, n) == SubSeq(s, 1, IF Len(s) < n THEN Len(s) ELSE n)
LastOf(s, n) == SubSeq(s, IF Len(s) < n THEN 1 ELSE Len(s) - n + 1, Len(s))

\* _announce_matches: an unknown hop count passes no hop limit.
HopsMatch(hops, f) == f = 0 \/ (hops # Unknown /\ hops <= f)
Matches(id, f) == HopsMatch(records[id].hops, f)

\* Variant: only the newest record is compared.
NewestDuplicate(p) ==
    IF ring # <<>> /\ records[ring[Len(ring)]].packet = p THEN {ring[Len(ring)]} ELSE {}

\* _find_duplicate_announce: a packet with a hash and a record in the ring.
Duplicates(p) == {id \in Ids(ring) : p \notin Unhashed /\ records[id].packet = p}

\* Still to reach the page on its connection, or on the next one.
OnItsWay == Ids(channel) \cup Ids(stream.batch)
Due(id) == id \in OnItsWay \/ IF stream.at = "closed" THEN url.after < id ELSE stream.last < id

NewRecord(p, hops) == [packet |-> p, hops |-> hops, born |-> hops]

\* append_announce with _merge_announce, which fills in what was empty.
\* History: a match that the ring drops before the page has it is lost.
Report(p, hops) ==
    /\ IF Duplicates(p) # {}
       THEN /\ \E id \in Duplicates(p) :
                   records' = [records EXCEPT ![id].hops =
                                   IF records[id].hops = Unknown THEN hops ELSE records[id].hops]
            /\ UNCHANGED <<ring, gap>>
       ELSE /\ Len(records) < MaxRecords
            /\ records' = Append(records, NewRecord(p, hops))
            /\ ring' = LastOf(Append(ring, Len(records) + 1), RingSize)
            /\ gap' = (gap \/ \E id \in Ids(ring) \ Ids(ring') : Matches(id, wanted) /\ Due(id))
    /\ UNCHANGED <<stream, sent, channel, url, request, wanted, list, turns>>

\* Positions in ascending order, and the rows at them: what a loop over the
\* ring collects.  (SelectSeq, of which the prover knows nothing.)
InOrder(P) == [n \in 1 .. Cardinality(P) |-> CHOOSE k \in P : Cardinality({j \in P : j <= k}) = n]
RowsAt(P) == [n \in 1 .. Cardinality(P) |-> ring[InOrder(P)[n]]]

MatchesFilter(f) == RowsAt({k \in DOMAIN ring : Matches(ring[k], f)})

\* snapshot_announces: the newest Limit that match.
Snapshot(f) == LastOf(MatchesFilter(f), Limit)

DueAfter(f, after) == RowsAt({k \in DOMAIN ring : ring[k] > after /\ Matches(ring[k], f)})

\* Variant: a batch is the newest of what is due.
NewestBatch(f, after) == LastOf(DueAfter(f, after), Limit)

\* wait_for_announces: the oldest Limit that are due.
Batch(f, after) == FirstOf(DueAfter(f, after), Limit)
-----------------------------------------------------------------------------
(***************************************************************************)
(* The thread of _serve_announce_stream.                                   *)
(***************************************************************************)
\* Variant: a connection starts with what is newest.
AfterNewest(u) == Len(records)
AfterOf(u) == u.after

\* The EventSource connects, and again after a loss, with the URL it has.
Connect ==
    /\ stream.at = "closed"
    /\ stream' = [at |-> "waiting", last |-> AfterOf(url), batch |-> <<>>]
    /\ sent' = {}
    /\ UNCHANGED <<records, ring, pageVars>>

StreamTake ==
    /\ stream.at = "waiting" /\ Batch(url.filter, stream.last) # <<>>
    /\ stream' = [stream EXCEPT !.at = "sending", !.batch = Batch(url.filter, stream.last)]
    /\ UNCHANGED <<records, ring, sent, pageVars>>

StreamSend ==
    /\ stream.at = "sending"
    /\ LET id == Head(stream.batch) IN
         /\ channel' = Append(channel, id)
         /\ sent' = sent \cup {id}
         /\ stream' = [at |-> IF Len(stream.batch) = 1 THEN "waiting" ELSE "sending",
                       last |-> IF id > stream.last THEN id ELSE stream.last,
                       batch |-> Tail(stream.batch)]
    /\ UNCHANGED <<records, ring, url, request, wanted, list, turns, gap>>

\* History: rows an answer has put before older ones still to come: the
\* connection opened again repeats the newer ones, and they push these out.
Disconnect ==
    /\ stream.at # "closed" /\ turns < MaxTurns
    /\ stream' = Closed /\ channel' = <<>> /\ sent' = {}
    /\ turns' = turns + 1
    /\ gap' = (gap \/ \E i, j \in DOMAIN list : i < j /\ list[j] < list[i])
    /\ UNCHANGED <<records, ring, url, request, wanted, list>>
-----------------------------------------------------------------------------
(***************************************************************************)
(* The page.  Its handlers run one at a time.                              *)
(***************************************************************************)
LastId(s) == IF s = <<>> THEN 0 ELSE CHOOSE m \in Ids(s) : \A id \in Ids(s) : id <= m

\* The request that fetchAnnouncesSnapshot sends.
Asked(f) == [NoRequest EXCEPT !.at = "asked", !.filter = f]

\* startAnnounceUpdates(true): a snapshot, unless one is being fetched, and
\* a new stream from the last row of the list there is.
\* History: the one being fetched is of another filter, or answered already
\* from a ring older than where the stream goes on.
Apply(f) ==
    /\ turns < MaxTurns
    /\ turns' = turns + 1
    /\ wanted' = f
    /\ request' = IF request["announces"].at # "none" THEN request
                  ELSE [request EXCEPT !["announces"] = Asked(f)]
    /\ url' = [filter |-> f, after |-> LastId(list)]
    /\ stream' = Closed /\ channel' = <<>> /\ sent' = {}
    /\ gap' = (gap \/ request'["announces"] # Asked(f))
    /\ UNCHANGED <<records, ring, list>>

\* fetchStatus of other tabs: its announces are not filtered.
PollStatus ==
    /\ turns < MaxTurns /\ request["status"].at = "none"
    /\ turns' = turns + 1
    /\ request' = [request EXCEPT !["status"] = [NoRequest EXCEPT !.at = "asked"]]
    /\ UNCHANGED <<records, ring, stream, sent, channel, url, wanted, list, gap>>

\* A request thread computes the answer.
Serve(r) ==
    /\ request[r].at = "asked"
    /\ request' = [request EXCEPT ![r].at = "served", ![r].rows = Snapshot(request[r].filter)]
    /\ UNCHANGED <<records, ring, stream, sent, channel, url, wanted, list, turns, gap>>

\* Rows too new for an answer, and that the stream will not send again.
Overtaken(rows) ==
    LET behind == Ids(list) \cup 1 .. url.after \cup (sent \ Ids(channel))
    IN {id \in behind : id > LastId(rows) /\ Matches(id, wanted)}

\* The answer replaces the list, with what the stream has appended to it.
\* History: it lacks rows that will not come again, is of another filter, or
\* rows on their way, older than all in the ring, are to come behind it.
Arrive(r) ==
    /\ request[r].at = "served"
    /\ list' = request[r].rows
    /\ request' = [request EXCEPT ![r] = NoRequest]
    /\ gap' = \/ Overtaken(request[r].rows) # {}
              \/ request[r].filter # wanted
              \/ ~(OnItsWay \subseteq Ids(ring))
              \/ r = "status" /\ gap
    /\ UNCHANGED <<records, ring, stream, sent, channel, url, wanted, turns>>

RequestFails ==
    /\ request["announces"].at # "none" /\ turns < MaxTurns
    /\ turns' = turns + 1
    /\ request' = [request EXCEPT !["announces"] = NoRequest]
    /\ gap' = TRUE
    /\ UNCHANGED <<records, ring, stream, sent, channel, url, wanted, list>>

\* Variant: a row that is there already is added again.
AlwaysPush(s, id) == LastOf(Append(s, id), Limit)

\* appendAnnounceFromStream: replaced where it is, or pushed.
WithRow(s, id) == IF id \in Ids(s) THEN s ELSE LastOf(Append(s, id), Limit)

Dispatch ==
    /\ channel # <<>>
    /\ list' = WithRow(list, Head(channel))
    /\ channel' = Tail(channel)
    /\ UNCHANGED <<records, ring, stream, sent, url, request, wanted, turns, gap>>
-----------------------------------------------------------------------------
StreamStep == Connect \/ StreamTake \/ StreamSend

Next ==
    \/ \E p \in Packets, hops \in HopCounts : Report(p, hops)
    \/ StreamStep \/ Disconnect \/ Dispatch
    \/ \E f \in Filters : Apply(f)
    \/ PollStatus \/ RequestFails
    \/ \E r \in Routes : Serve(r) \/ Arrive(r)

Spec == Init /\ [][Next]_vars
-----------------------------------------------------------------------------
\* The reports of one packet are one record as long as the ring holds it,
\* whatever other packets were reported in between.
OneRecordPerPacket ==
    \A i, j \in Ids(ring) :
        i # j /\ records[i].packet = records[j].packet => records[i].packet \in Unhashed

\* What a full ring drops is always the oldest: the ring is the newest
\* records without a gap, so an id that is gone takes no newer one with it.
RingIsNewest ==
    /\ \A i \in DOMAIN ring : ring[i] = Len(records) - Len(ring) + i
    /\ Len(ring) = IF Len(records) < RingSize THEN Len(records) ELSE RingSize

\* A stream that limits its batches leaves nothing out: of the records the
\* ring still holds, all up to last_id that matched from the start were sent.
StreamSkipsNothing ==
    stream.at # "closed" =>
        \A id \in Ids(ring) :
            url.after < id /\ id <= stream.last /\ HopsMatch(records[id].born, url.filter)
                => id \in sent

\* No report has made an older record match the filter since.
NoLateMatch ==
    \A id \in DOMAIN records : Matches(id, wanted) => HopsMatch(records[id].born, wanted)

\* It will still come to the page.
Coming(id) ==
    \/ Due(id)
    \/ /\ request["announces"].at # "none" /\ request["announces"].filter = wanted
       /\ request["announces"].at = "served" => id \in Ids(request["announces"].rows)

\* Snapshot and stream leave no gap: of the newest Limit matches each is
\* shown or coming, across a new filter, a lost connection and answers out of
\* order -- unless an answer replaced rows newer than itself, is of another
\* filter or never came, the ring dropped a match that was still to come, or a
\* connection was lost while older rows were to come behind a newer answer.
\* (A late match breaks this: it takes the place of a newer row.)
RowShownOrComing ==
    ~gap /\ NoLateMatch =>
        \A id \in Ids(Snapshot(wanted)) : id \in Ids(list) \/ Coming(id)

\* Nothing is under way between the controller and the page.
Settled ==
    /\ channel = <<>> /\ stream.at = "waiting" /\ Batch(url.filter, stream.last) = <<>>
    /\ \A r \in Routes : request[r].at = "none"

\* Then the list is in order and no row is there twice, although answers come
\* before rows older than theirs, and a connection that was lost sends again
\* what the list had dropped.
SettledListInOrder ==
    ~gap /\ NoLateMatch /\ Settled =>
        \A i, j \in DOMAIN list : i < j => list[i] < list[j]
=============================================================================
