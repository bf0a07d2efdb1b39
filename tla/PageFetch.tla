------------------------------ MODULE PageFetch ------------------------------
(***************************************************************************)
(* Fetching a page of a NomadNet node (engine/nomadnet_runtime.py): wait   *)
(* for a path, open a link, send a request, close the link.  Reticulum     *)
(* answers each step by callbacks in threads of its own, at any time or    *)
(* never, and another thread may stop the runtime meanwhile: each step     *)
(* looks anew whether the module is still loaded.  A call that raises ends *)
(* the fetch with an error.                                                *)
(***************************************************************************)
EXTENDS Integers

CONSTANTS Fetchers,       \* HTTP threads
          Candidates,     \* interfaces the node was last reached through
          MaxFetches      \* bound: pages asked for

VARIABLES
    loaded,     \* rns_runtime.RNS is not None
    path,       \* Transport has a path to the node
    fetch,      \* how far each thread is, and interfaces it has still to ask
    link,       \* the link it has opened, as Reticulum has it: "none" when torn
                \* down, "left" when the teardown raised
    established,  \* its callback has been called
    fetches

vars == <<loaded, path, fetch, link, established, fetches>>

Idle == [pc |-> "idle", left |-> 0]

At(t, pc) == fetch[t].pc = pc

TypeOK ==
    /\ loaded \in BOOLEAN /\ path \in BOOLEAN /\ fetches \in 0 .. MaxFetches
    /\ fetch \in [Fetchers -> [pc : {"idle", "path", "ask", "await", "recall", "open", "establish",
                                     "abandon", "request", "answer", "teardown"},
                               left : 0 .. Candidates]]
    /\ link \in [Fetchers -> {"none", "pending", "open", "closed", "left"}]
    /\ established \in [Fetchers -> BOOLEAN]

Init ==
    /\ loaded = TRUE /\ path = FALSE /\ fetches = 0
    /\ fetch = [t \in Fetchers |-> Idle]
    /\ link = [t \in Fetchers |-> "none"]
    /\ established = [t \in Fetchers |-> FALSE]
-----------------------------------------------------------------------------
Go(t, pc) == fetch' = [fetch EXCEPT ![t].pc = pc]
\* An answer, or an exception that becomes one.
Done(t) == fetch' = [fetch EXCEPT ![t] = Idle]

\* fetch_page: without a module it is answered at once.
Fetch(t) ==
    /\ At(t, "idle") /\ fetches < MaxFetches /\ fetches' = fetches + 1
    /\ fetch' = IF loaded THEN [fetch EXCEPT ![t] = [Idle EXCEPT !.pc = "path", !.left = Candidates]]
                ELSE fetch
    /\ link' = [link EXCEPT ![t] = "none"] /\ established' = [established EXCEPT ![t] = FALSE]
    /\ UNCHANGED <<loaded, path>>

\* _wait_for_path
FindPath(t) ==
    /\ At(t, "path")
    /\ IF loaded THEN Go(t, IF path THEN "recall" ELSE "ask") ELSE Done(t)
    /\ UNCHANGED <<loaded, path, link, established, fetches>>

\* _request_destination_path, on a candidate or on all interfaces.
AskPath(t) ==
    /\ At(t, "ask")
    /\ (loaded /\ Go(t, "await")) \/ Done(t)
    /\ UNCHANGED <<loaded, path, link, established, fetches>>

\* Variant: the path is waited for without a timeout.
AwaitForever(t) ==
    /\ At(t, "await") /\ path
    /\ Go(t, "recall")
    /\ UNCHANGED <<loaded, path, link, established, fetches>>

\* _wait_until_path_available: four seconds for each candidate, and what is
\* left of the thirty for the last request.
AwaitPath(t) ==
    /\ At(t, "await")
    /\ \/ path /\ Go(t, "recall")
       \/ /\ ~path /\ fetch[t].left > 0
          /\ fetch' = [fetch EXCEPT ![t].pc = "ask", ![t].left = fetch[t].left - 1]
       \/ ~path /\ fetch[t].left = 0 /\ Done(t)
       \/ ~loaded /\ Done(t)
    /\ UNCHANGED <<loaded, path, link, established, fetches>>

\* Identity.recall, and the hash of the destination it gives.
Recall(t) ==
    /\ At(t, "recall")
    /\ Go(t, "open") \/ Done(t)
    /\ UNCHANGED <<loaded, path, link, established, fetches>>

\* _open_link
OpenLink(t) ==
    /\ At(t, "open")
    /\ \/ loaded /\ Go(t, "establish") /\ link' = [link EXCEPT ![t] = "pending"]
       \/ Done(t) /\ UNCHANGED link
    /\ UNCHANGED <<loaded, path, established, fetches>>

\* A link that was established in time is used even when it has closed since.
AwaitLink(t) ==
    /\ At(t, "establish")
    /\ Go(t, IF established[t] THEN "request" ELSE "abandon")
    /\ UNCHANGED <<loaded, path, link, established, fetches>>

\* link.teardown(); when it raises, the exception is dropped.
Close(t) ==
    /\ \E l \in {"none", "left"} : link' = [link EXCEPT ![t] = l]
    /\ established' = [established EXCEPT ![t] = FALSE]

\* Variant: a link that was not established in time is left alone.
LeaveLink(t) ==
    /\ At(t, "abandon")
    /\ Done(t)
    /\ UNCHANGED <<loaded, path, link, established, fetches>>

AbandonLink(t) ==
    /\ At(t, "abandon")
    /\ Close(t) /\ Done(t)
    /\ UNCHANGED <<loaded, path, fetches>>

\* _request_path: a link that has closed takes no request.
Request(t) ==
    /\ At(t, "request")
    /\ Go(t, IF link[t] = "open" THEN "answer" ELSE "teardown") \/ Go(t, "teardown")
    /\ UNCHANGED <<loaded, path, link, established, fetches>>

\* completed.wait: a response, a failure, or 65 seconds without either.
AwaitAnswer(t) ==
    /\ At(t, "answer")
    /\ Go(t, "teardown")
    /\ UNCHANGED <<loaded, path, link, established, fetches>>

\* The finally of fetch_page, and the answer.  (A page that has come is
\* dropped for an error when the module was unloaded meanwhile.)
Teardown(t) ==
    /\ At(t, "teardown")
    /\ Close(t) /\ Done(t)
    /\ UNCHANGED <<loaded, path, fetches>>
-----------------------------------------------------------------------------
(***************************************************************************)
(* Reticulum                                                               *)
(***************************************************************************)
PathComes ==
    /\ loaded /\ ~path /\ path' = TRUE
    /\ UNCHANGED <<loaded, fetch, link, established, fetches>>

Established(t) ==
    /\ link[t] = "pending"
    /\ link' = [link EXCEPT ![t] = "open"] /\ established' = [established EXCEPT ![t] = TRUE]
    /\ UNCHANGED <<loaded, path, fetch, fetches>>

Closed(t) ==
    /\ link[t] \in {"pending", "open"}
    /\ link' = [link EXCEPT ![t] = "closed"]
    /\ UNCHANGED <<loaded, path, fetch, established, fetches>>
-----------------------------------------------------------------------------
FetchStep(t) ==
    \/ FindPath(t) \/ AskPath(t) \/ AwaitPath(t) \/ Recall(t) \/ OpenLink(t) \/ AwaitLink(t)
    \/ AbandonLink(t) \/ Request(t) \/ AwaitAnswer(t) \/ Teardown(t)
ReticulumStep == PathComes \/ \E t \in Fetchers : Established(t) \/ Closed(t)
-----------------------------------------------------------------------------
\* A fetch that is over leaves no link behind, whichever step failed, timed
\* out or was overtaken by Reticulum's answer or by the end of the runtime -
\* unless it was the teardown itself that raised, which the code drops.
NoLinkLeft == \A t \in Fetchers : At(t, "idle") => link[t] \in {"none", "left"}
=============================================================================
