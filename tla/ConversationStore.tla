-------------------------- MODULE ConversationStore --------------------------
(***************************************************************************)
(* The records of one conversation (messages.json of one contact) and what *)
(* each operation of ClientContactStore computes from the list it has read *)
(* (client_contacts.py).  A list is a function from message ids to records;*)
(* the position of a record in the list, names, hashes and time stamps are *)
(* left out.  The operators are pure: reading and writing the file, which  *)
(* the code does without a lock, are steps of module OutboundMessages.     *)
(* Seven operators marked "Variant:" are deliberately wrong: each shows    *)
(* that a property depends on the operator after it, and no action uses it.*)
(***************************************************************************)
EXTENDS Integers, FiniteSets

CONSTANTS MsgIds,  \* ids of records: drawn by add_outbound_message, or
                   \* "inbound-" and the LXMF message id
          Nodes    \* destination hashes of propagation nodes

ASSUME StoreAssumption == MsgIds # {} /\ IsFiniteSet(Nodes)

-----------------------------------------------------------------------------
\* "absent" stands for an id that is not in the list.
\* "received" is the state of an inbound record and of no other.
MessageState == {"absent", "sending", "delivered", "failed", "propagated", "received"}
DeliveryMethod == {"direct", "propagation"}
\* "none" stands for a node without an entry in propagation_results.
NodeStatus == {"none", "pending", "accepted", "failed", "not_attempted"}
\* The error text by its origin: the exception of the HTTP request, the
\* worker's report, the worker's exit, a start of the controller.
ErrorText == {"", "request", "delivery", "worker_exited", "restarted"}

Message == [state    : MessageState,
            attempts : Nat,                     \* delivery_attempts
            method   : DeliveryMethod,
            nodes    : SUBSET Nodes,            \* propagation_nodes
            results  : [Nodes -> NodeStatus],   \* propagation_results
            accepted : Nat,                     \* propagation_accepted_count
            count    : Nat,                     \* propagation_node_count
            error    : ErrorText]

Conversation == [MsgIds -> Message]

NoMessage == [state |-> "absent", attempts |-> 0, method |-> "direct", nodes |-> {},
              results |-> [n \in Nodes |-> "none"], accepted |-> 0, count |-> 0, error |-> ""]
NoMessages == [m \in MsgIds |-> NoMessage]

\* What is asked of the store.  The events of a worker have the same shape:
\* targets is {n} for an event about node n, the job's nodes for "complete",
\* and ok is accepted_count there.
OpKind == {"add", "retry", "queued", "sendfailed", "delete", "clear",
           "delivered", "failed", "propagated", "nodefailed", "complete",
           "received", "workerexit", "restart"}
Op == [kind : OpKind, m : MsgIds, method : DeliveryMethod, targets : SUBSET Nodes, ok : Nat]

AnyMsg == CHOOSE m \in MsgIds : TRUE
PlainOp(kind, m) == [kind |-> kind, m |-> m, method |-> "direct", targets |-> {}, ok |-> 0]
NoOp == PlainOp("clear", AnyMsg)

-----------------------------------------------------------------------------
\* A new attempt: the targets listed as pending, everything of an earlier
\* attempt reset.  The two callers differ in what they pass as targets.
Attempt(number, method, targets) ==
    [state |-> "sending", attempts |-> number, method |-> method, nodes |-> {},
     results |-> [n \in Nodes |-> IF n \in targets THEN "pending" ELSE "none"],
     accepted |-> 0, count |-> Cardinality(targets), error |-> ""]

AddOutbound(c, op) == [c EXCEPT ![op.m] = Attempt(1, op.method, op.targets)]

\* Variant: the retry keeps propagation_results.
RetryKeepingResults(c, op) ==
    [c EXCEPT ![op.m] = [Attempt(@.attempts + 1, op.method, {}) EXCEPT !.results = c[op.m].results]]

\* The second repeat_client_message, the one Python keeps, passes no
\* propagation_targets: a retry lists no node whatever the worker is given.
PrepareRetry(c, op) == [c EXCEPT ![op.m] = Attempt(@.attempts + 1, op.method, {})]

\* Variant: the confirmation of a queued message marks it delivered.
ConfirmDelivered(c, op) == [c EXCEPT ![op.m] = [@ EXCEPT !.state = "delivered", !.error = ""]]

\* update_outbound_message after the worker answered.
ConfirmQueued(c, op) == 
    [c EXCEPT ![op.m] = [@ EXCEPT !.method = op.method, !.error = ""]]

FailSend(c, op) ==
    [c EXCEPT ![op.m] = [@ EXCEPT !.state = "failed", !.method = op.method, !.error = "request"]]

\* Variant: the topic is stored as the error text.
OutcomeWithTopic(c, op) == [c EXCEPT ![op.m] = [@ EXCEPT !.state = op.kind, !.error = op.kind]]

\* update_outbound_message for lxmf.message_delivered and lxmf.message_failed.
RecordOutcome(c, op) ==
    [c EXCEPT ![op.m] = [@ EXCEPT !.state = op.kind, !.method = op.method,
                                  !.error = IF op.kind = "failed" THEN "delivery" ELSE ""]]

AddInbound(c, op) == [c EXCEPT ![op.m] = [NoMessage EXCEPT !.state = "received"]]

AcceptedResults(results) == Cardinality({n \in Nodes : results[n] = "accepted"})

SetResults(results, targets, status) ==
    [n \in Nodes |-> IF n \in targets THEN status ELSE results[n]]

RecordPropagated(c, op) ==
    LET results == SetResults(c[op.m].results, op.targets, "accepted")
    IN  [c EXCEPT ![op.m] =
            [@ EXCEPT !.state = "propagated", !.method = "propagation", !.error = "",
                      !.nodes = c[op.m].nodes \cup op.targets, !.results = results,
                      !.accepted = AcceptedResults(results)]]

RecordNodeFailed(c, op) ==
    [c EXCEPT ![op.m] = [@ EXCEPT !.results = SetResults(c[op.m].results, op.targets, "failed")]]

\* Variant: accepted_count and node_count exchanged.
CompleteSwapped(c, op) ==
    [c EXCEPT ![op.m] = [@ EXCEPT !.accepted = Cardinality(op.targets), !.count = op.ok]]

CompleteReplication(c, op) ==
    LET settled(s) == IF s = "pending" THEN "not_attempted" ELSE s
    IN  [c EXCEPT ![op.m] =
            [@ EXCEPT !.results = [n \in Nodes |-> settled(c[op.m].results[n])],
                      !.accepted = op.ok, !.count = Cardinality(op.targets)]]

DeleteMessage(c, op) == [c EXCEPT ![op.m] = NoMessage]

\* Variant: only propagated messages are failed.
FailPendingPropagation(c, why) ==
    [m \in MsgIds |-> IF c[m].state = "sending" /\ c[m].method = "propagation"
                      THEN [c[m] EXCEPT !.state = "failed", !.error = why]
                      ELSE c[m]]

FailPending(c, why) ==
    [m \in MsgIds |-> IF c[m].state = "sending"
                      THEN [c[m] EXCEPT !.state = "failed", !.error = why]
                      ELSE c[m]]

-----------------------------------------------------------------------------
\* Variant: the HTTP thread updates whatever state the record is in.
ExpectsNothing(op) == FALSE

\* update_outbound_message with expected_state="sending".
ExpectsSending(op) == op.kind \in {"queued", "sendfailed"}

\* Variant: a pending message may be repeated.
RepeatableAnytime(msg) == msg.state \notin {"absent", "received"}

\* prepare_outbound_retry refuses inbound and pending messages.
Repeatable(msg) == msg.state \notin {"absent", "received", "sending"}

\* Does the operation write the file, having read c?  It does not when it
\* raises, finds no such message, or expected_state does not match.
Writes(op, c) ==
    CASE op.kind \in {"add", "clear"} -> TRUE
      [] op.kind = "received" -> c[op.m].state = "absent"
      [] op.kind = "delete" -> c[op.m].state # "absent"
      [] op.kind = "retry" -> Repeatable(c[op.m])
      [] op.kind \in {"workerexit", "restart"} -> \E m \in MsgIds : c[m].state = "sending"
      [] OTHER -> /\ c[op.m].state \notin {"absent", "received"}
                  /\ ExpectsSending(op) => c[op.m].state = "sending"

\* The list it writes.
Written(op, c) ==
    CASE op.kind = "add"        -> AddOutbound(c, op)
      [] op.kind = "clear"      -> NoMessages
      [] op.kind = "retry"      -> PrepareRetry(c, op)
      [] op.kind = "queued"     -> ConfirmQueued(c, op)
      [] op.kind = "sendfailed" -> FailSend(c, op)
      [] op.kind = "received"   -> AddInbound(c, op)
      [] op.kind = "workerexit" -> FailPending(c, "worker_exited")
      [] op.kind = "restart"    -> FailPending(c, "restarted")
      [] op.kind = "propagated" -> RecordPropagated(c, op)
      [] op.kind = "nodefailed" -> RecordNodeFailed(c, op)
      [] op.kind = "complete"   -> CompleteReplication(c, op)
      [] op.kind = "delete"     -> DeleteMessage(c, op)
      [] OTHER                  -> RecordOutcome(c, op)
=============================================================================
