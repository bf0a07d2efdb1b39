----------------------- MODULE OutboundMessages_proofs -----------------------
(***************************************************************************)
(* Theorems about OutboundMessages, for any number of messages, nodes,     *)
(* request threads, worker processes, repeats, removals and restarts.      *)
(***************************************************************************)
EXTENDS OutboundMessages, FiniteSetTheorems, SequenceTheorems, TLAPS

-----------------------------------------------------------------------------
(***************************************************************************)
(* What each operation of the conversation store preserves, for any list   *)
(* it may have read.                                                       *)
(***************************************************************************)
(* Numbers of nodes are natural numbers. *)
LEMMA CountType ==
    ASSUME NEW ns \in SUBSET Nodes
    PROVE  Cardinality(ns) \in Nat
  BY StoreAssumption, FS_Subset, FS_CardinalityType

LEMMA AcceptedType ==
    ASSUME NEW results
    PROVE  AcceptedResults(results) \in Nat
<1>1. {n \in Nodes : results[n] = "accepted"} \in SUBSET Nodes
  OBVIOUS
<1> QED
  BY <1>1, CountType DEF AcceptedResults

(* The empty list and the record of a new attempt are well formed. *)
LEMMA NoMessagesType == NoMessage \in Message /\ NoMessages \in Conversation
  BY DEF NoMessage, NoMessages, Message, Conversation, MessageState, DeliveryMethod,
         NodeStatus, ErrorText

LEMMA AttemptType ==
    ASSUME NEW number \in Nat, NEW method \in DeliveryMethod, NEW targets \in SUBSET Nodes
    PROVE  Attempt(number, method, targets) \in Message
<1>1. Cardinality(targets) \in Nat
  BY CountType
<1> QED
  BY <1>1 DEF Attempt, Message, MessageState, NodeStatus, ErrorText

LEMMA AnyMsgType == AnyMsg \in MsgIds
  BY StoreAssumption DEF AnyMsg

LEMMA PlainOpType ==
    ASSUME NEW kind \in OpKind, NEW m \in MsgIds
    PROVE  PlainOp(kind, m) \in Op
  BY DEF PlainOp, Op, DeliveryMethod

LEMMA NoOpType == NoOp \in Op
  BY AnyMsgType, PlainOpType DEF NoOp, OpKind

LEMMA SetResultsType ==
    ASSUME NEW results \in [Nodes -> NodeStatus], NEW targets, NEW outcome \in NodeStatus
    PROVE  SetResults(results, targets, outcome) \in [Nodes -> NodeStatus]
  BY DEF SetResults

-----------------------------------------------------------------------------
(* Whatever an operation writes is a list of well-formed records. *)
LEMMA WrittenType ==
    ASSUME NEW c \in Conversation, NEW o \in Op
    PROVE  Written(o, c) \in Conversation
<1> DEFINE msg == c[o.m]
<1>o. /\ o.kind \in OpKind /\ o.m \in MsgIds /\ o.method \in DeliveryMethod
      /\ o.targets \in SUBSET Nodes /\ o.ok \in Nat
  BY DEF Op
<1>m. msg \in Message
  BY <1>o DEF Conversation
<1>r. /\ msg.results \in [Nodes -> NodeStatus] /\ msg.attempts + 1 \in Nat
  BY <1>m DEF Message
<1>e. \A r \in Message : [c EXCEPT ![o.m] = r] \in Conversation
  BY <1>o DEF Conversation
<1>1. AddOutbound(c, o) \in Conversation
  BY <1>o, <1>e, AttemptType DEF AddOutbound
<1>2. PrepareRetry(c, o) \in Conversation
  BY <1>o, <1>r, <1>e, AttemptType DEF PrepareRetry
<1>3. ConfirmQueued(c, o) \in Conversation
  <2>1. [msg EXCEPT !.method = o.method, !.error = ""] \in Message
    BY <1>o, <1>m DEF Message, ErrorText
  <2> QED
    BY <1>e, <2>1 DEF ConfirmQueued
<1>4. FailSend(c, o) \in Conversation
  <2>1. [msg EXCEPT !.state = "failed", !.method = o.method, !.error = "request"] \in Message
    BY <1>o, <1>m DEF Message, MessageState, ErrorText
  <2> QED
    BY <1>e, <2>1 DEF FailSend
<1>5. AddInbound(c, o) \in Conversation
  BY <1>o, NoMessagesType DEF AddInbound, Conversation, Message, MessageState
<1>6. ASSUME NEW why \in ErrorText
      PROVE  FailPending(c, why) \in Conversation
  BY <1>6 DEF FailPending, Conversation, Message, MessageState
<1>7. RecordPropagated(c, o) \in Conversation
  <2> DEFINE results == SetResults(msg.results, o.targets, "accepted")
             new == [msg EXCEPT !.state = "propagated", !.method = "propagation", !.error = "",
                                !.nodes = msg.nodes \cup o.targets, !.results = results,
                                !.accepted = AcceptedResults(results)]
  <2>1. results \in [Nodes -> NodeStatus] /\ AcceptedResults(results) \in Nat
    BY <1>r, SetResultsType, AcceptedType DEF NodeStatus
  <2> HIDE DEF results
  <2>2. new \in Message
    BY <1>o, <1>m, <2>1 DEF Message, MessageState, DeliveryMethod, ErrorText
  <2> QED
    BY <1>o, <1>e, <2>2 DEF RecordPropagated, results, Conversation
<1>8. RecordNodeFailed(c, o) \in Conversation
  <2>1. SetResults(msg.results, o.targets, "failed") \in [Nodes -> NodeStatus]
    BY <1>r, SetResultsType DEF NodeStatus
  <2>2. [msg EXCEPT !.results = SetResults(msg.results, o.targets, "failed")] \in Message
    BY <1>m, <2>1 DEF Message
  <2> QED
    BY <1>o, <1>e, <2>2 DEF RecordNodeFailed, Conversation
<1>9. CompleteReplication(c, o) \in Conversation
  <2> DEFINE settled(s) == IF s = "pending" THEN "not_attempted" ELSE s
             new == [msg EXCEPT !.results = [n \in Nodes |-> settled(msg.results[n])],
                                !.accepted = o.ok, !.count = Cardinality(o.targets)]
  <2>1. Cardinality(o.targets) \in Nat
    BY <1>o, CountType
  <2>2. [n \in Nodes |-> settled(msg.results[n])] \in [Nodes -> NodeStatus]
    BY <1>r DEF NodeStatus
  <2>3. new \in Message
    BY <1>o, <1>m, <2>1, <2>2 DEF Message
  <2> QED
    BY <1>o, <1>e, <2>3 DEF CompleteReplication, Conversation
<1>10. DeleteMessage(c, o) \in Conversation
  BY <1>o, <1>e, NoMessagesType DEF DeleteMessage
<1>11. ASSUME o.kind \in {"delivered", "failed"}
       PROVE  RecordOutcome(c, o) \in Conversation
  <2>1. [msg EXCEPT !.state = o.kind, !.method = o.method,
                    !.error = IF o.kind = "failed" THEN "delivery" ELSE ""] \in Message
    BY <1>o, <1>m, <1>11 DEF Message, MessageState, ErrorText
  <2> QED
    BY <1>e, <2>1 DEF RecordOutcome
<1> QED
  BY <1>o, <1>1, <1>2, <1>3, <1>4, <1>5, <1>6, <1>7, <1>8, <1>9, <1>10, <1>11, NoMessagesType
  DEF Written, OpKind, ErrorText

-----------------------------------------------------------------------------
(* The state-error relation, the agreement of nodes and results, and the   *)
(* evidence behind a success, each for a whole list.                       *)
ErrorsShown(c) == \A m \in MsgIds : c[m].state = "failed" <=> c[m].error # ""

ResultsAgree(c) ==
    \A m \in MsgIds, n \in Nodes :
        /\ c[m].results[n] = "accepted" => n \in c[m].nodes
        /\ n \in c[m].nodes => c[m].results[n] \in {"accepted", "failed"}

Reported(c, ids, confirmed, accepting) ==
    \A m \in ids :
        /\ c[m].state = "delivered" => m \in confirmed
        /\ c[m].state = "propagated" => c[m].nodes # {}
        /\ c[m].nodes \subseteq accepting[m]

(* An operation that writes keeps error texts with the failed messages. *)
LEMMA WrittenErrors ==
    ASSUME NEW c \in Conversation, NEW o \in Op, Writes(o, c), ErrorsShown(c)
    PROVE  ErrorsShown(Written(o, c))
<1>o. o.kind \in OpKind /\ o.m \in MsgIds
  BY DEF Op
<1>m. c[o.m] \in Message
  BY <1>o DEF Conversation
<1> SUFFICES ASSUME NEW m \in MsgIds
             PROVE  Written(o, c)[m].state = "failed" <=> Written(o, c)[m].error # ""
  BY DEF ErrorsShown
<1>1. CASE o.kind \in {"clear", "delete", "add", "retry", "received"}
  BY <1>o, <1>m, <1>1 DEF Written, DeleteMessage, NoMessages, NoMessage, AddOutbound,
     PrepareRetry, Attempt, AddInbound, ErrorsShown, Conversation
<1>2. CASE o.kind \in {"workerexit", "restart"}
  BY <1>2 DEF Written, FailPending, ErrorsShown, Conversation, Message
<1>3. CASE o.kind \in {"queued", "sendfailed"}
  BY <1>o, <1>m, <1>3 DEF Written, Writes, ExpectsSending, ConfirmQueued, FailSend,
     ErrorsShown, Conversation, Message
<1>4. CASE o.kind \in {"delivered", "failed"}
  BY <1>o, <1>m, <1>4 DEF Written, RecordOutcome, ErrorsShown, Conversation, Message
<1>5. CASE o.kind \in {"propagated", "nodefailed", "complete"}
  BY <1>o, <1>m, <1>5 DEF Written, RecordPropagated, RecordNodeFailed, CompleteReplication,
     ErrorsShown, Conversation, Message
<1> QED
  BY <1>o, <1>1, <1>2, <1>3, <1>4, <1>5 DEF OpKind

(* Any operation keeps propagation_nodes and propagation_results in step. *)
LEMMA WrittenResults ==
    ASSUME NEW c \in Conversation, NEW o \in Op, ResultsAgree(c)
    PROVE  ResultsAgree(Written(o, c))
<1>o. o.kind \in OpKind /\ o.m \in MsgIds /\ o.targets \in SUBSET Nodes
  BY DEF Op
<1>m. /\ \A m \in MsgIds : c[m] \in Message /\ c[m].results \in [Nodes -> NodeStatus]
      /\ c \in [MsgIds -> Message]
  BY DEF Conversation, Message
<1> SUFFICES ASSUME NEW m \in MsgIds, NEW n \in Nodes
             PROVE  LET r == Written(o, c)[m]
                    IN  /\ r.results[n] = "accepted" => n \in r.nodes
                        /\ n \in r.nodes => r.results[n] \in {"accepted", "failed"}
  BY DEF ResultsAgree
<1>h. /\ c[m].results[n] = "accepted" => n \in c[m].nodes
      /\ n \in c[m].nodes => c[m].results[n] \in {"accepted", "failed"}
  BY DEF ResultsAgree
<1>1. CASE o.kind \in {"clear", "delete", "add", "retry", "received"}
  BY <1>o, <1>m, <1>h, <1>1 DEF Written, DeleteMessage, NoMessages, NoMessage, AddOutbound,
     PrepareRetry, Attempt, AddInbound
<1>2. CASE o.kind \in {"workerexit", "restart"}
  BY <1>m, <1>h, <1>2 DEF Written, FailPending, Message
<1>3. CASE o.kind \in {"queued", "sendfailed", "delivered", "failed"}
  BY <1>o, <1>m, <1>h, <1>3 DEF Written, ConfirmQueued, FailSend, RecordOutcome, Message
<1>4. CASE o.kind = "propagated"
  BY <1>o, <1>m, <1>h, <1>4 DEF Written, RecordPropagated, SetResults, Message
<1>5. CASE o.kind = "nodefailed"
  BY <1>o, <1>m, <1>h, <1>5 DEF Written, RecordNodeFailed, SetResults, Message
<1>6. CASE o.kind = "complete"
  BY <1>o, <1>m, <1>h, <1>6 DEF Written, CompleteReplication, Message
<1> QED
  BY <1>o, <1>1, <1>2, <1>3, <1>4, <1>5, <1>6 DEF OpKind

(* An operation whose event is backed by the network writes no success     *)
(* that is not.                                                            *)
LEMMA WrittenReported ==
    ASSUME NEW c \in Conversation, NEW o \in Op, NEW ids \in SUBSET MsgIds,
           NEW confirmed, NEW accepting, Reported(c, ids, confirmed, accepting),
           o.kind = "delivered" => o.m \in confirmed,
           o.kind = "propagated" => o.targets # {} /\ o.targets \subseteq accepting[o.m]
    PROVE  Reported(Written(o, c), ids, confirmed, accepting)
<1>o. o.kind \in OpKind /\ o.m \in MsgIds /\ o.targets \in SUBSET Nodes
  BY DEF Op
<1>m. \A m \in MsgIds : c[m] \in Message
  BY DEF Conversation
<1> SUFFICES ASSUME NEW m \in ids
             PROVE  LET r == Written(o, c)[m]
                    IN  /\ r.state = "delivered" => m \in confirmed
                        /\ r.state = "propagated" => r.nodes # {}
                        /\ r.nodes \subseteq accepting[m]
  BY DEF Reported
<1>h. /\ c[m].state = "delivered" => m \in confirmed
      /\ c[m].state = "propagated" => c[m].nodes # {}
      /\ c[m].nodes \subseteq accepting[m]
  BY DEF Reported
<1>1. CASE o.kind \in {"clear", "delete", "add", "retry", "received"}
  BY <1>o, <1>m, <1>h, <1>1 DEF Written, DeleteMessage, NoMessages, NoMessage, AddOutbound,
     PrepareRetry, Attempt, AddInbound, Conversation
<1>2. CASE o.kind \in {"workerexit", "restart"}
  BY <1>m, <1>h, <1>2 DEF Written, FailPending, Conversation, Message
<1>3. CASE o.kind \in {"queued", "sendfailed", "delivered", "failed"}
  BY <1>o, <1>m, <1>h, <1>3 DEF Written, ConfirmQueued, FailSend, RecordOutcome, Conversation,
     Message
<1>4. CASE o.kind \in {"propagated", "nodefailed", "complete"}
  BY <1>o, <1>m, <1>h, <1>4 DEF Written, RecordPropagated, RecordNodeFailed,
     CompleteReplication, Conversation, Message
<1> QED
  BY <1>o, <1>1, <1>2, <1>3, <1>4 DEF OpKind
-----------------------------------------------------------------------------
(* Type correctness is inductive together with the shape of the operations *)
(* in progress: only request threads send, and what they send is outbound. *)
OpShape ==
    \A t \in Threads :
        /\ op[t].kind \in {"add", "retry", "queued", "sendfailed"}
               => t \in Http /\ op[t].m \in OutIds
        /\ pc[t] \in {"control", "wait"} => t \in Http /\ op[t].kind \in {"add", "retry"}

TypeInv == TypeOK /\ OpShape

LEMMA ThreadSets ==
    /\ Http \subseteq Threads /\ Workers \subseteq Threads /\ Starter \in Threads
    /\ Http \cap Workers = {} /\ Starter \notin Http \cup Workers
    /\ OutIds \subseteq MsgIds /\ InIds \subseteq MsgIds
  BY OutboundAssumption DEF Threads

LEMMA InitType == Init => TypeInv
<1> SUFFICES ASSUME Init PROVE TypeInv
  OBVIOUS
<1>1. NoOp \in Op /\ NoOp.kind = "clear" /\ NoMessages \in Conversation
  BY NoOpType, NoMessagesType DEF NoOp, PlainOp
<1>2. \A S : <<>> \in Seq(S)
  OBVIOUS
<1> QED
  BY <1>1, <1>2 DEF Init, TypeInv, TypeOK, OpShape

(* Starting and finishing an operation. *)
LEMMA BeginType ==
    ASSUME TypeInv, NEW t \in Threads, NEW o \in Op, NEW at, Begin(t, o, at),
           at \in {"idle", "read", "truncate", "write", "control", "wait", "done"},
           o.kind \in {"add", "retry", "queued", "sendfailed"} => t \in Http /\ o.m \in OutIds,
           at \in {"control", "wait"} => t \in Http /\ o.kind \in {"add", "retry"}
    PROVE  /\ op' \in [Threads -> Op]
           /\ pc' \in [Threads -> {"idle", "read", "truncate", "write", "control", "wait", "done"}]
           /\ OpShape'
<1>1. /\ op \in [Threads -> Op]
      /\ pc \in [Threads -> {"idle", "read", "truncate", "write", "control", "wait", "done"}]
      /\ OpShape
  BY DEF TypeInv, TypeOK
<1> QED
  BY <1>1 DEF Begin, OpShape

LEMMA FinishType ==
    ASSUME TypeInv, NEW t \in Threads, Finish(t)
    PROVE  /\ op' \in [Threads -> Op]
           /\ pc' \in [Threads -> {"idle", "read", "truncate", "write", "control", "wait", "done"}]
           /\ out' \in [Threads -> Conversation]
           /\ OpShape'
<1>1. NoOp \in Op /\ NoOp.kind = "clear"
  BY NoOpType DEF NoOp, PlainOp
<1>2. out' \in [Threads -> Conversation]
  BY NoMessagesType DEF Finish, TypeInv, TypeOK
<1>3. CASE op[t].kind = "workerexit"
  <2>1. Begin(t, NoOp, "done")
    BY <1>3 DEF Finish
  <2> QED
    BY <1>1, <1>2, <2>1, BeginType
<1>4. CASE op[t].kind # "workerexit"
  <2>1. Begin(t, NoOp, "idle")
    BY <1>4 DEF Finish
  <2> QED
    BY <1>1, <1>2, <2>1, BeginType
<1> QED
  BY <1>3, <1>4
-----------------------------------------------------------------------------
(* The steps on the conversation file. *)
LEMMA StoreReadType ==
    ASSUME TypeInv, NEW t \in Threads, StoreRead(t)
    PROVE  TypeInv'
<1>1. CASE Writes(op[t], messages)
  <2>1. Written(op[t], messages) \in Conversation
    BY WrittenType DEF TypeInv, TypeOK
  <2>2. out' \in [Threads -> Conversation]
    BY <1>1, <2>1 DEF StoreRead, TypeInv, TypeOK
  <2>3. pc' = [pc EXCEPT ![t] = "truncate"] /\ op' = op
    BY <1>1 DEF StoreRead
  <2> QED
    BY <2>2, <2>3 DEF StoreRead, TypeInv, TypeOK, OpShape, fileVars, workerVars, historyVars
<1>2. CASE ~Writes(op[t], messages)
  <2>1. Finish(t)
    BY <1>2 DEF StoreRead
  <2> QED
    BY <2>1, FinishType DEF StoreRead, TypeInv, TypeOK, fileVars, workerVars, historyVars
<1> QED
  BY <1>1, <1>2

LEMMA StoreReadFailsType ==
    ASSUME TypeInv, NEW t \in Threads, StoreReadFails(t)
    PROVE  TypeInv'
<1>1. /\ op' \in [Threads -> Op]
      /\ pc' \in [Threads -> {"idle", "read", "truncate", "write", "control", "wait", "done"}]
      /\ out' \in [Threads -> Conversation]
      /\ OpShape'
  <2>1. CASE op[t].kind = "queued"
    <3>1. Begin(t, [op[t] EXCEPT !.kind = "sendfailed"], "read") /\ out' = out
      BY <2>1 DEF StoreReadFails
    <3>2. op[t] \in Op /\ t \in Http /\ op[t].m \in OutIds
      BY <2>1 DEF TypeInv, TypeOK, OpShape
    <3>3. /\ [op[t] EXCEPT !.kind = "sendfailed"] \in Op
          /\ [op[t] EXCEPT !.kind = "sendfailed"].m \in OutIds
      BY <3>2 DEF Op, OpKind
    <3> QED
      BY <3>1, <3>2, <3>3, BeginType DEF TypeInv, TypeOK
  <2>2. CASE op[t].kind = "restart"
    <3>1. Begin(t, NoOp, "done") /\ out' = out
      BY <2>2 DEF StoreReadFails
    <3>2. NoOp \in Op /\ NoOp.kind = "clear"
      BY NoOpType DEF NoOp, PlainOp
    <3> QED
      BY <3>1, <3>2, BeginType DEF TypeInv, TypeOK
  <2>3. CASE op[t].kind \notin {"queued", "restart"}
    <3>1. Finish(t)
      BY <2>3 DEF StoreReadFails
    <3> QED
      BY <3>1, FinishType
  <2> QED
    BY <2>1, <2>2, <2>3
<1> QED
  BY <1>1 DEF StoreReadFails, TypeInv, TypeOK, fileVars, workerVars

LEMMA StoreTruncateType ==
    ASSUME TypeInv, NEW t \in Threads, StoreTruncate(t)
    PROVE  TypeInv'
<1>1. stale' \subseteq Threads
  BY DEF StoreTruncate, TypeInv, TypeOK
<1>2. pc' = [pc EXCEPT ![t] = "write"] /\ op' = op /\ disk' = "empty" /\ disturbed' \in BOOLEAN
  BY DEF StoreTruncate
<1> QED
  BY <1>1, <1>2 DEF StoreTruncate, TypeInv, TypeOK, OpShape, workerVars

LEMMA StoreWriteType ==
    ASSUME TypeInv, NEW t \in Threads, StoreWrite(t)
    PROVE  TypeInv'
<1>1. disk' \in {"whole", "empty", "mixed"} /\ messages' \in Conversation
  BY DEF StoreWrite, TypeInv, TypeOK
<1>2. /\ op' \in [Threads -> Op]
      /\ pc' \in [Threads -> {"idle", "read", "truncate", "write", "control", "wait", "done"}]
      /\ out' \in [Threads -> Conversation]
      /\ OpShape'
  <2>1. CASE op[t].kind \in {"add", "retry"}
    <3>1. Begin(t, op[t], "control") /\ out' = [out EXCEPT ![t] = NoMessages]
      BY <2>1 DEF StoreWrite, AfterWrite
    <3>2. op[t] \in Op /\ t \in Http /\ op[t].m \in OutIds
      BY <2>1 DEF TypeInv, TypeOK, OpShape
    <3>3. out' \in [Threads -> Conversation]
      BY <3>1, NoMessagesType DEF TypeInv, TypeOK
    <3> QED
      BY <2>1, <3>1, <3>2, <3>3, BeginType
  <2>2. CASE op[t].kind \notin {"add", "retry"}
    BY <2>2, FinishType DEF StoreWrite, AfterWrite
  <2> QED
    BY <2>1, <2>2
<1> QED
  BY <1>1, <1>2 DEF StoreWrite, TypeInv, TypeOK, workerVars, historyVars
-----------------------------------------------------------------------------
(* The steps of request threads. *)
LEMMA SpentType ==
    ASSUME TypeInv
    PROVE  /\ [spent EXCEPT !.repeats = @ + 1] \in [repeats : Nat, removals : Nat, restarts : Nat]
           /\ [spent EXCEPT !.removals = @ + 1] \in [repeats : Nat, removals : Nat, restarts : Nat]
           /\ [spent EXCEPT !.restarts = @ + 1] \in [repeats : Nat, removals : Nat, restarts : Nat]
<1>1. spent \in [repeats : Nat, removals : Nat, restarts : Nat]
  BY DEF TypeInv, TypeOK
<1> QED
  BY <1>1
LEMMA UserType ==
    ASSUME TypeInv, NEW t \in Http, User(t)
    PROVE  TypeInv'
<1>t. t \in Threads
  BY ThreadSets
<1>c. \A context \in Contexts : context[1] \in DeliveryMethod /\ context[2] \in SUBSET Nodes
  BY OutboundAssumption DEF Contexts, DeliveryMethod
<1>1. ASSUME NEW m \in OutIds, NEW context \in Contexts, SendMessage(t, m, context)
      PROVE  TypeInv'
  <2>1. OutOp("add", m, context) \in Op /\ OutOp("add", m, context).m = m
    BY <1>c, ThreadSets DEF OutOp, Op, OpKind
  <2>2. Begin(t, OutOp("add", m, context), "read")
    BY <1>1 DEF SendMessage
  <2>3. /\ op' \in [Threads -> Op]
        /\ pc' \in [Threads -> {"idle", "read", "truncate", "write", "control", "wait", "done"}]
        /\ OpShape'
    BY <1>t, <2>1, <2>2, BeginType
  <2> QED
    BY <1>1, <2>3 DEF SendMessage, TypeInv, TypeOK, fileVars, workerVars
<1>2. ASSUME NEW m \in OutIds, NEW context \in Contexts, RepeatMessage(t, m, context)
      PROVE  TypeInv'
  <2>1. OutOp("retry", m, context) \in Op /\ OutOp("retry", m, context).m = m
    BY <1>c, ThreadSets DEF OutOp, Op, OpKind
  <2>2. Begin(t, OutOp("retry", m, context), "read")
    BY <1>2 DEF RepeatMessage
  <2>3. /\ op' \in [Threads -> Op]
        /\ pc' \in [Threads -> {"idle", "read", "truncate", "write", "control", "wait", "done"}]
        /\ OpShape'
    BY <1>t, <2>1, <2>2, BeginType
  <2> QED
    BY <1>2, <2>3, SpentType DEF RepeatMessage, TypeInv, TypeOK, fileVars, workerVars, historyVars
<1>3. ASSUME NEW m \in MsgIds, RemoveMessage(t, m)
      PROVE  TypeInv'
  <2>1. PlainOp("delete", m) \in Op /\ PlainOp("delete", m).kind = "delete"
    BY PlainOpType DEF PlainOp, OpKind
  <2>2. Begin(t, PlainOp("delete", m), "read")
    BY <1>3 DEF RemoveMessage
  <2>3. /\ op' \in [Threads -> Op]
        /\ pc' \in [Threads -> {"idle", "read", "truncate", "write", "control", "wait", "done"}]
        /\ OpShape'
    BY <1>t, <2>1, <2>2, BeginType
  <2> QED
    BY <1>3, <2>3, SpentType DEF RemoveMessage, TypeInv, TypeOK, fileVars, workerVars, historyVars
<1>4. ASSUME ClearMessages(t)
      PROVE  TypeInv'
  <2>1. PlainOp("clear", AnyMsg) \in Op /\ PlainOp("clear", AnyMsg).kind = "clear"
    BY PlainOpType, AnyMsgType DEF PlainOp, OpKind
  <2>2. Begin(t, PlainOp("clear", AnyMsg), "truncate")
    BY <1>4 DEF ClearMessages
  <2>3. /\ op' \in [Threads -> Op]
        /\ pc' \in [Threads -> {"idle", "read", "truncate", "write", "control", "wait", "done"}]
        /\ OpShape'
    BY <1>t, <2>1, <2>2, BeginType
  <2>4. out' \in [Threads -> Conversation]
    BY <1>4, NoMessagesType DEF ClearMessages, TypeInv, TypeOK
  <2> QED
    BY <1>4, <2>3, <2>4, SpentType DEF ClearMessages, TypeInv, TypeOK, fileVars, workerVars, historyVars
<1> QED
  BY <1>1, <1>2, <1>3, <1>4 DEF User

LEMMA FailedSendType ==
    ASSUME TypeInv, NEW t \in Http, pc[t] \in {"control", "wait"}, FailedSend(t)
    PROVE  /\ op' \in [Threads -> Op]
           /\ pc' \in [Threads -> {"idle", "read", "truncate", "write", "control", "wait", "done"}]
           /\ OpShape'
<1>1. t \in Threads /\ op[t] \in Op /\ op[t].m \in OutIds
  BY ThreadSets DEF TypeInv, TypeOK, OpShape
<1>2. /\ [op[t] EXCEPT !.kind = "sendfailed"] \in Op
      /\ [op[t] EXCEPT !.kind = "sendfailed"].m \in OutIds
  BY <1>1 DEF Op, OpKind
<1> QED
  BY <1>1, <1>2, BeginType DEF FailedSend

LEMMA HttpStepType ==
    ASSUME TypeInv, NEW t \in Http, HttpStep(t)
    PROVE  TypeInv'
<1>t. t \in Threads /\ op[t] \in Op
  BY ThreadSets DEF TypeInv, TypeOK
<1>1. ASSUME NEW w \in Workers, SubmitRequest(t, w)
      PROVE  TypeInv'
  <2> DEFINE r == [caller |-> t, m |-> op[t].m, method |-> op[t].method,
                   targets |-> op[t].targets]
  <2>1. op[t].m \in OutIds
    BY <1>t, <1>1 DEF SubmitRequest, TypeInv, OpShape
  <2>2. r \in Request
    BY <1>t, <2>1 DEF Op, Request
  <2>3. requests' \in [Workers -> Seq(Request)]
    <3>1. Append(requests[w], r) \in Seq(Request)
      BY <2>2, AppendProperties DEF TypeInv, TypeOK
    <3> QED
      BY <1>1, <3>1 DEF SubmitRequest, TypeInv, TypeOK
  <2>4. pc' = [pc EXCEPT ![t] = "wait"] /\ op' = op /\ pc[t] = "control"
    BY <1>1 DEF SubmitRequest
  <2>5. OpShape'
    BY <1>t, <2>4 DEF TypeInv, TypeOK, OpShape
  <2> QED
    BY <1>1, <2>3, <2>4, <2>5 DEF SubmitRequest, TypeInv, TypeOK, fileVars, historyVars
<1>2. ASSUME SubmitFails(t)
      PROVE  TypeInv'
  BY <1>2, FailedSendType DEF SubmitFails, TypeInv, TypeOK, fileVars, workerVars, historyVars
<1>3. ASSUME ReplyQueued(t)
      PROVE  TypeInv'
  <2>1. Begin(t, [op[t] EXCEPT !.kind = "queued"], "read") /\ op[t].m \in OutIds
    BY <1>t, <1>3 DEF ReplyQueued, TypeInv, OpShape
  <2>2. [op[t] EXCEPT !.kind = "queued"] \in Op /\ [op[t] EXCEPT !.kind = "queued"].m \in OutIds
    BY <1>t, <2>1 DEF Op, OpKind
  <2>3. /\ op' \in [Threads -> Op]
        /\ pc' \in [Threads -> {"idle", "read", "truncate", "write", "control", "wait", "done"}]
        /\ OpShape'
    BY <1>t, <2>1, <2>2, BeginType
  <2> QED
    BY <1>3, <2>3 DEF ReplyQueued, TypeInv, TypeOK, fileVars, workerVars, historyVars
<1>4. ASSUME ReplyFailed(t)
      PROVE  TypeInv'
  <2>1. reply' \in [Threads -> {"none", "queued", "error"}]
    BY <1>4 DEF ReplyFailed, TypeInv, TypeOK
  <2> QED
    BY <1>4, <2>1, FailedSendType
    DEF ReplyFailed, TypeInv, TypeOK, fileVars, workerVars, historyVars
<1>5. ASSUME ReplyTimeout(t)
      PROVE  TypeInv'
  <2>1. requests' \in [Workers -> Seq(Request)]
    <3> SUFFICES ASSUME NEW w \in Workers
                 PROVE  [i \in DOMAIN requests[w] |->
                            IF requests[w][i].caller = t
                            THEN [requests[w][i] EXCEPT !.caller = NoCaller]
                            ELSE requests[w][i]] \in Seq(Request)
      BY <1>5 DEF ReplyTimeout
    <3>1. requests[w] \in Seq(Request)
      BY DEF TypeInv, TypeOK
    <3>2. /\ Len(requests[w]) \in Nat /\ DOMAIN requests[w] = 1 .. Len(requests[w])
          /\ \A i \in 1 .. Len(requests[w]) : requests[w][i] \in Request
      BY <3>1, LenProperties, ElementOfSeq
    <3>3. \A i \in 1 .. Len(requests[w]) :
              (IF requests[w][i].caller = t
               THEN [requests[w][i] EXCEPT !.caller = NoCaller]
               ELSE requests[w][i]) \in Request
      BY <3>2 DEF Request
    <3> QED
      BY <3>2, <3>3, IsASeq
  <2> QED
    BY <1>5, <2>1, FailedSendType DEF ReplyTimeout, TypeInv, TypeOK, fileVars, historyVars
<1> QED
  BY <1>1, <1>2, <1>3, <1>4, <1>5 DEF HttpStep

-----------------------------------------------------------------------------
(* The steps of worker processes. *)
LEMMA EmitType ==
    ASSUME TypeInv, NEW w \in Workers, NEW e \in Report, Emit(w, e)
    PROVE  pipe' \in [Workers -> Seq(Report)]
<1>1. Append(pipe[w], e) \in Seq(Report)
  BY AppendProperties DEF TypeInv, TypeOK
<1> QED
  BY <1>1 DEF Emit, TypeInv, TypeOK

LEMMA EventType ==
    ASSUME NEW kind \in {"delivered", "failed", "propagated", "nodefailed", "complete"},
           NEW m \in OutIds, NEW method \in DeliveryMethod, NEW targets \in SUBSET Nodes,
           NEW ok \in Nat
    PROVE  Event(kind, m, method, targets, ok) \in Report
  BY ThreadSets DEF Event, Report, Op, OpKind

LEMMA HeadType ==
    ASSUME TypeInv, NEW w \in Workers
    PROVE  /\ queue[w] # <<>> => Head(queue[w]) \in Job /\ Tail(queue[w]) \in Seq(Job)
           /\ requests[w] # <<>> => /\ Head(requests[w]) \in Request
                                    /\ Tail(requests[w]) \in Seq(Request)
           /\ pipe[w] # <<>> => Head(pipe[w]) \in Report /\ Tail(pipe[w]) \in Seq(Report)
<1>1. queue[w] \in Seq(Job) /\ requests[w] \in Seq(Request) /\ pipe[w] \in Seq(Report)
  BY DEF TypeInv, TypeOK
<1> QED
  BY <1>1, HeadTailProperties

LEMMA ContinueType ==
    ASSUME TypeInv, NEW w \in Workers, queue[w] # <<>>, NEW j \in Job, Continue(w, j)
    PROVE  queue' \in [Workers -> Seq(Job)]
<1>1. <<j>> \in Seq(Job) /\ Tail(queue[w]) \in Seq(Job)
  BY HeadType
<1>2. <<j>> \o Tail(queue[w]) \in Seq(Job)
  BY <1>1, ConcatProperties
<1> QED
  BY <1>2 DEF Continue, TypeInv, TypeOK

LEMMA AnswerType ==
    ASSUME TypeInv, NEW caller \in Http \cup {NoCaller}, NEW value \in {"queued", "error"},
           Answer(caller, value)
    PROVE  reply' \in [Threads -> {"none", "queued", "error"}]
  BY DEF Answer, TypeInv, TypeOK

LEMMA ControlStepType ==
    ASSUME TypeInv, NEW w \in Workers, ControlStep(w)
    PROVE  TypeInv'
<1> DEFINE r == Head(requests[w])
<1>1. /\ requests[w] # <<>> /\ r \in Request /\ Tail(requests[w]) \in Seq(Request)
      /\ requests' = [requests EXCEPT ![w] = Tail(@)]
  BY HeadType DEF ControlStep, AcceptRequest, RefuseRequest
<1>2. requests' \in [Workers -> Seq(Request)]
  BY <1>1 DEF TypeInv, TypeOK
<1>3. reply' \in [Threads -> {"none", "queued", "error"}]
  <2>1. r.caller \in Http \cup {NoCaller}
    BY <1>1 DEF Request
  <2>2. Answer(r.caller, "queued") \/ Answer(r.caller, "error")
    BY DEF ControlStep, AcceptRequest, RefuseRequest
  <2> QED
    BY <2>1, <2>2, AnswerType
<1>4. direct' \in [Workers -> [OutIds -> Nat]] /\ queue' \in [Workers -> Seq(Job)]
  <2>1. CASE RefuseRequest(w)
    BY <2>1 DEF RefuseRequest, TypeInv, TypeOK
  <2>2. CASE AcceptRequest(w) /\ r.method = "direct"
    <3>1. direct' = [direct EXCEPT ![w][r.m] = @ + 1] /\ queue' = queue
      BY <2>2 DEF AcceptRequest
    <3>2. r.m \in OutIds
      BY <1>1 DEF Request
    <3> QED
      BY <3>1, <3>2 DEF TypeInv, TypeOK
  <2>3. CASE AcceptRequest(w) /\ r.method # "direct"
    <3> DEFINE j == [m |-> r.m, targets |-> r.targets, todo |-> r.targets,
                     ok |-> 0, complete |-> FALSE]
    <3>1. queue' = [queue EXCEPT ![w] = Append(@, j)] /\ direct' = direct
      BY <2>3 DEF AcceptRequest
    <3>2. j \in Job
      BY <1>1 DEF Request, Job
    <3>3. Append(queue[w], j) \in Seq(Job)
      BY <3>2, AppendProperties DEF TypeInv, TypeOK
    <3> QED
      BY <3>1, <3>3 DEF TypeInv, TypeOK
  <2> QED
    BY <2>1, <2>2, <2>3 DEF ControlStep
<1>5. UNCHANGED <<fileVars, pc, op, out, status, pipe, spent, historyVars>>
  BY DEF ControlStep, AcceptRequest, RefuseRequest
<1> QED
  BY <1>2, <1>3, <1>4, <1>5 DEF TypeInv, TypeOK, OpShape, fileVars, historyVars

LEMMA DirectStepType ==
    ASSUME TypeInv, NEW w \in Workers, DirectStep(w)
    PROVE  TypeInv'
<1> PICK m \in OutIds, kind \in {"delivered", "failed"} : DirectOutcome(w, m, kind)
  BY DEF DirectStep
<1>1. pipe' \in [Workers -> Seq(Report)]
  BY EventType, EmitType DEF DirectOutcome, DeliveryMethod
<1>2. direct' \in [Workers -> [OutIds -> Nat]]
  BY DEF DirectOutcome, TypeInv, TypeOK
<1>3. delivered' \subseteq OutIds
  BY DEF DirectOutcome, TypeInv, TypeOK
<1> QED
  BY <1>1, <1>2, <1>3 DEF DirectOutcome, TypeInv, TypeOK, OpShape, fileVars, threadVars

LEMMA PropagationStepType ==
    ASSUME TypeInv, NEW w \in Workers, PropagationStep(w)
    PROVE  TypeInv'
<1> DEFINE j == Head(queue[w])
<1>j. /\ queue[w] # <<>> /\ j \in Job /\ Tail(queue[w]) \in Seq(Job)
      /\ "propagation" \in DeliveryMethod
  BY HeadType DEF PropagationStep, NodeAccepted, NodeFailed, ReplicationComplete, FinalFailure,
     DeliveryMethod
<1>f. /\ j.m \in OutIds /\ j.targets \in SUBSET Nodes /\ j.todo \in SUBSET Nodes
      /\ j.ok \in Nat
  BY <1>j DEF Job
<1>q. [queue EXCEPT ![w] = Tail(@)] \in [Workers -> Seq(Job)]
  BY <1>j DEF TypeInv, TypeOK
<1>1. ASSUME NEW n \in Nodes, NodeAccepted(w, n)
      PROVE  TypeInv'
  <2>1. pipe' \in [Workers -> Seq(Report)]
    BY <1>j, <1>f, <1>1, EventType, EmitType DEF NodeAccepted
  <2>a. \A left \in SUBSET Nodes, ok \in Nat : [j EXCEPT !.todo = left, !.ok = ok] \in Job
    BY <1>j DEF Job
  <2>2. [j EXCEPT !.todo = j.todo \ {n}, !.ok = j.ok + 1] \in Job
    <3>1. j.todo \ {n} \in SUBSET Nodes /\ j.ok + 1 \in Nat
      BY <1>f
    <3> HIDE DEF j
    <3> QED
      BY <2>a, <3>1
  <2>3. queue' \in [Workers -> Seq(Job)]
    BY <1>j, <1>1, <2>2, ContinueType DEF NodeAccepted
  <2>4. nodesOf' \in [OutIds -> SUBSET Nodes]
    BY <1>f, <1>1 DEF NodeAccepted, TypeInv, TypeOK
  <2> QED
    BY <1>1, <2>1, <2>3, <2>4 DEF NodeAccepted, TypeInv, TypeOK, OpShape, fileVars, threadVars
<1>2. ASSUME NEW n \in Nodes, NodeFailed(w, n)
      PROVE  TypeInv'
  <2>1. pipe' \in [Workers -> Seq(Report)]
    BY <1>j, <1>f, <1>2, EventType, EmitType DEF NodeFailed
  <2>2. \A rest \in {j.todo \ {n}, {}} : [j EXCEPT !.todo = rest] \in Job
    BY <1>j, <1>f DEF Job
  <2>3. queue' \in [Workers -> Seq(Job)]
    BY <1>j, <1>2, <2>2, ContinueType DEF NodeFailed
  <2> QED
    BY <1>2, <2>1, <2>3
    DEF NodeFailed, TypeInv, TypeOK, OpShape, fileVars, threadVars, historyVars
<1>3. ASSUME ReplicationComplete(w)
      PROVE  TypeInv'
  <2>1. pipe' \in [Workers -> Seq(Report)]
    BY <1>j, <1>f, <1>3, EventType, EmitType DEF ReplicationComplete
  <2>2. [j EXCEPT !.complete = TRUE] \in Job
    BY <1>j DEF Job
  <2>3. queue' \in [Workers -> Seq(Job)]
    BY <1>j, <1>q, <1>3, <2>2, ContinueType DEF ReplicationComplete
  <2> QED
    BY <1>3, <2>1, <2>3
    DEF ReplicationComplete, TypeInv, TypeOK, OpShape, fileVars, threadVars, historyVars
<1>4. ASSUME FinalFailure(w)
      PROVE  TypeInv'
  <2>1. pipe' \in [Workers -> Seq(Report)]
    BY <1>j, <1>f, <1>4, EventType, EmitType DEF FinalFailure
  <2> QED
    BY <1>4, <1>q, <2>1
    DEF FinalFailure, TypeInv, TypeOK, OpShape, fileVars, threadVars, historyVars
<1> QED
  BY <1>1, <1>2, <1>3, <1>4 DEF PropagationStep

LEMMA OutputStepType ==
    ASSUME TypeInv, NEW w \in Workers, OutputStep(w)
    PROVE  TypeInv'
<1>t. w \in Threads
  BY ThreadSets
<1>1. CASE ReadEvent(w)
  <2>1. Head(pipe[w]) \in Report /\ Tail(pipe[w]) \in Seq(Report)
    BY <1>1, HeadType DEF ReadEvent
  <2>2. Begin(w, Head(pipe[w]), "read") /\ pipe' \in [Workers -> Seq(Report)]
    BY <1>1, <2>1 DEF ReadEvent, TypeInv, TypeOK
  <2>3. /\ op' \in [Threads -> Op]
        /\ pc' \in [Threads -> {"idle", "read", "truncate", "write", "control", "wait", "done"}]
        /\ OpShape'
    BY <1>t, <2>1, <2>2, BeginType DEF Report
  <2> QED
    BY <1>1, <2>2, <2>3 DEF ReadEvent, TypeInv, TypeOK, fileVars, workerVars, historyVars
<1>2. CASE ReadExit(w)
  <2>1. PlainOp("workerexit", AnyMsg) \in Op /\ PlainOp("workerexit", AnyMsg).kind = "workerexit"
    BY PlainOpType, AnyMsgType DEF PlainOp, OpKind
  <2>2. Begin(w, PlainOp("workerexit", AnyMsg), "read")
    BY <1>2 DEF ReadExit
  <2>3. /\ op' \in [Threads -> Op]
        /\ pc' \in [Threads -> {"idle", "read", "truncate", "write", "control", "wait", "done"}]
        /\ OpShape'
    BY <1>t, <2>1, <2>2, BeginType
  <2> QED
    BY <1>2, <2>3 DEF ReadExit, TypeInv, TypeOK, fileVars, workerVars, historyVars
<1> QED
  BY <1>1, <1>2 DEF OutputStep

LEMMA WorkerLifeType ==
    ASSUME TypeInv, NEW w \in Workers,
           WorkerExit(w) \/ StartWorker(w) \/ \E m \in InIds : ReceiveMessage(w, m)
    PROVE  TypeInv'
<1>1. CASE WorkerExit(w)
  BY <1>1 DEF WorkerExit, TypeInv, TypeOK, OpShape, fileVars, threadVars, historyVars
<1>2. CASE StartWorker(w)
  BY <1>2 DEF StartWorker, TypeInv, TypeOK, OpShape, fileVars, threadVars, historyVars
<1>3. ASSUME NEW m \in InIds, ReceiveMessage(w, m)
      PROVE  TypeInv'
  <2>1. PlainOp("received", m) \in Report
    BY ThreadSets, PlainOpType DEF Report, PlainOp, OpKind
  <2>2. pipe' \in [Workers -> Seq(Report)]
    BY <1>3, <2>1, EmitType DEF ReceiveMessage
  <2> QED
    BY <1>3, <2>2
    DEF ReceiveMessage, TypeInv, TypeOK, OpShape, fileVars, threadVars, workerVars, historyVars
<1> QED
  BY <1>1, <1>2, <1>3

LEMMA RestartType ==
    ASSUME TypeInv, RestartController
    PROVE  TypeInv'
<1>1. /\ NoOp \in Op /\ NoOp.kind = "clear"
      /\ PlainOp("restart", AnyMsg) \in Op /\ PlainOp("restart", AnyMsg).kind = "restart"
  BY NoOpType, PlainOpType, AnyMsgType DEF NoOp, PlainOp, OpKind
<1>2. /\ op' \in [Threads -> Op]
      /\ pc' \in [Threads -> {"idle", "read", "truncate", "write", "control", "wait", "done"}]
      /\ OpShape'
  BY <1>1 DEF RestartController, OpShape
<1>3. /\ out' \in [Threads -> Conversation]
      /\ reply' \in [Threads -> {"none", "queued", "error"}]
      /\ status' \in [Workers -> {"unused", "running", "exited"}]
  BY NoMessagesType DEF RestartController, TypeInv, TypeOK
<1>4. /\ requests' \in [Workers -> Seq(Request)] /\ queue' \in [Workers -> Seq(Job)]
      /\ pipe' \in [Workers -> Seq(Report)] /\ direct' \in [Workers -> [OutIds -> Nat]]
  BY DEF RestartController
<1>5. spent' \in [repeats : Nat, removals : Nat, restarts : Nat]
  BY SpentType DEF RestartController
<1>6. stale' \subseteq Threads /\ disturbed' \in BOOLEAN
  BY DEF RestartController
<1> QED
  BY <1>2, <1>3, <1>4, <1>5, <1>6 DEF RestartController, TypeInv, TypeOK, fileVars

LEMMA NextType == TypeInv /\ [Next]_vars => TypeInv'
<1> SUFFICES ASSUME TypeInv, [Next]_vars PROVE TypeInv'
  OBVIOUS
<1>1. CASE \E t \in Threads : StoreStep(t)
  BY <1>1, StoreReadType, StoreReadFailsType, StoreTruncateType, StoreWriteType DEF StoreStep
<1>2. CASE \E t \in Http : User(t) \/ HttpStep(t)
  BY <1>2, UserType, HttpStepType
<1>3. CASE \E w \in Workers : ControlStep(w) \/ DirectStep(w) \/ PropagationStep(w) \/ OutputStep(w)
  BY <1>3, ControlStepType, DirectStepType, PropagationStepType, OutputStepType
<1>4. CASE \E w \in Workers : \/ \E m \in InIds : ReceiveMessage(w, m)
                              \/ WorkerExit(w) \/ StartWorker(w)
  BY <1>4, WorkerLifeType
<1>5. CASE RestartController
  BY <1>5, RestartType
<1>6. CASE UNCHANGED vars
  BY <1>6 DEF vars, TypeInv, TypeOK, OpShape
<1> QED
  BY <1>1, <1>2, <1>3, <1>4, <1>5, <1>6 DEF Next

(* Every variable of the system keeps its type.                            *)
THEOREM TypeCorrect == Spec => []TypeOK
<1>1. TypeInv => TypeOK
  BY DEF TypeInv
<1> QED
  BY <1>1, InitType, NextType, PTL DEF Spec

-----------------------------------------------------------------------------
(* How a step changes the lists: the file gets a list some thread had      *)
(* ready, and a thread gets what its operation makes of the file.          *)
ListsChange ==
    /\ messages' = messages \/ \E t \in Threads : messages' = out[t]
    /\ \A u \in Threads :
          \/ out'[u] \in {out[u], NoMessages}
          \/ Writes(op[u], messages) /\ out'[u] = Written(op[u], messages)

LEMMA ListStep == TypeInv /\ [Next]_vars => ListsChange
<1> SUFFICES ASSUME TypeInv, [Next]_vars PROVE ListsChange
  OBVIOUS
<1>o. out \in [Threads -> Conversation]
  BY DEF TypeInv, TypeOK
<1>1. ASSUME NEW t \in Threads, StoreStep(t)
      PROVE  ListsChange
  <2>1. CASE StoreRead(t)
    BY <1>o, <2>1 DEF ListsChange, StoreRead, Finish, fileVars
  <2>2. CASE StoreReadFails(t)
    BY <1>o, <2>2 DEF ListsChange, StoreReadFails, Finish, fileVars
  <2>3. CASE StoreTruncate(t)
    BY <2>3 DEF ListsChange, StoreTruncate
  <2>4. CASE StoreWrite(t)
    BY <1>o, <2>4 DEF ListsChange, StoreWrite, AfterWrite, Finish
  <2> QED
    BY <1>1, <2>1, <2>2, <2>3, <2>4 DEF StoreStep
<1>2. ASSUME NEW t \in Http, User(t)
      PROVE  ListsChange
  <2>1. messages' = messages
    BY <1>2 DEF User, SendMessage, RepeatMessage, RemoveMessage, ClearMessages, fileVars
  <2>2. CASE ClearMessages(t)
    BY <1>o, <2>1, <2>2 DEF ListsChange, ClearMessages
  <2>3. CASE ~ClearMessages(t)
    <3>1. out' = out
      BY <1>2, <2>3 DEF User, SendMessage, RepeatMessage, RemoveMessage
    <3> QED
      BY <2>1, <3>1 DEF ListsChange
  <2> QED
    BY <2>2, <2>3
<1>3. ASSUME NEW t \in Http, HttpStep(t)
      PROVE  ListsChange
  BY <1>3 DEF ListsChange, HttpStep, SubmitRequest, SubmitFails, ReplyQueued, ReplyFailed, ReplyTimeout,
     fileVars
<1>4. ASSUME NEW w \in Workers, ControlStep(w) \/ DirectStep(w)
      PROVE  ListsChange
  BY <1>4 DEF ListsChange, ControlStep, AcceptRequest, RefuseRequest, DirectStep, DirectOutcome, fileVars,
     threadVars
<1>5. ASSUME NEW w \in Workers, PropagationStep(w)
      PROVE  ListsChange
  BY <1>5 DEF ListsChange, PropagationStep, NodeAccepted, NodeFailed, ReplicationComplete, FinalFailure,
     fileVars, threadVars
<1>6. ASSUME NEW w \in Workers, \/ OutputStep(w)
                                \/ \E m \in InIds : ReceiveMessage(w, m)
                                \/ WorkerExit(w) \/ StartWorker(w)
      PROVE  ListsChange
  BY <1>6 DEF ListsChange, OutputStep, ReadEvent, ReadExit, ReceiveMessage, WorkerExit, StartWorker,
     fileVars, threadVars
<1>7. CASE RestartController
  BY <1>7 DEF ListsChange, RestartController, fileVars
<1>8. CASE UNCHANGED vars
  BY <1>8 DEF ListsChange, vars
<1>9. CASE \E t \in Http : User(t) \/ HttpStep(t)
  BY <1>9, <1>2, <1>3
<1>10. CASE \E w \in Workers : ControlStep(w) \/ DirectStep(w) \/ PropagationStep(w) \/ OutputStep(w)
  BY <1>10, <1>4, <1>5, <1>6
<1>11. CASE \E w \in Workers : \/ \E m \in InIds : ReceiveMessage(w, m)
                               \/ WorkerExit(w) \/ StartWorker(w)
  BY <1>11, <1>6
<1>12. CASE \E t \in Threads : StoreStep(t)
  BY <1>12, <1>1
<1> QED
  BY <1>7, <1>8, <1>9, <1>10, <1>11, <1>12 DEF Next

-----------------------------------------------------------------------------
(* An error text is shown exactly with the messages marked failed, in the  *)
(* file and in every list about to be written, however operations overlap. *)
THEOREM ErrorsCorrect == Spec => []ErrorMatchesState
<1> DEFINE Shown == ErrorsShown(messages) /\ \A t \in Threads : ErrorsShown(out[t])
<1>e. ErrorsShown(NoMessages)
  BY DEF ErrorsShown, NoMessages, NoMessage
<1>1. Init => Shown
  BY <1>e DEF Init
<1>2. TypeInv /\ Shown /\ [Next]_vars => Shown'
  <2> SUFFICES ASSUME TypeInv, Shown, [Next]_vars PROVE Shown'
    OBVIOUS
  <2>1. messages \in Conversation /\ op \in [Threads -> Op]
    BY DEF TypeInv, TypeOK
  <2>2. ErrorsShown(messages')
    BY ListStep DEF ListsChange
  <2>3. ASSUME NEW u \in Threads
        PROVE  ErrorsShown(out'[u])
    BY <1>e, <2>1, ListStep, WrittenErrors DEF ListsChange
  <2>4. (\A u \in Threads : ErrorsShown(out[u]))'
    BY <2>3 DEF ErrorsShown
  <2> QED
    BY <2>2, <2>4 DEF ErrorsShown
<1>3. Shown => ErrorMatchesState
  BY DEF ErrorsShown, ErrorMatchesState
<1> QED
  BY <1>1, <1>2, <1>3, InitType, NextType, PTL DEF Spec

(* propagation_nodes and propagation_results of every record agree on who  *)
(* accepted, however operations overlap and whenever the controller dies.  *)
THEOREM ResultsCorrect == Spec => []ResultsMatchNodes
<1> DEFINE Agree == ResultsAgree(messages) /\ \A t \in Threads : ResultsAgree(out[t])
<1>e. ResultsAgree(NoMessages)
  BY DEF ResultsAgree, NoMessages, NoMessage
<1>1. Init => Agree
  BY <1>e DEF Init
<1>2. TypeInv /\ Agree /\ [Next]_vars => Agree'
  <2> SUFFICES ASSUME TypeInv, Agree, [Next]_vars PROVE Agree'
    OBVIOUS
  <2>1. messages \in Conversation /\ op \in [Threads -> Op]
    BY DEF TypeInv, TypeOK
  <2>2. ResultsAgree(messages')
    BY ListStep DEF ListsChange
  <2>3. ASSUME NEW u \in Threads
        PROVE  ResultsAgree(out'[u])
    BY <1>e, <2>1, ListStep, WrittenResults DEF ListsChange
  <2> QED
    BY <2>2, <2>3 DEF ResultsAgree
<1>3. Agree => ResultsMatchNodes
  BY DEF ResultsAgree, ResultsMatchNodes
<1> QED
  BY <1>1, <1>2, <1>3, InitType, NextType, PTL DEF Spec

-----------------------------------------------------------------------------
(* Successes are backed: an event of success that is not yet applied was   *)
(* seen by a worker, and so was every success in a list; only inbound      *)
(* messages are received.                                                  *)
Backed(e, confirmed, accepting) ==
    /\ e.kind = "delivered" => e.m \in confirmed
    /\ e.kind = "propagated" => /\ e.m \in OutIds /\ e.targets # {}
                                /\ e.targets \subseteq accepting[e.m]
    /\ e.kind = "received" => e.m \in InIds

Evidence ==
    /\ Reported(messages, OutIds, delivered, nodesOf)
    /\ \A t \in Threads : /\ Reported(out[t], OutIds, delivered, nodesOf)
                          /\ Backed(op[t], delivered, nodesOf)
    /\ \A w \in Workers : \A i \in 1 .. Len(pipe[w]) : Backed(pipe[w][i], delivered, nodesOf)

(* The histories only grow. *)
LEMMA HistoryGrows ==
    TypeInv /\ [Next]_vars =>
        delivered \subseteq delivered' /\ \A m \in OutIds : nodesOf[m] \subseteq nodesOf'[m]
<1> SUFFICES ASSUME TypeInv, [Next]_vars
             PROVE  delivered \subseteq delivered' /\ \A m \in OutIds : nodesOf[m] \subseteq nodesOf'[m]
  OBVIOUS
<1>n. nodesOf \in [OutIds -> SUBSET Nodes]
  BY DEF TypeInv, TypeOK
<1>1. CASE \E t \in Threads : StoreStep(t)
  BY <1>1 DEF StoreStep, StoreRead, StoreReadFails, StoreTruncate, StoreWrite, historyVars
<1>2. CASE \E t \in Http : User(t) \/ HttpStep(t)
  BY <1>2 DEF User, SendMessage, RepeatMessage, RemoveMessage, ClearMessages, HttpStep,
     SubmitRequest, SubmitFails, ReplyQueued, ReplyFailed, ReplyTimeout, historyVars
<1>3. CASE \E w \in Workers : ControlStep(w) \/ DirectStep(w)
  BY <1>3 DEF ControlStep, AcceptRequest, RefuseRequest, DirectStep, DirectOutcome, historyVars
<1>4. CASE \E w \in Workers : PropagationStep(w)
  BY <1>n, <1>4 DEF PropagationStep, NodeAccepted, NodeFailed, ReplicationComplete, FinalFailure,
     historyVars
<1>5. CASE \E w \in Workers : \/ OutputStep(w)
                              \/ \E m \in InIds : ReceiveMessage(w, m)
                              \/ WorkerExit(w) \/ StartWorker(w)
  BY <1>5 DEF OutputStep, ReadEvent, ReadExit, ReceiveMessage, WorkerExit, StartWorker, historyVars
<1>6. CASE RestartController \/ UNCHANGED vars
  BY <1>6 DEF RestartController, vars
<1> QED
  BY <1>1, <1>2, <1>3, <1>4, <1>5, <1>6 DEF Next

(* A thread's new operation is its old one, no report, or the next         *)
(* event of its worker.                                                    *)
OpChange ==
    \A t \in Threads :
        \/ op'[t] = op[t]
        \/ op'[t].kind \notin {"delivered", "propagated", "received", "nodefailed", "complete"}
        \/ t \in Workers /\ pipe[t] # <<>> /\ op'[t] = Head(pipe[t])

LEMMA OpStep == TypeInv /\ [Next]_vars => OpChange
<1> SUFFICES ASSUME TypeInv, [Next]_vars PROVE OpChange
  OBVIOUS
<1>o. op \in [Threads -> Op] /\ Op = [kind : OpKind, m : MsgIds, method : DeliveryMethod,
                                      targets : SUBSET Nodes, ok : Nat]
  BY DEF TypeInv, TypeOK, Op
<1>n. NoOp.kind = "clear"
  BY DEF NoOp, PlainOp
<1>k. \A t \in Threads, kind \in STRING :
          [op[t] EXCEPT !.kind = kind].kind = kind
  BY <1>o
<1>1. ASSUME NEW t \in Threads, StoreStep(t)
      PROVE  OpChange
  BY <1>o, <1>n, <1>k, <1>1 DEF OpChange, StoreStep, StoreRead, StoreReadFails, StoreTruncate,
     StoreWrite, AfterWrite, Finish, Begin
<1>2. ASSUME NEW t \in Http, User(t)
      PROVE  OpChange
  BY <1>o, <1>2 DEF OpChange, User, SendMessage, RepeatMessage, RemoveMessage, ClearMessages,
     Begin, OutOp, PlainOp
<1>3. ASSUME NEW t \in Http, HttpStep(t)
      PROVE  OpChange
  BY <1>o, <1>k, <1>3, ThreadSets DEF OpChange, HttpStep, SubmitRequest, SubmitFails, ReplyQueued,
     ReplyFailed, ReplyTimeout, FailedSend, Begin
<1>4. ASSUME NEW w \in Workers, ControlStep(w) \/ DirectStep(w) \/ PropagationStep(w)
      PROVE  OpChange
  BY <1>4 DEF OpChange, ControlStep, AcceptRequest, RefuseRequest, DirectStep, DirectOutcome,
     PropagationStep, NodeAccepted, NodeFailed, ReplicationComplete, FinalFailure, threadVars
<1>5. ASSUME NEW w \in Workers, OutputStep(w)
      PROVE  OpChange
  BY <1>o, <1>5 DEF OpChange, OutputStep, ReadEvent, ReadExit, Begin, PlainOp
<1>6. ASSUME NEW w \in Workers, \/ \E m \in InIds : ReceiveMessage(w, m)
                                \/ WorkerExit(w) \/ StartWorker(w)
      PROVE  OpChange
  BY <1>6 DEF OpChange, ReceiveMessage, WorkerExit, StartWorker, threadVars
<1>7. CASE RestartController
  BY <1>n, <1>7 DEF OpChange, RestartController, PlainOp
<1>8. CASE UNCHANGED vars
  BY <1>8 DEF OpChange, vars
<1>9. CASE \E t \in Threads : StoreStep(t)
  BY <1>9, <1>1
<1>10. CASE \E t \in Http : User(t) \/ HttpStep(t)
  BY <1>10, <1>2, <1>3
<1>11. CASE \E w \in Workers : ControlStep(w) \/ DirectStep(w) \/ PropagationStep(w) \/ OutputStep(w)
  BY <1>11, <1>4, <1>5
<1>12. CASE \E w \in Workers : \/ \E m \in InIds : ReceiveMessage(w, m)
                               \/ WorkerExit(w) \/ StartWorker(w)
  BY <1>12, <1>6
<1> QED
  BY <1>7, <1>8, <1>9, <1>10, <1>11, <1>12 DEF Next

(* A worker's output loses its first event, is lost, or gains an event     *)
(* that is backed by then.                                                 *)
PipeChange ==
    \A w \in Workers :
        \/ pipe'[w] \in {pipe[w], <<>>}
        \/ pipe[w] # <<>> /\ pipe'[w] = Tail(pipe[w])
        \/ \E e \in Report : pipe'[w] = Append(pipe[w], e) /\ Backed(e, delivered', nodesOf')

LEMMA PipeStep == TypeInv /\ [Next]_vars => PipeChange
<1> SUFFICES ASSUME TypeInv, [Next]_vars PROVE PipeChange
  OBVIOUS
<1>p. pipe \in [Workers -> Seq(Report)]
  BY DEF TypeInv, TypeOK
<1>e. ASSUME NEW w \in Workers, NEW e \in Report, Emit(w, e), Backed(e, delivered', nodesOf')
      PROVE  PipeChange
  BY <1>p, <1>e DEF PipeChange, Emit
<1>s. pipe' = pipe => PipeChange
  BY DEF PipeChange
<1>1. CASE \E t \in Threads : StoreStep(t)
  BY <1>s, <1>1 DEF StoreStep, StoreRead, StoreReadFails, StoreTruncate, StoreWrite
<1>2. CASE \E t \in Http : User(t) \/ HttpStep(t)
  BY <1>s, <1>2 DEF User, SendMessage, RepeatMessage, RemoveMessage, ClearMessages, HttpStep,
     SubmitRequest, SubmitFails, ReplyQueued, ReplyFailed, ReplyTimeout
<1>3. CASE \E w \in Workers : ControlStep(w) \/ WorkerExit(w) \/ StartWorker(w)
  BY <1>s, <1>3 DEF ControlStep, AcceptRequest, RefuseRequest, WorkerExit, StartWorker
<1>4. ASSUME NEW w \in Workers, DirectStep(w)
      PROVE  PipeChange
  <2> PICK m \in OutIds, kind \in {"delivered", "failed"} : DirectOutcome(w, m, kind)
    BY <1>4 DEF DirectStep
  <2> DEFINE e == Event(kind, m, "direct", {}, 0)
  <2>1. e \in Report
    BY EventType DEF DeliveryMethod
  <2>2. Emit(w, e) /\ Backed(e, delivered', nodesOf')
    BY DEF DirectOutcome, Backed, Event
  <2> QED
    BY <2>1, <2>2, <1>e
<1>5. ASSUME NEW w \in Workers, PropagationStep(w)
      PROVE  PipeChange
  <2> DEFINE j == Head(queue[w])
  <2>j. /\ j.m \in OutIds /\ j.targets \in SUBSET Nodes /\ j.ok \in Nat
        /\ "propagation" \in DeliveryMethod
    BY <1>5, HeadType DEF PropagationStep, NodeAccepted, NodeFailed, ReplicationComplete,
       FinalFailure, DeliveryMethod, Job
  <2>1. ASSUME NEW n \in Nodes, NodeAccepted(w, n)
        PROVE  PipeChange
    <3> DEFINE e == Event("propagated", j.m, "propagation", {n}, 0)
    <3>1. e \in Report
      BY <2>j, EventType
    <3>2. n \in nodesOf'[j.m]
      BY <2>j, <2>1 DEF NodeAccepted, TypeInv, TypeOK
    <3>3. Emit(w, e) /\ Backed(e, delivered', nodesOf')
      BY <2>j, <2>1, <3>2 DEF NodeAccepted, Backed, Event
    <3> QED
      BY <3>1, <3>3, <1>e
  <2>2. ASSUME NEW n \in Nodes, NodeFailed(w, n)
        PROVE  PipeChange
    <3> DEFINE e == Event("nodefailed", j.m, "propagation", {n}, 0)
    <3>1. e \in Report
      BY <2>j, EventType
    <3>2. Emit(w, e) /\ Backed(e, delivered', nodesOf')
      BY <2>2 DEF NodeFailed, Backed, Event
    <3> QED
      BY <3>1, <3>2, <1>e
  <2>3. CASE ReplicationComplete(w)
    <3> DEFINE e == Event("complete", j.m, "propagation", j.targets, j.ok)
    <3>1. e \in Report
      BY <2>j, EventType
    <3>2. Emit(w, e) /\ Backed(e, delivered', nodesOf')
      BY <2>3 DEF ReplicationComplete, Backed, Event
    <3> QED
      BY <3>1, <3>2, <1>e
  <2>4. CASE FinalFailure(w)
    <3> DEFINE e == Event("failed", j.m, "propagation", {}, 0)
    <3>1. e \in Report
      BY <2>j, EventType
    <3>2. Emit(w, e) /\ Backed(e, delivered', nodesOf')
      BY <2>4 DEF FinalFailure, Backed, Event
    <3> QED
      BY <3>1, <3>2, <1>e
  <2> QED
    BY <1>5, <2>1, <2>2, <2>3, <2>4 DEF PropagationStep
<1>6. CASE \E w \in Workers : OutputStep(w)
  BY <1>p, <1>6 DEF PipeChange, OutputStep, ReadEvent, ReadExit
<1>7. ASSUME NEW w \in Workers, NEW m \in InIds, ReceiveMessage(w, m)
      PROVE  PipeChange
  <2> DEFINE e == PlainOp("received", m)
  <2>1. e \in Report
    BY ThreadSets, PlainOpType DEF Report, PlainOp, OpKind
  <2>2. Emit(w, e) /\ Backed(e, delivered', nodesOf')
    BY <1>7 DEF ReceiveMessage, Backed, PlainOp
  <2> QED
    BY <2>1, <2>2, <1>e
<1>8. CASE RestartController
  BY <1>8 DEF PipeChange, RestartController
<1>9. CASE UNCHANGED vars
  BY <1>s, <1>9 DEF vars
<1>10. CASE \E w \in Workers : ControlStep(w) \/ DirectStep(w) \/ PropagationStep(w) \/ OutputStep(w)
  BY <1>10, <1>3, <1>4, <1>5, <1>6
<1>11. CASE \E w \in Workers : \/ \E m \in InIds : ReceiveMessage(w, m)
                               \/ WorkerExit(w) \/ StartWorker(w)
  BY <1>11, <1>3, <1>7
<1> QED
  BY <1>1, <1>2, <1>8, <1>9, <1>10, <1>11 DEF Next

LEMMA NothingReported ==
    ASSUME NEW confirmed, NEW accepting
    PROVE  Reported(NoMessages, OutIds, confirmed, accepting)
  BY ThreadSets DEF Reported, NoMessages, NoMessage

LEMMA EvidenceStep == TypeInv /\ Evidence /\ [Next]_vars => Evidence'
<1> SUFFICES ASSUME TypeInv, Evidence, [Next]_vars PROVE Evidence'
  OBVIOUS
<1>t. /\ messages \in Conversation /\ op \in [Threads -> Op]
      /\ pipe \in [Workers -> Seq(Report)]
  BY DEF TypeInv, TypeOK
<1>g. delivered \subseteq delivered' /\ \A m \in OutIds : nodesOf[m] \subseteq nodesOf'[m]
  BY HistoryGrows
<1>b. ASSUME NEW e, Backed(e, delivered, nodesOf)
      PROVE  Backed(e, delivered', nodesOf')
  BY <1>g, <1>b DEF Backed
<1>r. ASSUME NEW c, Reported(c, OutIds, delivered, nodesOf)
      PROVE  Reported(c, OutIds, delivered', nodesOf')
  BY <1>g, <1>r DEF Reported
<1>1. Reported(messages', OutIds, delivered', nodesOf')
  <2>1. Reported(messages', OutIds, delivered, nodesOf)
    BY ListStep DEF ListsChange, Evidence
  <2> QED
    BY <2>1, <1>r
<1>2. ASSUME NEW u \in Threads
      PROVE  Reported(out'[u], OutIds, delivered', nodesOf')
  <2>1. CASE out'[u] = out[u]
    BY <2>1, <1>r DEF Evidence
  <2>2. CASE out'[u] = NoMessages
    BY <2>2, NothingReported
  <2>3. CASE out'[u] = Written(op[u], messages)
    <3>1. op[u] \in Op /\ OutIds \in SUBSET MsgIds
      BY <1>t, ThreadSets
    <3>2. Reported(out'[u], OutIds, delivered, nodesOf)
      BY <2>3, <1>t, <3>1, WrittenReported DEF Evidence, Backed
    <3> QED
      BY <3>2, <1>r
  <2> QED
    BY <2>1, <2>2, <2>3, ListStep DEF ListsChange
<1>3. ASSUME NEW u \in Threads
      PROVE  Backed(op'[u], delivered', nodesOf')
  <2>1. CASE op'[u] = op[u]
    BY <2>1, <1>b DEF Evidence, Backed
  <2>2. CASE op'[u].kind \notin {"delivered", "propagated", "received"}
    BY <2>2 DEF Backed
  <2>3. CASE u \in Workers /\ pipe[u] # <<>> /\ op'[u] = Head(pipe[u])
    <3>1. Head(pipe[u]) = pipe[u][1] /\ 1 \in 1 .. Len(pipe[u])
      BY <1>t, <2>3
    <3>2. Backed(pipe[u][1], delivered, nodesOf)
      BY <2>3, <3>1 DEF Evidence
    <3> QED
      BY <2>3, <3>1, <3>2, <1>b DEF Backed
  <2> QED
    BY <2>1, <2>2, <2>3, OpStep DEF OpChange
<1>4. ASSUME NEW w \in Workers, NEW i \in 1 .. Len(pipe'[w])
      PROVE  Backed(pipe'[w][i], delivered', nodesOf')
  <2>p. pipe[w] \in Seq(Report) /\ \A k \in 1 .. Len(pipe[w]) : Backed(pipe[w][k], delivered, nodesOf)
    BY <1>t DEF Evidence
  <2>1. CASE pipe'[w] = pipe[w]
    <3>1. Backed(pipe[w][i], delivered, nodesOf)
      BY <2>p, <2>1
    <3> QED
      BY <2>1, <3>1, <1>b DEF Backed
  <2>2. CASE pipe'[w] = <<>>
    BY <2>2
  <2>3. CASE pipe[w] # <<>> /\ pipe'[w] = Tail(pipe[w])
    <3>1. pipe'[w][i] = pipe[w][i + 1] /\ i + 1 \in 1 .. Len(pipe[w])
      BY <2>p, <2>3
    <3>2. Backed(pipe[w][i + 1], delivered, nodesOf)
      BY <2>p, <3>1
    <3> QED
      BY <3>1, <3>2, <1>b DEF Backed
  <2>4. ASSUME NEW e \in Report, pipe'[w] = Append(pipe[w], e), Backed(e, delivered', nodesOf')
        PROVE  Backed(pipe'[w][i], delivered', nodesOf')
    <3>1. CASE i \in 1 .. Len(pipe[w])
      <4>1. pipe'[w][i] = pipe[w][i] /\ Backed(pipe[w][i], delivered, nodesOf)
        BY <2>p, <2>4, <3>1
      <4> QED
        BY <4>1, <1>b DEF Backed
    <3>2. CASE i \notin 1 .. Len(pipe[w])
      <4>1. pipe'[w][i] = e
        BY <2>p, <2>4, <3>2
      <4> QED
        BY <2>4, <4>1 DEF Backed
    <3> QED
      BY <3>1, <3>2
  <2> QED
    BY <2>1, <2>2, <2>3, <2>4, PipeStep DEF PipeChange
<1> QED
  BY <1>1, <1>2, <1>3, <1>4 DEF Evidence

LEMMA InitEvidence == Init => Evidence
<1> SUFFICES ASSUME Init PROVE Evidence
  OBVIOUS
<1>1. Reported(NoMessages, OutIds, delivered, nodesOf)
  BY NothingReported
<1>2. Backed(NoOp, delivered, nodesOf)
  BY DEF Backed, NoOp, PlainOp
<1>3. \A w \in Workers : Len(pipe[w]) = 0
  BY DEF Init
<1>4. \A t \in Threads : op[t] = NoOp /\ out[t] = NoMessages
  BY DEF Init
<1>5. messages = NoMessages
  BY DEF Init
<1> QED
  BY <1>1, <1>2, <1>3, <1>4, <1>5 DEF Evidence

(* A message is shown as delivered only if LXMF confirmed its delivery, as *)
(* propagated only with nodes that accepted it, whatever overlaps, however *)
(* late an event is applied and whenever the controller dies.              *)
THEOREM SuccessCorrect == Spec => []SuccessWasReported
<1>1. Evidence => SuccessWasReported
  BY DEF Evidence, Reported, SuccessWasReported
<1> QED
  BY <1>1, InitEvidence, EvidenceStep, InitType, NextType, PTL DEF Spec

-----------------------------------------------------------------------------
(* The file, while no two accesses have overlapped: one thread at most     *)
(* writes it, the lists that others have ready are known to be overtaken,  *)
(* and every other list is what its operation makes of the file as it is.  *)
Fresh(t) == Writes(op[t], messages) /\ out[t] = Written(op[t], messages)

Alone(t) ==
    \A u \in Threads \ {t} :
        /\ pc[u] # "write"
        /\ pc[u] = "truncate" => op[u].kind = "clear" \/ u \in stale

FileSound ==
    /\ disk # "whole" => \E t \in Threads : pc[t] = "write"
    /\ \A t \in Threads : pc[t] = "write" => disk = "empty" /\ Alone(t) /\ Fresh(t)
    /\ \A t \in Threads : pc[t] = "truncate" /\ t \notin stale => Fresh(t)

\* A step of one thread that is not writing and will not write by it.
LEMMA FileOther ==
    ASSUME TypeInv, FileSound, NEW t \in Threads, pc[t] # "write", pc'[t] \notin {"truncate", "write"},
           \A u \in Threads \ {t} : pc'[u] = pc[u] /\ op'[u] = op[u] /\ out'[u] = out[u],
           UNCHANGED <<disk, messages, stale>>
    PROVE  FileSound'
<1>1. disk' # "whole" => \E u \in Threads : pc'[u] = "write"
  BY DEF FileSound
<1>2. ASSUME NEW u \in Threads, pc'[u] = "write"
      PROVE  disk' = "empty" /\ Alone(u)' /\ Fresh(u)'
  <2>1. u # t /\ pc[u] = "write"
    BY <1>2
  <2>2. Alone(u)'
    BY <2>1 DEF FileSound, Alone
  <2>3. Fresh(u)'
    BY <2>1 DEF FileSound, Fresh
  <2> QED
    BY <2>1, <2>2, <2>3 DEF FileSound
<1>3. ASSUME NEW u \in Threads, pc'[u] = "truncate", u \notin stale'
      PROVE  Fresh(u)'
  BY <1>3 DEF FileSound, Fresh
<1> QED
  BY <1>1, <1>2, <1>3 DEF FileSound

\* No two accesses overlap in a step after which none has.
LEMMA FileStore ==
    ASSUME TypeInv, FileSound, NEW t \in Threads, StoreStep(t), ~disturbed'
    PROVE  FileSound'
<1>1. /\ pc \in [Threads -> {"idle", "read", "truncate", "write", "control", "wait", "done"}]
      /\ op \in [Threads -> Op] /\ out \in [Threads -> Conversation]
  BY DEF TypeInv, TypeOK
<1>2. CASE StoreRead(t)
  <2>1. UNCHANGED <<disk, messages, stale>> /\ disk = "whole" /\ pc[t] = "read"
    BY <1>2 DEF StoreRead, fileVars, historyVars
  <2>2. \A u \in Threads : pc[u] # "write"
    BY <2>1 DEF FileSound
  <2>3. CASE Writes(op[t], messages)
    <3>1. /\ pc'[t] = "truncate" /\ op' = op /\ out'[t] = Written(op[t], messages)
          /\ \A u \in Threads \ {t} : pc'[u] = pc[u] /\ out'[u] = out[u]
      BY <1>1, <1>2, <2>3 DEF StoreRead
    <3>2. \A u \in Threads : pc'[u] # "write"
      BY <2>2, <3>1
    <3>3. \A u \in Threads : pc'[u] = "truncate" /\ u \notin stale' => Fresh(u)'
      BY <2>1, <2>3, <3>1 DEF FileSound, Fresh
    <3> QED
      BY <2>1, <3>2, <3>3 DEF FileSound
  <2>4. CASE ~Writes(op[t], messages)
    <3>1. /\ pc'[t] \in {"idle", "done"}
          /\ \A u \in Threads \ {t} : pc'[u] = pc[u] /\ op'[u] = op[u] /\ out'[u] = out[u]
      BY <1>1, <1>2, <2>4 DEF StoreRead, Finish, Begin
    <3> QED
      BY <2>1, <2>2, <3>1, FileOther
  <2> QED
    BY <2>3, <2>4
<1>3. CASE StoreReadFails(t)
  BY <1>3 DEF StoreReadFails
<1>4. CASE StoreTruncate(t)
  <2>1. /\ t \notin stale /\ disk = "whole" /\ disk' = "empty" /\ pc[t] = "truncate"
        /\ UNCHANGED <<messages, op, out>> /\ pc'[t] = "write"
        /\ \A u \in Threads \ {t} : pc'[u] = pc[u]
        /\ stale' = (stale \ {t}) \cup
               {u \in Threads \ {t} : pc[u] = "truncate" /\ op[u].kind # "clear"}
    BY <1>1, <1>4 DEF StoreTruncate
  <2>2. \A u \in Threads : pc[u] # "write"
    BY <2>1 DEF FileSound
  <2>3. \A u \in Threads : pc'[u] = "write" => u = t
    BY <2>1, <2>2
  <2>4. Alone(t)'
    BY <2>1, <2>2 DEF Alone
  <2>5. Fresh(t)'
    BY <2>1 DEF FileSound, Fresh
  <2>6. ASSUME NEW u \in Threads, pc'[u] = "truncate", u \notin stale'
        PROVE  Fresh(u)'
    <3>1. u # t /\ pc[u] = "truncate" /\ u \notin stale
      BY <2>1, <2>6
    <3> QED
      BY <2>1, <3>1 DEF FileSound, Fresh
  <2> QED
    BY <2>1, <2>3, <2>4, <2>5, <2>6 DEF FileSound
<1>5. CASE StoreWrite(t)
  <2>1. /\ pc[t] = "write" /\ disk = "empty" /\ Alone(t) /\ disk' = "whole" /\ stale' = stale
    BY <1>5 DEF StoreWrite, FileSound, historyVars
  <2>2. /\ pc'[t] \in {"control", "idle", "done"}
        /\ \A u \in Threads \ {t} : pc'[u] = pc[u] /\ op'[u] = op[u] /\ out'[u] = out[u]
    BY <1>1, <1>5 DEF StoreWrite, AfterWrite, Finish, Begin
  <2>3. \A u \in Threads : pc'[u] # "write"
    BY <2>1, <2>2 DEF Alone
  <2>4. ASSUME NEW u \in Threads, pc'[u] = "truncate", u \notin stale'
        PROVE  Fresh(u)'
    <3>1. u # t /\ pc[u] = "truncate" /\ u \notin stale /\ op[u].kind = "clear"
      BY <2>1, <2>2, <2>4 DEF Alone
    <3>2. out[u] = NoMessages
      BY <3>1 DEF FileSound, Fresh, Written
    <3> QED
      BY <2>2, <3>1, <3>2 DEF Fresh, Writes, Written
  <2> QED
    BY <2>1, <2>3, <2>4 DEF FileSound
<1> QED
  BY <1>2, <1>3, <1>4, <1>5 DEF StoreStep

LEMMA FileNext == TypeInv /\ [Next]_vars /\ (~disturbed => FileSound) => (~disturbed' => FileSound')
<1> SUFFICES ASSUME TypeInv, [Next]_vars, ~disturbed => FileSound, ~disturbed' PROVE FileSound'
  OBVIOUS
<1>t. /\ pc \in [Threads -> {"idle", "read", "truncate", "write", "control", "wait", "done"}]
      /\ op \in [Threads -> Op] /\ out \in [Threads -> Conversation]
  BY DEF TypeInv, TypeOK
<1>f. ASSUME disturbed' = disturbed PROVE FileSound
  BY <1>f
<1>1. ASSUME NEW t \in Threads, StoreStep(t) PROVE FileSound'
  <2>1. ~disturbed
    BY <1>1 DEF StoreStep, StoreRead, StoreReadFails, StoreTruncate, StoreWrite, historyVars
  <2> QED
    BY <1>1, <2>1, FileStore
<1>2. ASSUME NEW t \in Http, User(t) PROVE FileSound'
  <2>1. UNCHANGED <<disk, messages, stale, disturbed>> /\ pc[t] = "idle" /\ t \in Threads
    BY <1>2, ThreadSets DEF User, SendMessage, RepeatMessage, RemoveMessage, ClearMessages, fileVars,
       historyVars
  <2>2. \A u \in Threads \ {t} : pc'[u] = pc[u] /\ op'[u] = op[u] /\ out'[u] = out[u]
    BY <1>t, <1>2 DEF User, SendMessage, RepeatMessage, RemoveMessage, ClearMessages, Begin
  <2>3. CASE ClearMessages(t)
    <3>1. pc'[t] = "truncate" /\ op'[t].kind = "clear" /\ out'[t] = NoMessages
      BY <1>t, <2>1, <2>3 DEF ClearMessages, Begin, PlainOp
    <3>2. Fresh(t)'
      BY <3>1 DEF Fresh, Writes, Written
    <3>3. ASSUME NEW u \in Threads, pc'[u] = "write"
          PROVE  disk' = "empty" /\ Alone(u)' /\ Fresh(u)'
      <4>1. u # t /\ pc[u] = "write"
        BY <2>2, <3>1, <3>3
      <4>2. Alone(u)'
        BY <1>f, <2>1, <2>2, <3>1, <4>1 DEF FileSound, Alone
      <4>3. Fresh(u)'
        BY <1>f, <2>1, <2>2, <4>1 DEF FileSound, Fresh
      <4> QED
        BY <1>f, <2>1, <4>1, <4>2, <4>3 DEF FileSound
    <3>4. ASSUME NEW u \in Threads, pc'[u] = "truncate", u \notin stale'
          PROVE  Fresh(u)'
      <4>1. CASE u # t
        BY <1>f, <2>1, <2>2, <3>4, <4>1 DEF FileSound, Fresh
      <4> QED
        BY <3>2, <4>1
    <3>5. disk' # "whole" => \E u \in Threads : pc'[u] = "write"
      BY <1>f, <2>1, <2>2 DEF FileSound
    <3> QED
      BY <3>3, <3>4, <3>5 DEF FileSound
  <2>4. CASE ~ClearMessages(t)
    <3>1. pc'[t] = "read"
      BY <1>t, <1>2, <2>1, <2>4 DEF User, SendMessage, RepeatMessage, RemoveMessage, Begin
    <3> QED
      BY <1>f, <2>1, <2>2, <3>1, FileOther
  <2> QED
    BY <2>3, <2>4
<1>3. ASSUME NEW t \in Http, HttpStep(t) PROVE FileSound'
  <2>1. UNCHANGED <<disk, messages, out, stale, disturbed>> /\ pc[t] \in {"control", "wait"} /\ t \in Threads
    BY <1>3, ThreadSets DEF HttpStep, SubmitRequest, SubmitFails, ReplyQueued, ReplyFailed, ReplyTimeout,
       fileVars,
       historyVars
  <2>2. /\ pc'[t] \in {"wait", "read"}
        /\ \A u \in Threads \ {t} : pc'[u] = pc[u] /\ op'[u] = op[u]
    BY <1>t, <1>3, <2>1 DEF HttpStep, SubmitRequest, SubmitFails, ReplyQueued, ReplyFailed, ReplyTimeout,
       FailedSend, Begin
  <2> QED
    BY <1>f, <2>1, <2>2, FileOther
<1>4. ASSUME UNCHANGED <<disk, messages, pc, op, out, stale, disturbed>> PROVE FileSound'
  BY <1>4, <1>f DEF FileSound, Alone, Fresh
<1>5. ASSUME NEW w \in Workers, OutputStep(w) PROVE FileSound'
  <2>1. /\ UNCHANGED <<disk, messages, out, stale, disturbed>> /\ pc[w] = "idle" /\ w \in Threads
        /\ pc'[w] = "read" /\ \A u \in Threads \ {w} : pc'[u] = pc[u] /\ op'[u] = op[u]
    BY <1>t, <1>5, ThreadSets DEF OutputStep, ReadEvent, ReadExit, Begin, fileVars, historyVars
  <2> QED
    BY <1>f, <2>1, FileOther
<1>6. ASSUME NEW w \in Workers, ControlStep(w) \/ DirectStep(w) \/ PropagationStep(w) PROVE FileSound'
  BY <1>4, <1>6, Zenon DEF ControlStep, AcceptRequest, RefuseRequest, DirectStep, DirectOutcome, PropagationStep,
     NodeAccepted, NodeFailed, ReplicationComplete, FinalFailure, fileVars, threadVars, historyVars
<1>7. ASSUME NEW w \in Workers, \/ \E m \in InIds : ReceiveMessage(w, m)
                                \/ WorkerExit(w) \/ StartWorker(w)
      PROVE  FileSound'
  BY <1>4, <1>7 DEF ReceiveMessage, WorkerExit, StartWorker, fileVars, threadVars, historyVars
<1>8. CASE RestartController
  <2>1. disk' = "whole" /\ \A u \in Threads : pc'[u] \in {"read", "done", "idle"}
    BY <1>8 DEF RestartController, fileVars
  <2> QED
    BY <2>1 DEF FileSound
<1>9. CASE UNCHANGED vars
  BY <1>4, <1>9 DEF vars
<1>10. CASE \E t \in Http : User(t) \/ HttpStep(t)
  BY <1>10, <1>2, <1>3
<1>11. CASE \E w \in Workers : ControlStep(w) \/ DirectStep(w) \/ PropagationStep(w) \/ OutputStep(w)
  BY <1>11, <1>5, <1>6
<1>12. CASE \E w \in Workers : \/ \E m \in InIds : ReceiveMessage(w, m)
                               \/ WorkerExit(w) \/ StartWorker(w)
  BY <1>12, <1>7
<1>13. CASE \E t \in Threads : StoreStep(t)
  BY <1>13, <1>1
<1> QED
  BY <1>8, <1>9, <1>10, <1>11, <1>12, <1>13 DEF Next

-----------------------------------------------------------------------------
(* A control request belongs to the thread that waits for its answer, or   *)
(* to none; no thread has two.                                             *)
Awaited(r) ==
    r.caller \in Http =>
        pc[r.caller] = "wait" /\ reply[r.caller] = "none" /\ op[r.caller].m = r.m

RequestInv ==
    /\ \A t \in Http : reply[t] # "none" => pc[t] = "wait"
    /\ \A w \in Workers : \A i \in 1 .. Len(requests[w]) : Awaited(requests[w][i])
    /\ \A w, v \in Workers : \A i \in 1 .. Len(requests[w]), j \in 1 .. Len(requests[v]) :
         requests[w][i].caller = requests[v][j].caller /\ requests[w][i].caller \in Http
             => w = v /\ i = j

\* The requests stay, and so do those who wait for an answer.
LEMMA RequestsStay ==
    ASSUME TypeInv, RequestInv, requests' = requests,
           \A u \in Http : pc[u] = "wait" /\ reply[u] = "none" =>
               pc'[u] = "wait" /\ reply'[u] = "none" /\ op'[u].m = op[u].m,
           \A u \in Http : reply'[u] # "none" => pc'[u] = "wait"
    PROVE  RequestInv'
<1>1. ASSUME NEW w \in Workers, NEW i \in 1 .. Len(requests'[w]) PROVE Awaited(requests[w][i])'
  <2>1. Awaited(requests[w][i])
    BY <1>1 DEF RequestInv
  <2> QED
    BY <2>1 DEF Awaited
<1>2. \A w \in Workers : \A i \in 1 .. Len(requests'[w]) : Awaited(requests[w][i])'
  BY <1>1
<1> QED
  BY <1>2 DEF RequestInv

\* The first request of a worker is answered, if anybody waits for it.
LEMMA RequestAnswered ==
    ASSUME TypeInv, RequestInv, NEW w \in Workers, requests[w] # <<>>, NEW value,
           Answer(Head(requests[w]).caller, value), requests' = [requests EXCEPT ![w] = Tail(@)],
           UNCHANGED <<pc, op>>
    PROVE  RequestInv'
<1> DEFINE c == Head(requests[w]).caller
<1>1. /\ requests \in [Workers -> Seq(Request)] /\ requests[w] \in Seq(Request)
      /\ c = requests[w][1].caller /\ 1 \in 1 .. Len(requests[w])
      /\ reply \in [Threads -> {"none", "queued", "error"}] /\ Http \subseteq Threads
  BY ThreadSets DEF TypeInv, TypeOK
<1>2. \A u \in Http : u # c => reply'[u] = reply[u]
  BY <1>1 DEF Answer
<1>3. c \in Http => pc[c] = "wait"
  BY <1>1 DEF RequestInv, Awaited
<1>4. ASSUME NEW v \in Workers, NEW i \in 1 .. Len(requests'[v])
      PROVE  \E k \in 1 .. Len(requests[v]) :
                 /\ requests'[v][i] = requests[v][k] /\ (v = w => k = i + 1) /\ (v # w => k = i)
                 /\ c \in Http => requests[v][k].caller # c
  <2>1. CASE v = w
    <3>1. /\ requests'[w] = Tail(requests[w]) /\ i + 1 \in 1 .. Len(requests[w])
          /\ requests'[w][i] = requests[w][i + 1] /\ i + 1 # 1
      BY <1>1, <1>4, <2>1
    <3> QED
      BY <1>1, <2>1, <3>1 DEF RequestInv
  <2>2. CASE v # w
    <3>1. requests'[v] = requests[v]
      BY <1>1, <2>2
    <3> QED
      BY <1>1, <1>4, <2>2, <3>1 DEF RequestInv
  <2> QED
    BY <2>1, <2>2
<1>5. ASSUME NEW v \in Workers, NEW i \in 1 .. Len(requests'[v]) PROVE Awaited(requests[v][i])'
  <2>1. PICK k \in 1 .. Len(requests[v]) :
            requests'[v][i] = requests[v][k] /\ (c \in Http => requests[v][k].caller # c)
    BY <1>4, <1>5
  <2>2. Awaited(requests[v][k])
    BY DEF RequestInv
  <2>3. requests[v][k].caller \in Http => requests[v][k].caller # c
    BY <2>1
  <2> QED
    BY <1>2, <2>1, <2>2, <2>3 DEF Awaited
<1>6. ASSUME NEW v \in Workers, NEW x \in Workers,
             NEW i \in 1 .. Len(requests'[v]), NEW j \in 1 .. Len(requests'[x]),
             requests'[v][i].caller = requests'[x][j].caller, requests'[v][i].caller \in Http
      PROVE  v = x /\ i = j
  <2>1. PICK k \in 1 .. Len(requests[v]) :
            requests'[v][i] = requests[v][k] /\ (v = w => k = i + 1) /\ (v # w => k = i)
    BY <1>4, <1>6
  <2>2. PICK l \in 1 .. Len(requests[x]) :
            requests'[x][j] = requests[x][l] /\ (x = w => l = j + 1) /\ (x # w => l = j)
    BY <1>4, <1>6
  <2>3. v = x /\ k = l
    BY <1>6, <2>1, <2>2 DEF RequestInv
  <2>4. i \in Nat /\ j \in Nat
    OBVIOUS
  <2> QED
    BY <2>1, <2>2, <2>3, <2>4
<1>7. \A u \in Http : reply'[u] # "none" => pc'[u] = "wait"
  BY <1>2, <1>3 DEF RequestInv
<1>8. \A v \in Workers : \A i \in 1 .. Len(requests'[v]) : Awaited(requests[v][i])'
  BY <1>5
<1>9. ASSUME NEW v \in Workers, NEW x \in Workers
      PROVE  \A i \in 1 .. Len(requests'[v]), j \in 1 .. Len(requests'[x]) :
                 requests'[v][i].caller = requests'[x][j].caller /\ requests'[v][i].caller \in Http
                     => v = x /\ i = j
  BY ONLY <1>6
<1> QED
  BY <1>7, <1>8, <1>9 DEF RequestInv

\* A thread makes a request, or gives up waiting.
LEMMA RequestMade ==
    ASSUME TypeInv, RequestInv, NEW t \in Http, NEW w \in Workers, SubmitRequest(t, w)
    PROVE  RequestInv'
<1> DEFINE r == [caller |-> t, m |-> op[t].m, method |-> op[t].method, targets |-> op[t].targets]
<1>1. /\ requests \in [Workers -> Seq(Request)] /\ Http \subseteq Threads
      /\ pc \in [Threads -> {"idle", "read", "truncate", "write", "control", "wait", "done"}]
      /\ requests' = [requests EXCEPT ![w] = Append(@, r)] /\ UNCHANGED <<op, reply>>
      /\ pc' = [pc EXCEPT ![t] = "wait"] /\ pc[t] = "control"
  BY ThreadSets DEF TypeInv, TypeOK, SubmitRequest
<1>2. r.caller = t /\ r.m = op[t].m
  OBVIOUS
<1> HIDE DEF r
<1>3. ASSUME NEW v \in Workers, NEW i \in 1 .. Len(requests'[v])
      PROVE  \/ v = w /\ i = Len(requests[w]) + 1 /\ requests'[v][i] = r
             \/ i \in 1 .. Len(requests[v]) /\ requests'[v][i] = requests[v][i]
  <2>1. CASE v = w
    <3>1. requests[w] \in Seq(Request) /\ requests'[w] = Append(requests[w], r)
      BY <1>1
    <3> QED
      BY <1>3, <2>1, <3>1
  <2>2. CASE v # w
    BY <1>1, <1>3, <2>2
  <2> QED
    BY <2>1, <2>2
<1>4. ASSUME NEW v \in Workers, NEW i \in 1 .. Len(requests[v]) PROVE requests[v][i].caller # t
  <2>1. Awaited(requests[v][i])
    BY DEF RequestInv
  <2> QED
    BY <1>1, <2>1 DEF Awaited
<1>5. reply[t] = "none"
  BY <1>1 DEF RequestInv
<1>6. ASSUME NEW v \in Workers, NEW i \in 1 .. Len(requests'[v]) PROVE Awaited(requests[v][i])'
  <2>1. CASE requests'[v][i] = r
    BY <1>1, <1>2, <1>5, <2>1 DEF Awaited
  <2>2. CASE i \in 1 .. Len(requests[v]) /\ requests'[v][i] = requests[v][i]
    <3>1. Awaited(requests[v][i]) /\ requests[v][i].caller # t
      BY <1>4, <2>2 DEF RequestInv
    <3> QED
      BY <1>1, <2>2, <3>1 DEF Awaited
  <2> QED
    BY <1>3, <1>6, <2>1, <2>2
<1>7. ASSUME NEW v \in Workers, NEW x \in Workers,
             NEW i \in 1 .. Len(requests'[v]), NEW j \in 1 .. Len(requests'[x]),
             requests'[v][i].caller = requests'[x][j].caller, requests'[v][i].caller \in Http
      PROVE  v = x /\ i = j
  <2>1. CASE requests'[v][i].caller = t
    <3>1. v = w /\ i = Len(requests[w]) + 1
      BY <1>3, <1>4, <2>1
    <3>2. x = w /\ j = Len(requests[w]) + 1
      <4>1. requests'[x][j].caller = t
        BY <1>7, <2>1
      <4>2. CASE j \in 1 .. Len(requests[x]) /\ requests'[x][j] = requests[x][j]
        BY <1>4, <4>1, <4>2
      <4> QED
        BY <1>3, <4>2
    <3> QED
      BY <3>1, <3>2
  <2>2. CASE requests'[v][i].caller # t
    <3>1. i \in 1 .. Len(requests[v]) /\ requests'[v][i] = requests[v][i]
      BY <1>2, <1>3, <2>2
    <3>2. j \in 1 .. Len(requests[x]) /\ requests'[x][j] = requests[x][j]
      BY <1>2, <1>3, <1>7, <2>2
    <3> QED
      BY <1>7, <3>1, <3>2 DEF RequestInv
  <2> QED
    BY <2>1, <2>2
<1>8. \A u \in Http : reply'[u] # "none" => pc'[u] = "wait"
  BY <1>1 DEF RequestInv
<1>9. \A v \in Workers : \A i \in 1 .. Len(requests'[v]) : Awaited(requests[v][i])'
  BY <1>6
<1>10. \A v, x \in Workers : \A i \in 1 .. Len(requests'[v]), j \in 1 .. Len(requests'[x]) :
          requests'[v][i].caller = requests'[x][j].caller /\ requests'[v][i].caller \in Http
              => v = x /\ i = j
  BY <1>7
<1> QED
  BY <1>8, <1>9, <1>10 DEF RequestInv

LEMMA RequestLeft ==
    ASSUME TypeInv, RequestInv, NEW t \in Http, ReplyTimeout(t)
    PROVE  RequestInv'
<1>1. /\ requests \in [Workers -> Seq(Request)] /\ Http \subseteq Threads /\ op \in [Threads -> Op]
      /\ pc \in [Threads -> {"idle", "read", "truncate", "write", "control", "wait", "done"}]
      /\ pc[t] = "wait" /\ reply[t] = "none" /\ reply' = reply /\ FailedSend(t)
  BY ThreadSets DEF TypeInv, TypeOK, ReplyTimeout
<1>2. \A u \in Threads \ {t} : pc'[u] = pc[u] /\ op'[u] = op[u]
  BY <1>1 DEF FailedSend, Begin
<1>3. ASSUME NEW v \in Workers, NEW i \in 1 .. Len(requests'[v])
      PROVE  /\ i \in 1 .. Len(requests[v])
             /\ requests'[v][i].caller \in Http =>
                    requests'[v][i] = requests[v][i] /\ requests[v][i].caller # t
  <2>1. requests'[v] = [k \in DOMAIN requests[v] |-> IF requests[v][k].caller = t
                                                    THEN [requests[v][k] EXCEPT !.caller = NoCaller]
                                                    ELSE requests[v][k]]
    BY DEF ReplyTimeout
  <2>2. requests[v] \in Seq(Request)
    BY <1>1
  <2>3. DOMAIN requests[v] = 1 .. Len(requests[v]) /\ Len(requests[v]) \in Nat
    BY <2>2
  <2>4. Len(requests'[v]) = Len(requests[v])
    BY <2>1, <2>3
  <2>5. i \in 1 .. Len(requests[v]) /\ requests[v][i] \in Request
    BY <1>3, <2>2, <2>4
  <2>6. requests[v][i].caller = t => requests'[v][i].caller = NoCaller
    BY <2>1, <2>3, <2>5 DEF Request
  <2>7. requests[v][i].caller # t => requests'[v][i] = requests[v][i]
    BY <2>1, <2>3, <2>5
  <2> QED
    BY <2>5, <2>6, <2>7, OutboundAssumption
<1>4. ASSUME NEW v \in Workers, NEW i \in 1 .. Len(requests'[v]) PROVE Awaited(requests[v][i])'
  <2>1. Awaited(requests[v][i])
    BY <1>3 DEF RequestInv
  <2> QED
    BY <1>1, <1>2, <1>3, <2>1 DEF Awaited
<1>5. \A u \in Http : reply'[u] # "none" => pc'[u] = "wait"
  BY <1>1, <1>2 DEF RequestInv
<1>6. \A v \in Workers : \A i \in 1 .. Len(requests'[v]) : Awaited(requests[v][i])'
  BY <1>4
<1>7. ASSUME NEW v \in Workers, NEW x \in Workers,
             NEW i \in 1 .. Len(requests'[v]), NEW j \in 1 .. Len(requests'[x]),
             requests'[v][i].caller = requests'[x][j].caller, requests'[v][i].caller \in Http
      PROVE  v = x /\ i = j
  <2>1. /\ i \in 1 .. Len(requests[v]) /\ requests'[v][i] = requests[v][i]
        /\ j \in 1 .. Len(requests[x]) /\ requests'[x][j] = requests[x][j]
    BY <1>3, <1>7
  <2> QED
    BY <1>7, <2>1 DEF RequestInv
<1> QED
  BY <1>5, <1>6, <1>7 DEF RequestInv

LEMMA RequestNext == TypeInv /\ RequestInv /\ [Next]_vars => RequestInv'
<1> SUFFICES ASSUME TypeInv, RequestInv, [Next]_vars PROVE RequestInv'
  OBVIOUS
<1>t. /\ pc \in [Threads -> {"idle", "read", "truncate", "write", "control", "wait", "done"}]
      /\ op \in [Threads -> Op] /\ reply \in [Threads -> {"none", "queued", "error"}]
      /\ requests \in [Workers -> Seq(Request)]
  BY DEF TypeInv, TypeOK
\* A step of a thread that does not wait.
<1>a. ASSUME NEW t \in Threads, pc[t] # "wait", UNCHANGED <<reply, requests>>,
             \A u \in Threads \ {t} : pc'[u] = pc[u] /\ op'[u] = op[u]
      PROVE  RequestInv'
  BY <1>a, RequestsStay, ThreadSets DEF RequestInv
<1>1. ASSUME NEW t \in Threads, StoreStep(t) PROVE RequestInv'
  <2>1. pc[t] # "wait" /\ UNCHANGED <<reply, requests>>
    BY <1>1 DEF StoreStep, StoreRead, StoreReadFails, StoreTruncate, StoreWrite, workerVars
  <2>2. \A u \in Threads \ {t} : pc'[u] = pc[u] /\ op'[u] = op[u]
    BY <1>t, <1>1 DEF StoreStep, StoreRead, StoreReadFails, StoreTruncate, StoreWrite, AfterWrite, Finish, Begin
  <2> QED
    BY <1>a, <2>1, <2>2
<1>2. ASSUME NEW t \in Http, User(t) PROVE RequestInv'
  <2>1. pc[t] = "idle" /\ UNCHANGED <<reply, requests>> /\ t \in Threads
    BY <1>2, ThreadSets DEF User, SendMessage, RepeatMessage, RemoveMessage, ClearMessages, workerVars
  <2>2. \A u \in Threads \ {t} : pc'[u] = pc[u] /\ op'[u] = op[u]
    BY <1>t, <1>2 DEF User, SendMessage, RepeatMessage, RemoveMessage, ClearMessages, Begin
  <2> QED
    BY <1>a, <2>1, <2>2
<1>3. ASSUME NEW t \in Http, HttpStep(t) PROVE RequestInv'
  <2>0. t \in Threads
    BY ThreadSets
  <2>1. CASE \E w \in Workers : SubmitRequest(t, w)
    BY <2>1, RequestMade
  <2>2. CASE SubmitFails(t)
    <3>1. pc[t] # "wait" /\ UNCHANGED <<reply, requests>>
          /\ \A u \in Threads \ {t} : pc'[u] = pc[u] /\ op'[u] = op[u]
      BY <1>t, <2>2 DEF SubmitFails, FailedSend, Begin, workerVars
    <3> QED
      BY <1>a, <2>0, <3>1
  <2>3. CASE ReplyQueued(t) \/ (ReplyFailed(t) /\ reply[t] # "none")
    <3>1. /\ reply[t] # "none" /\ requests' = requests /\ reply'[t] = "none"
          /\ \A u \in Threads \ {t} : pc'[u] = pc[u] /\ op'[u] = op[u] /\ reply'[u] = reply[u]
      BY <1>t, <2>0, <2>3 DEF ReplyQueued, ReplyFailed, FailedSend, Begin, workerVars
    <3> QED
      BY <2>0, <3>1, RequestsStay, ThreadSets DEF RequestInv
  <2>4. CASE ReplyTimeout(t)
    BY <2>4, RequestLeft
  <2> QED
    BY <1>3, <2>1, <2>2, <2>3, <2>4 DEF HttpStep, ReplyFailed
<1>4. ASSUME NEW w \in Workers, ControlStep(w) PROVE RequestInv'
  BY <1>4, RequestAnswered DEF ControlStep, AcceptRequest, RefuseRequest
<1>5. ASSUME UNCHANGED <<pc, op, reply, requests>> PROVE RequestInv'
  BY <1>5, RequestsStay DEF RequestInv
<1>6. ASSUME NEW w \in Workers, OutputStep(w) PROVE RequestInv'
  <2>1. /\ pc[w] = "idle" /\ UNCHANGED <<reply, requests>> /\ w \in Threads
        /\ \A u \in Threads \ {w} : pc'[u] = pc[u] /\ op'[u] = op[u]
    BY <1>t, <1>6, ThreadSets DEF OutputStep, ReadEvent, ReadExit, Begin, workerVars
  <2> QED
    BY <1>a, <2>1
<1>7. ASSUME NEW w \in Workers, \/ DirectStep(w) \/ PropagationStep(w) \/ StartWorker(w)
                                \/ \E m \in InIds : ReceiveMessage(w, m)
      PROVE  RequestInv'
  BY <1>5, <1>7 DEF DirectStep, DirectOutcome, PropagationStep, NodeAccepted, NodeFailed, ReplicationComplete,
     FinalFailure, StartWorker, ReceiveMessage, threadVars, workerVars
<1>8. ASSUME NEW w \in Workers, WorkerExit(w) PROVE RequestInv'
  <2>1. UNCHANGED <<pc, op, reply>> /\ requests' = [requests EXCEPT ![w] = <<>>]
    BY <1>8 DEF WorkerExit, threadVars
  <2>2. ASSUME NEW v \in Workers, NEW i \in 1 .. Len(requests'[v])
        PROVE  i \in 1 .. Len(requests[v]) /\ requests'[v][i] = requests[v][i]
    <3>1. v # w
      BY <1>t, <2>1, <2>2
    <3> QED
      BY <1>t, <2>1, <2>2, <3>1
  <2>3. ASSUME NEW v \in Workers, NEW i \in 1 .. Len(requests'[v]) PROVE Awaited(requests[v][i])'
    <3>1. Awaited(requests[v][i])
      BY <2>2, <2>3 DEF RequestInv
    <3> QED
      BY <2>1, <2>2, <2>3, <3>1 DEF Awaited
  <2>4. \A v \in Workers : \A i \in 1 .. Len(requests'[v]) : Awaited(requests[v][i])'
    BY <2>3
  <2>5. ASSUME NEW v \in Workers, NEW x \in Workers,
               NEW i \in 1 .. Len(requests'[v]), NEW j \in 1 .. Len(requests'[x]),
               requests'[v][i].caller = requests'[x][j].caller, requests'[v][i].caller \in Http
        PROVE  v = x /\ i = j
    <3>1. /\ i \in 1 .. Len(requests[v]) /\ requests'[v][i] = requests[v][i]
          /\ j \in 1 .. Len(requests[x]) /\ requests'[x][j] = requests[x][j]
      BY <2>2
    <3> QED
      BY <2>5, <3>1 DEF RequestInv
  <2> QED
    BY <2>1, <2>4, <2>5 DEF RequestInv
<1>9. CASE RestartController
  <2>1. /\ \A w \in Workers : Len(requests'[w]) = 0
        /\ \A t \in Http : reply'[t] = "none"
    BY <1>9, ThreadSets DEF RestartController
  <2> QED
    BY <2>1 DEF RequestInv
<1>10. CASE UNCHANGED vars
  BY <1>5, <1>10 DEF vars
<1>11. CASE \E t \in Http : User(t) \/ HttpStep(t)
  BY <1>11, <1>2, <1>3
<1>12. CASE \E w \in Workers : ControlStep(w) \/ DirectStep(w) \/ PropagationStep(w) \/ OutputStep(w)
  BY <1>12, <1>4, <1>6, <1>7
<1>13. CASE \E w \in Workers : \/ \E m \in InIds : ReceiveMessage(w, m)
                               \/ WorkerExit(w) \/ StartWorker(w)
  BY <1>13, <1>7, <1>8
<1>14. CASE \E t \in Threads : StoreStep(t)
  BY <1>14, <1>1
<1> QED
  BY <1>9, <1>10, <1>11, <1>12, <1>13, <1>14 DEF Next

-----------------------------------------------------------------------------
(* Who is going to settle a message.  Owned names everybody who may; to be *)
(* inductive it has to name those only who will: a request thread once its *)
(* attempt is in the file and until the worker has it, a job as long as no *)
(* node accepted, an event until it is applied, a worker that has ended    *)
(* until its exit is applied, the start of the controller.                 *)
Attends(t, m) ==
    /\ op[t].m = m
    /\ \/ op[t].kind = "sendfailed" /\ pc[t] \in {"read", "truncate", "write"}
       \/ op[t].kind \in {"add", "retry"} /\ pc[t] = "control"
       \/ op[t].kind \in {"add", "retry"} /\ pc[t] = "wait" /\ reply[t] # "queued"

Queued(w, m) == \E i \in 1 .. Len(queue[w]) : queue[w][i].m = m /\ queue[w][i].ok = 0
Piped(w, m) == \E i \in 1 .. Len(pipe[w]) : Settles(pipe[w][i], m)
Applies(w, m) == pc[w] \in {"read", "truncate", "write"} /\ Settles(op[w], m)
Closing(w) == status[w] = "exited" /\ pc[w] # "done"
Carries(w, m) == direct[w][m] > 0 \/ Queued(w, m) \/ Piped(w, m) \/ Applies(w, m) \/ Closing(w)

Handled(m) ==
    \/ \E t \in Http : Attends(t, m)
    \/ \E w \in Workers : Carries(w, m)
    \/ op[Starter].kind = "restart"

\* The exit of a worker is applied when it has ended, and last; the thread
\* that reads its output does not start the controller.
Ended(w) == /\ pc[w] = "done" \/ op[w].kind = "workerexit" => status[w] = "exited"
            /\ op[w].kind # "restart"

\* Only the actors in T change.
LEMMA HandledFrame ==
    ASSUME NEW m, Handled(m), NEW T,
           \A u \in Threads \ T : pc'[u] = pc[u] /\ op'[u] = op[u] /\ reply'[u] = reply[u],
           \A w \in Workers \ T : /\ status'[w] = status[w] /\ direct'[w] = direct[w]
                                 /\ queue'[w] = queue[w] /\ pipe'[w] = pipe[w],
           \A t \in Http : t \in T /\ Attends(t, m) => Handled(m)',
           \A w \in Workers : w \in T /\ Carries(w, m) => Handled(m)',
           Starter \in T /\ op[Starter].kind = "restart" => Handled(m)'
    PROVE  Handled(m)'
<1>1. ASSUME NEW t \in Http, Attends(t, m) PROVE Handled(m)'
  <2>1. CASE t \in T
    BY <1>1, <2>1
  <2>2. CASE t \notin T
    <3>1. Attends(t, m)'
      BY <1>1, <2>2, ThreadSets DEF Attends
    <3> QED
      BY <3>1 DEF Handled
  <2> QED
    BY <2>1, <2>2
<1>2. ASSUME NEW w \in Workers, Carries(w, m) PROVE Handled(m)'
  <2>1. CASE w \in T
    BY <1>2, <2>1
  <2>2. CASE w \notin T
    <3>1. /\ status'[w] = status[w] /\ direct'[w] = direct[w] /\ pc'[w] = pc[w] /\ op'[w] = op[w]
          /\ queue'[w] = queue[w] /\ pipe'[w] = pipe[w]
      BY <2>2, ThreadSets
    <3>2. Carries(w, m)'
      BY <1>2, <3>1 DEF Carries, Queued, Piped, Applies, Closing
    <3> QED
      BY <3>2 DEF Handled
  <2> QED
    BY <2>1, <2>2
<1>3. CASE op[Starter].kind = "restart"
  <2>1. CASE Starter \notin T
    BY <1>3, <2>1, ThreadSets DEF Handled
  <2> QED
    BY <1>3, <2>1
<1> QED
  BY <1>1, <1>2, <1>3 DEF Handled

\* What an operation leaves in "sending" was so before, unless it is an attempt.
LEMMA WrittenSending ==
    ASSUME NEW c \in Conversation, NEW o \in Op, NEW m \in MsgIds,
           Written(o, c)[m].state = "sending"
    PROVE  \/ o.kind \in {"add", "retry"} /\ o.m = m
           \/ /\ c[m].state = "sending"
              /\ o.kind \notin {"clear", "workerexit", "restart"}
              /\ o.m = m => o.kind \notin {"sendfailed", "delivered", "failed", "propagated"}
<1>o. o.kind \in OpKind /\ o.m \in MsgIds /\ c \in [MsgIds -> Message]
  BY DEF Op, Conversation
<1>1. CASE o.kind \in {"clear", "delete", "add", "retry", "received"}
  BY <1>o, <1>1 DEF Written, DeleteMessage, NoMessages, NoMessage, AddOutbound, PrepareRetry, Attempt,
     AddInbound
<1>2. CASE o.kind \in {"workerexit", "restart"}
  BY <1>o, <1>2 DEF Written, FailPending, Message
<1>3. CASE o.kind \in {"queued", "sendfailed", "delivered", "failed"}
  BY <1>o, <1>3 DEF Written, ConfirmQueued, FailSend, RecordOutcome, Message
<1>4. CASE o.kind \in {"propagated", "nodefailed", "complete"}
  BY <1>o, <1>4 DEF Written, RecordPropagated, RecordNodeFailed, CompleteReplication, Message
<1> QED
  BY <1>o, <1>1, <1>2, <1>3, <1>4 DEF OpKind

\* Who reads the file to settle a pending message, or all, writes it.
LEMMA PendingIsWritten ==
    ASSUME NEW m \in MsgIds, messages[m].state = "sending", NEW o,
           \/ o.m = m /\ o.kind \in {"sendfailed", "delivered", "failed", "propagated"}
           \/ o.kind \in {"workerexit", "restart"}
    PROVE  Writes(o, messages)
BY DEF Writes, ExpectsSending

\* A thread at the file.
LEMMA HandledStore ==
    ASSUME TypeInv, FileSound, NEW t \in Threads, StoreStep(t), ~disturbed', NEW m \in OutIds,
           messages[m].state = "sending" => Handled(m), messages'[m].state = "sending"
    PROVE  Handled(m)'
<1>t. /\ pc \in [Threads -> {"idle", "read", "truncate", "write", "control", "wait", "done"}]
      /\ op \in [Threads -> Op] /\ m \in MsgIds /\ messages \in Conversation
  BY ThreadSets DEF TypeInv, TypeOK
<1>w. UNCHANGED <<reply, status, direct, queue, pipe>>
  BY DEF StoreStep, StoreRead, StoreReadFails, StoreTruncate, StoreWrite, workerVars
\* The operation goes on.
<1>a. ASSUME pc'[t] \in {"truncate", "write"}, pc[t] \in {"read", "truncate"}, op' = op,
             \A u \in Threads \ {t} : pc'[u] = pc[u], Handled(m)
      PROVE  Handled(m)'
  <2>1. ASSUME t \in Http, Attends(t, m) PROVE Attends(t, m)'
    BY <1>a, <2>1 DEF Attends
  <2>2. ASSUME t \in Workers, Carries(t, m) PROVE Carries(t, m)'
    BY <1>a, <1>w, <2>2 DEF Carries, Queued, Piped, Applies, Closing
  <2>3. ASSUME t = Starter, op[Starter].kind = "restart" PROVE op'[Starter].kind = "restart"
    BY <1>a, <2>3
  <2>4. /\ t \in Http /\ Attends(t, m) => Handled(m)'
        /\ t \in Workers /\ Carries(t, m) => Handled(m)'
        /\ t = Starter /\ op[Starter].kind = "restart" => Handled(m)'
    BY <2>1, <2>2, <2>3 DEF Handled
  <2> DEFINE T == {t}
  <2>5. /\ \A u \in Threads \ T : pc'[u] = pc[u] /\ op'[u] = op[u] /\ reply'[u] = reply[u]
        /\ \A w \in Workers \ T : /\ status'[w] = status[w] /\ direct'[w] = direct[w]
                                 /\ queue'[w] = queue[w] /\ pipe'[w] = pipe[w]
    BY <1>a, <1>w
  <2>6. /\ \A u \in Http : u \in T /\ Attends(u, m) => Handled(m)'
        /\ \A w \in Workers : w \in T /\ Carries(w, m) => Handled(m)'
        /\ Starter \in T /\ op[Starter].kind = "restart" => Handled(m)'
    BY <2>4
  <2> HIDE DEF T
  <2> QED
    BY <1>a, <2>5, <2>6, HandledFrame
\* The operation is over, and settled nothing that was pending.
<1>b. ASSUME Finish(t), pc[t] \in {"read", "write"}, Handled(m),
             op[t].kind \notin {"workerexit", "restart"},
             op[t].m = m => op[t].kind \notin {"sendfailed", "delivered", "failed", "propagated"}
      PROVE  Handled(m)'
  <2>1. \A u \in Threads \ {t} : pc'[u] = pc[u] /\ op'[u] = op[u]
    BY <1>t, <1>b DEF Finish, Begin
  <2>2. pc'[t] = "idle"
    BY <1>t, <1>b DEF Finish, Begin
  <2>3. ~Attends(t, m)
    BY <1>b DEF Attends
  <2>4. ASSUME t \in Workers, Carries(t, m) PROVE Carries(t, m)'
    BY <1>b, <1>w, <2>2, <2>4 DEF Carries, Queued, Piped, Applies, Closing, Settles
  <2>5. t \in Workers /\ Carries(t, m) => Handled(m)'
    BY <2>4 DEF Handled
  <2> DEFINE T == {t}
  <2>6. /\ \A u \in Threads \ T : pc'[u] = pc[u] /\ op'[u] = op[u] /\ reply'[u] = reply[u]
        /\ \A w \in Workers \ T : /\ status'[w] = status[w] /\ direct'[w] = direct[w]
                                 /\ queue'[w] = queue[w] /\ pipe'[w] = pipe[w]
    BY <2>1, <1>w
  <2>7. /\ \A u \in Http : u \in T /\ Attends(u, m) => Handled(m)'
        /\ \A w \in Workers : w \in T /\ Carries(w, m) => Handled(m)'
        /\ Starter \in T /\ op[Starter].kind = "restart" => Handled(m)'
    BY <1>b, <2>3, <2>5
  <2> HIDE DEF T
  <2> QED
    BY <1>b, <2>6, <2>7, HandledFrame
<1>1. CASE StoreRead(t)
  <2>1. messages' = messages /\ pc[t] = "read"
    BY <1>1 DEF StoreRead, fileVars
  <2>2. CASE Writes(op[t], messages)
    <3>1. pc'[t] = "truncate" /\ op' = op /\ \A u \in Threads \ {t} : pc'[u] = pc[u]
      BY <1>t, <1>1, <2>2 DEF StoreRead
    <3> QED
      BY <1>a, <2>1, <3>1
  <2>3. CASE ~Writes(op[t], messages)
    <3>1. Finish(t)
      BY <1>1, <2>3 DEF StoreRead
    <3>2. /\ op[t].kind \notin {"workerexit", "restart"}
          /\ op[t].m = m => op[t].kind \notin {"sendfailed", "delivered", "failed", "propagated"}
      BY <1>t, <2>1, <2>3, PendingIsWritten
    <3> QED
      BY <1>b, <2>1, <3>1, <3>2
  <2> QED
    BY <2>2, <2>3
<1>2. CASE StoreReadFails(t)
  BY <1>2 DEF StoreReadFails
<1>3. CASE StoreTruncate(t)
  <2>1. /\ messages' = messages /\ pc[t] = "truncate" /\ pc'[t] = "write" /\ op' = op
        /\ \A u \in Threads \ {t} : pc'[u] = pc[u]
    BY <1>t, <1>3 DEF StoreTruncate
  <2> QED
    BY <1>a, <2>1
<1>4. CASE StoreWrite(t)
  <2>1. pc[t] = "write" /\ disk = "empty" /\ Fresh(t)
    BY <1>4 DEF StoreWrite, FileSound
  <2>2. messages' = Written(op[t], messages)
    BY <1>4, <2>1 DEF StoreWrite, Fresh
  <2>3. op[t] \in Op
    BY <1>t
  <2>4. CASE op[t].kind \in {"add", "retry"} /\ op[t].m = m
    <3>1. t \in Http /\ pc'[t] = "control" /\ op'[t] = op[t]
      BY <1>t, <1>4, <2>4 DEF StoreWrite, AfterWrite, Begin, TypeInv, OpShape
    <3>2. Attends(t, m)'
      BY <2>4, <3>1 DEF Attends
    <3> QED
      BY <3>1, <3>2 DEF Handled
  <2>5. CASE ~(op[t].kind \in {"add", "retry"} /\ op[t].m = m)
    <3>1. /\ messages[m].state = "sending" /\ op[t].kind \notin {"clear", "workerexit", "restart"}
          /\ op[t].m = m => op[t].kind \notin {"sendfailed", "delivered", "failed", "propagated"}
      BY <1>t, <2>2, <2>3, <2>5, WrittenSending
    <3>2. CASE op[t].kind \notin {"add", "retry"}
      <4>1. Finish(t)
        BY <1>4, <3>2 DEF StoreWrite, AfterWrite
      <4> QED
        BY <1>b, <2>1, <3>1, <4>1
    <3>3. CASE op[t].kind \in {"add", "retry"}
      <4>1. /\ t \in Http /\ op[t].m # m
            /\ \A u \in Threads \ {t} : pc'[u] = pc[u] /\ op'[u] = op[u]
        BY <1>t, <1>4, <2>5, <3>3 DEF StoreWrite, AfterWrite, Begin, TypeInv, OpShape
      <4> DEFINE T == {t}
      <4>2. /\ \A u \in Threads \ T : pc'[u] = pc[u] /\ op'[u] = op[u] /\ reply'[u] = reply[u]
            /\ \A w \in Workers \ T : /\ status'[w] = status[w] /\ direct'[w] = direct[w]
                                     /\ queue'[w] = queue[w] /\ pipe'[w] = pipe[w]
        BY <4>1, <1>w
      <4>3. /\ \A u \in Http : u \in T => ~Attends(u, m)
            /\ \A w \in Workers : w \notin T
            /\ Starter \notin T
        BY <4>1, ThreadSets DEF Attends
      <4> HIDE DEF T
      <4> QED
        BY <3>1, <4>2, <4>3, HandledFrame
    <3> QED
      BY <3>2, <3>3
  <2> QED
    BY <2>4, <2>5
<1> QED
  BY <1>1, <1>2, <1>3, <1>4 DEF StoreStep

\* Only one request thread or only one worker changes.
LEMMA HandledThread ==
    ASSUME NEW m, Handled(m), NEW t \in Http, UNCHANGED <<status, direct, queue, pipe>>,
           \A u \in Threads \ {t} : pc'[u] = pc[u] /\ op'[u] = op[u] /\ reply'[u] = reply[u],
           Attends(t, m) => Attends(t, m)'
    PROVE  Handled(m)'
<1> DEFINE T == {t}
<1>1. /\ \A u \in Threads \ T : pc'[u] = pc[u] /\ op'[u] = op[u] /\ reply'[u] = reply[u]
      /\ \A w \in Workers \ T : /\ status'[w] = status[w] /\ direct'[w] = direct[w]
                               /\ queue'[w] = queue[w] /\ pipe'[w] = pipe[w]
  OBVIOUS
<1>2. Attends(t, m) => Handled(m)'
  BY DEF Handled
<1>3. /\ \A u \in Http : u \in T /\ Attends(u, m) => Handled(m)'
      /\ \A w \in Workers : w \notin T
      /\ Starter \notin T
  BY <1>2, ThreadSets
<1> HIDE DEF T
<1> QED
  BY <1>1, <1>3, HandledFrame

LEMMA HandledWorker ==
    ASSUME NEW m, Handled(m), NEW w \in Workers, reply' = reply,
           \A u \in Threads \ {w} : pc'[u] = pc[u] /\ op'[u] = op[u],
           \A v \in Workers \ {w} : /\ status'[v] = status[v] /\ direct'[v] = direct[v]
                                   /\ queue'[v] = queue[v] /\ pipe'[v] = pipe[v],
           Carries(w, m) => Carries(w, m)'
    PROVE  Handled(m)'
<1> DEFINE T == {w}
<1>1. /\ \A u \in Threads \ T : pc'[u] = pc[u] /\ op'[u] = op[u] /\ reply'[u] = reply[u]
      /\ \A v \in Workers \ T : /\ status'[v] = status[v] /\ direct'[v] = direct[v]
                               /\ queue'[v] = queue[v] /\ pipe'[v] = pipe[v]
  OBVIOUS
<1>2. Carries(w, m) => Handled(m)'
  BY DEF Handled
<1>3. /\ \A v \in Workers : v \in T /\ Carries(v, m) => Handled(m)'
      /\ \A t \in Http : t \notin T
      /\ Starter \notin T
  BY <1>2, ThreadSets
<1> HIDE DEF T
<1> QED
  BY <1>1, <1>3, HandledFrame

\* A user's next request takes nobody's place.
LEMMA HandledUser ==
    ASSUME TypeInv, NEW t \in Http, User(t), NEW m \in OutIds, Handled(m)
    PROVE  Handled(m)'
<1>1. pc[t] = "idle" /\ UNCHANGED <<reply, status, direct, queue, pipe>>
  BY DEF User, SendMessage, RepeatMessage, RemoveMessage, ClearMessages, workerVars
<1>2. \A u \in Threads \ {t} : pc'[u] = pc[u] /\ op'[u] = op[u]
  BY DEF User, SendMessage, RepeatMessage, RemoveMessage, ClearMessages, Begin, TypeInv, TypeOK
<1>3. ~Attends(t, m)
  BY <1>1 DEF Attends
<1> QED
  BY <1>1, <1>2, <1>3, HandledThread

\* A request thread attends to its message from the file to the worker, and
\* again from an error to the file.
LEMMA HandledHttp ==
    ASSUME TypeInv, RequestInv, NEW t \in Http, HttpStep(t), NEW m \in OutIds, Handled(m)
    PROVE  Handled(m)'
<1>t. /\ pc \in [Threads -> {"idle", "read", "truncate", "write", "control", "wait", "done"}]
      /\ op \in [Threads -> Op] /\ reply \in [Threads -> {"none", "queued", "error"}] /\ t \in Threads
      /\ op[t].kind \in OpKind /\ op[t].m \in MsgIds
  BY ThreadSets DEF TypeInv, TypeOK, Op
<1>w. UNCHANGED <<status, direct, queue, pipe>>
  BY DEF HttpStep, SubmitRequest, SubmitFails, ReplyQueued, ReplyFailed, ReplyTimeout, workerVars
<1>o. \A u \in Threads \ {t} : pc'[u] = pc[u] /\ op'[u] = op[u] /\ reply'[u] = reply[u]
  BY <1>t DEF HttpStep, SubmitRequest, SubmitFails, ReplyQueued, ReplyFailed, ReplyTimeout, FailedSend, Begin
<1>1. CASE \E w \in Workers : SubmitRequest(t, w)
  <2>1. pc[t] = "control" /\ pc'[t] = "wait" /\ op' = op /\ reply' = reply
    BY <1>t, <1>1 DEF SubmitRequest
  <2>2. reply[t] = "none"
    BY <2>1 DEF RequestInv
  <2>3. Attends(t, m) => Attends(t, m)'
    BY <2>1, <2>2 DEF Attends
  <2> QED
    BY <1>w, <1>o, <2>3, HandledThread
<1>2. CASE SubmitFails(t) \/ ReplyFailed(t) \/ ReplyTimeout(t)
  <2>1. pc'[t] = "read" /\ op'[t] = [op[t] EXCEPT !.kind = "sendfailed"]
    BY <1>t, <1>2 DEF SubmitFails, ReplyFailed, ReplyTimeout, FailedSend, Begin
  <2>2. op'[t].kind = "sendfailed" /\ op'[t].m = op[t].m
    BY <1>t, <2>1 DEF Op
  <2>3. Attends(t, m) => Attends(t, m)'
    BY <2>1, <2>2 DEF Attends
  <2> QED
    BY <1>w, <1>o, <2>3, HandledThread
<1>3. CASE ReplyQueued(t)
  <2>1. ~Attends(t, m)
    BY <1>3 DEF ReplyQueued, Attends
  <2> QED
    BY <1>w, <1>o, <2>1, HandledThread
<1> QED
  BY <1>1, <1>2, <1>3 DEF HttpStep

-----------------------------------------------------------------------------
(* Sequences: what an element added, the first removed or replaced leaves. *)
LEMMA AppendKeeps ==
    ASSUME NEW S, NEW q \in Seq(S), NEW e \in S
    PROVE  /\ Len(Append(q, e)) = Len(q) + 1 /\ Append(q, e)[Len(q) + 1] = e
           /\ \A i \in 1 .. Len(q) : i \in 1 .. Len(Append(q, e)) /\ Append(q, e)[i] = q[i]
  OBVIOUS

LEMMA TailKeeps ==
    ASSUME NEW S, NEW q \in Seq(S), q # <<>>, NEW i \in 1 .. Len(q)
    PROVE  \/ i = 1 /\ q[i] = Head(q)
           \/ i - 1 \in 1 .. Len(Tail(q)) /\ Tail(q)[i - 1] = q[i]
<1>1. /\ Len(Tail(q)) = Len(q) - 1 /\ Head(q) = q[1] /\ Len(q) \in Nat
      /\ \A k \in 1 .. Len(q) - 1 : Tail(q)[k] = q[k + 1]
  OBVIOUS
<1>2. CASE i # 1
  <2>1. i - 1 \in 1 .. Len(q) - 1 /\ (i - 1) + 1 = i
    BY <1>1, <1>2
  <2> QED
    BY <1>1, <2>1
<1> QED
  BY <1>1, <1>2

LEMMA ReplaceKeeps ==
    ASSUME NEW S, NEW q \in Seq(S), q # <<>>, NEW j \in S, NEW i \in 1 .. Len(q)
    PROVE  LET r == <<j>> \o Tail(q)
           IN  i \in 1 .. Len(r) /\ (i = 1 => r[i] = j) /\ (i # 1 => r[i] = q[i])
<1>1. /\ Tail(q) \in Seq(S) /\ Len(Tail(q)) = Len(q) - 1 /\ Len(q) \in Nat
      /\ \A k \in 1 .. Len(q) - 1 : Tail(q)[k] = q[k + 1]
  OBVIOUS
<1>2. /\ <<j>> \in Seq(S) /\ Len(<<j>>) = 1 /\ <<j>>[1] = j
  OBVIOUS
<1>3. /\ Len(<<j>> \o Tail(q)) = 1 + Len(Tail(q))
      /\ \A k \in 1 .. 1 + Len(Tail(q)) :
            (<<j>> \o Tail(q))[k] = IF k <= 1 THEN <<j>>[k] ELSE Tail(q)[k - 1]
  BY <1>1, <1>2, ConcatProperties
<1>4. i # 1 => i - 1 \in 1 .. Len(q) - 1 /\ (i - 1) + 1 = i /\ ~(i <= 1)
  BY <1>1
<1>5. i \in 1 .. 1 + Len(Tail(q))
  BY <1>1
<1> QED
  BY <1>1, <1>2, <1>3, <1>4, <1>5

-----------------------------------------------------------------------------
(* The worker's output only grows while its thread does not read. *)
LEMMA PipedGrows ==
    ASSUME TypeInv, NEW w \in Workers, NEW e \in Report, Emit(w, e), NEW m
    PROVE  /\ Piped(w, m) => Piped(w, m)'
           /\ Settles(e, m) => Piped(w, m)'
<1> DEFINE q == pipe[w]
<1>1. q \in Seq(Report) /\ pipe'[w] = Append(q, e)
  BY DEF TypeInv, TypeOK, Emit
<1>l. Len(q) \in Nat
  BY <1>1
<1>2. /\ Len(Append(q, e)) = Len(q) + 1 /\ Append(q, e)[Len(q) + 1] = e
      /\ \A i \in 1 .. Len(q) : i \in 1 .. Len(Append(q, e)) /\ Append(q, e)[i] = q[i]
  BY <1>1, AppendKeeps
<1> HIDE DEF q
<1>3. Settles(e, m) => Piped(w, m)'
  <2>1. Len(q) + 1 \in 1 .. Len(pipe'[w]) /\ pipe'[w][Len(q) + 1] = e
    BY <1>1, <1>2, <1>l
  <2> QED
    BY <2>1 DEF Piped, Settles
<1>4. ASSUME Piped(w, m) PROVE Piped(w, m)'
  <2>1. PICK i \in 1 .. Len(q) : Settles(q[i], m)
    BY <1>4 DEF Piped, q
  <2>2. i \in 1 .. Len(pipe'[w]) /\ pipe'[w][i] = q[i]
    BY <1>1, <1>2
  <2> QED
    BY <2>1, <2>2 DEF Piped, Settles
<1> QED
  BY <1>3, <1>4

\* A job that is not the first, or goes on as itself, stays in the queue.
LEMMA QueuedRest ==
    ASSUME TypeInv, NEW w \in Workers, queue[w] # <<>>, NEW m, Queued(w, m),
           queue' = [queue EXCEPT ![w] = Tail(@)]
    PROVE  Queued(w, m)' \/ (Head(queue[w]).m = m /\ Head(queue[w]).ok = 0)
<1>1. queue[w] \in Seq(Job) /\ queue'[w] = Tail(queue[w])
  BY DEF TypeInv, TypeOK
<1>2. PICK i \in 1 .. Len(queue[w]) : queue[w][i].m = m /\ queue[w][i].ok = 0
  BY DEF Queued
<1>3. \/ i = 1 /\ queue[w][i] = Head(queue[w])
      \/ i - 1 \in 1 .. Len(queue'[w]) /\ queue'[w][i - 1] = queue[w][i]
  BY <1>1, TailKeeps
<1> QED
  BY <1>2, <1>3 DEF Queued

LEMMA QueuedOn ==
    ASSUME TypeInv, NEW w \in Workers, queue[w] # <<>>, NEW m, Queued(w, m),
           NEW j \in Job, Continue(w, j)
    PROVE  \/ Queued(w, m)'
           \/ Head(queue[w]).m = m /\ ~(j.m = Head(queue[w]).m /\ j.ok = Head(queue[w]).ok)
<1>1. queue[w] \in Seq(Job) /\ queue[w][1] = Head(queue[w]) /\ queue'[w] = <<j>> \o Tail(queue[w])
  BY DEF TypeInv, TypeOK, Continue
<1>2. PICK i \in 1 .. Len(queue[w]) : queue[w][i].m = m /\ queue[w][i].ok = 0
  BY DEF Queued
<1>3. i \in 1 .. Len(queue'[w]) /\ (i = 1 => queue'[w][i] = j) /\ (i # 1 => queue'[w][i] = queue[w][i])
  BY <1>1, ReplaceKeeps
<1> QED
  BY <1>1, <1>2, <1>3 DEF Queued

\* A direct message is settled by the event of its outcome.
LEMMA HandledDirect ==
    ASSUME TypeInv, NEW w \in Workers, DirectStep(w), NEW m \in OutIds, Handled(m)
    PROVE  Handled(m)'
<1> PICK n \in OutIds, kind \in {"delivered", "failed"} : DirectOutcome(w, n, kind)
  BY DEF DirectStep
<1> DEFINE e == Event(kind, n, "direct", {}, 0)
<1>1. /\ UNCHANGED <<pc, op, reply, status, queue>> /\ Emit(w, e) /\ e \in Report
      /\ direct' = [direct EXCEPT ![w][n] = @ - 1]
  BY EventType DEF DirectOutcome, threadVars, DeliveryMethod
<1>2. Settles(e, n)
  BY DEF Settles, Event
<1>3. /\ Piped(w, m) => Piped(w, m)'
      /\ Settles(e, m) => Piped(w, m)'
  BY <1>1, PipedGrows
<1>4. direct \in [Workers -> [OutIds -> Nat]] /\ pipe \in [Workers -> Seq(Report)]
  BY DEF TypeInv, TypeOK
<1>5. direct[w][m] > 0 => direct'[w][m] > 0 \/ n = m
  BY <1>1, <1>4
<1>6. Carries(w, m) => Carries(w, m)'
  BY <1>1, <1>2, <1>3, <1>5 DEF Carries, Queued, Applies, Closing
<1>7. \A v \in Workers \ {w} : direct'[v] = direct[v] /\ pipe'[v] = pipe[v]
  BY <1>1, <1>4 DEF Emit
<1> QED
  BY <1>1, <1>6, <1>7, HandledWorker

\* A job settles its message by its first acceptance or its final failure.
LEMMA HandledPropagation ==
    ASSUME TypeInv, NEW w \in Workers, PropagationStep(w), NEW m \in OutIds, Handled(m)
    PROVE  Handled(m)'
<1> DEFINE j == Head(queue[w])
<1>1. /\ UNCHANGED <<pc, op, reply, status, direct>> /\ queue[w] # <<>>
  BY DEF PropagationStep, NodeAccepted, NodeFailed, ReplicationComplete, FinalFailure, threadVars
<1>j. /\ j \in Job /\ j.m \in OutIds /\ j.targets \in SUBSET Nodes /\ j.todo \in SUBSET Nodes /\ j.ok \in Nat
      /\ "propagation" \in DeliveryMethod
  BY <1>1, HeadType DEF Job, DeliveryMethod
<1>4. queue \in [Workers -> Seq(Job)] /\ pipe \in [Workers -> Seq(Report)]
  BY DEF TypeInv, TypeOK
<1>a. ASSUME NEW e \in Report, Emit(w, e), \A v \in Workers \ {w} : queue'[v] = queue[v],
             Queued(w, m) => Queued(w, m)' \/ Settles(e, m)
      PROVE  Handled(m)'
  <2>1. /\ Piped(w, m) => Piped(w, m)'
        /\ Settles(e, m) => Piped(w, m)'
    BY <1>a, PipedGrows
  <2>2. Carries(w, m) => Carries(w, m)'
    BY <1>1, <1>a, <2>1 DEF Carries, Applies, Closing
  <2>3. \A v \in Workers \ {w} : pipe'[v] = pipe[v]
    BY <1>4, <1>a DEF Emit
  <2> QED
    BY <1>1, <1>a, <2>2, <2>3, HandledWorker
<1>5. ASSUME NEW n \in Nodes, NodeAccepted(w, n) PROVE Handled(m)'
  <2> DEFINE e == Event("propagated", j.m, "propagation", {n}, 0)
             k == [j EXCEPT !.todo = j.todo \ {n}, !.ok = j.ok + 1]
  <2>1. e \in Report /\ Emit(w, e) /\ Continue(w, k)
    BY <1>j, <1>5, EventType DEF NodeAccepted
  <2>2. k \in Job
    <3>1. j.todo \ {n} \in SUBSET Nodes /\ j.ok + 1 \in Nat
      BY <1>j
    <3> QED
      BY <1>j, <3>1 DEF Job
  <2>3. Settles(e, j.m)
    BY DEF Settles, Event
  <2>4. Queued(w, m) => Queued(w, m)' \/ j.m = m
    BY <1>1, <2>1, <2>2, QueuedOn
  <2>5. \A v \in Workers \ {w} : queue'[v] = queue[v]
    BY <1>4, <2>1 DEF Continue
  <2> QED
    BY <1>a, <2>1, <2>3, <2>4, <2>5
<1>6. ASSUME NEW n \in Nodes, NodeFailed(w, n) PROVE Handled(m)'
  <2> DEFINE e == Event("nodefailed", j.m, "propagation", {n}, 0)
  <2>1. e \in Report /\ Emit(w, e)
    BY <1>j, <1>6, EventType DEF NodeFailed
  <2>2. PICK rest \in {j.todo \ {n}, {}} : Continue(w, [j EXCEPT !.todo = rest])
    BY <1>6 DEF NodeFailed
  <2> DEFINE k == [j EXCEPT !.todo = rest]
  <2>3. k \in Job /\ k.m = j.m /\ k.ok = j.ok /\ Continue(w, k)
    <3>1. rest \in SUBSET Nodes
      BY <1>j
    <3>2. k \in Job
      BY <1>j, <3>1 DEF Job
    <3> QED
      BY <1>j, <2>2, <3>2 DEF Job
  <2>4. Queued(w, m) => Queued(w, m)'
    BY <1>1, <2>3, QueuedOn
  <2>5. \A v \in Workers \ {w} : queue'[v] = queue[v]
    BY <1>4, <2>3 DEF Continue
  <2> QED
    BY <1>a, <2>1, <2>4, <2>5
<1>7. CASE ReplicationComplete(w)
  <2> DEFINE e == Event("complete", j.m, "propagation", j.targets, j.ok)
             k == [j EXCEPT !.complete = TRUE]
  <2>1. e \in Report /\ Emit(w, e)
    BY <1>j, <1>7, EventType DEF ReplicationComplete
  <2>0. j.ok > 0 => j.ok # 0
    BY <1>j
  <2>2. CASE j.ok > 0
    <3>1. queue' = [queue EXCEPT ![w] = Tail(@)]
      BY <1>7, <2>2 DEF ReplicationComplete, JobOver
    <3>2. Queued(w, m) => Queued(w, m)'
      BY <1>1, <2>0, <2>2, <3>1, QueuedRest
    <3> QED
      BY <1>4, <1>a, <2>1, <3>1, <3>2
  <2>3. CASE ~(j.ok > 0)
    <3>1. Continue(w, k)
      BY <1>7, <2>3 DEF ReplicationComplete, JobOver
    <3>2. k \in Job /\ k.m = j.m /\ k.ok = j.ok
      BY <1>j DEF Job
    <3>3. Queued(w, m) => Queued(w, m)'
      BY <1>1, <3>1, <3>2, QueuedOn
    <3>4. \A v \in Workers \ {w} : queue'[v] = queue[v]
      BY <1>4, <3>1 DEF Continue
    <3> QED
      BY <1>a, <2>1, <3>3, <3>4
  <2> QED
    BY <2>2, <2>3
<1>8. CASE FinalFailure(w)
  <2> DEFINE e == Event("failed", j.m, "propagation", {}, 0)
  <2>1. e \in Report /\ Emit(w, e) /\ queue' = [queue EXCEPT ![w] = Tail(@)]
    BY <1>j, <1>8, EventType DEF FinalFailure
  <2>2. Settles(e, j.m)
    BY DEF Settles, Event
  <2>3. Queued(w, m) => Queued(w, m)' \/ j.m = m
    BY <1>1, <2>1, QueuedRest
  <2> QED
    BY <1>4, <1>a, <2>1, <2>2, <2>3
<1> QED
  BY <1>5, <1>6, <1>7, <1>8 DEF PropagationStep

\* The answer to a request goes with the message: to the worker's work, or
\* back to the thread as an error.
LEMMA HandledControl ==
    ASSUME TypeInv, RequestInv, NEW w \in Workers, ControlStep(w), NEW m \in OutIds, Handled(m)
    PROVE  Handled(m)'
<1> DEFINE r == Head(requests[w])
<1>t. /\ direct \in [Workers -> [OutIds -> Nat]] /\ queue \in [Workers -> Seq(Job)]
      /\ reply \in [Threads -> {"none", "queued", "error"}] /\ requests \in [Workers -> Seq(Request)]
  BY DEF TypeInv, TypeOK
<1>1. requests[w] # <<>> /\ UNCHANGED <<pc, op, status, pipe>>
  BY DEF ControlStep, AcceptRequest, RefuseRequest
<1>2. r \in Request /\ r.caller \in Http \cup {NoCaller} /\ r.m \in OutIds /\ r.targets \in SUBSET Nodes
  BY <1>1, HeadType DEF Request
<1>c. PICK c \in Http \cup {NoCaller}, n \in OutIds : c = r.caller /\ n = r.m
  BY <1>2
<1>3. c \in Http => op[c].m = n
  <2>1. 1 \in 1 .. Len(requests[w]) /\ requests[w][1] = r
    BY <1>t, <1>1
  <2> QED
    BY <1>c, <2>1 DEF RequestInv, Awaited
<1>4. CASE AcceptRequest(w)
  <2>1. Answer(c, "queued")
    BY <1>4, <1>c DEF AcceptRequest
  <2>2. \A u \in Threads : u # c => reply'[u] = reply[u]
    BY <1>t, <2>1 DEF Answer
  <2>3. /\ \A v \in Workers \ {w} : direct'[v] = direct[v] /\ queue'[v] = queue[v]
        /\ \A x \in OutIds : direct[w][x] > 0 => direct'[w][x] > 0
        /\ Queued(w, m) => Queued(w, m)'
        /\ direct'[w][n] > 0 \/ Queued(w, n)'
    <3>1. CASE r.method = "direct"
      <4>1. direct' = [direct EXCEPT ![w][n] = @ + 1] /\ queue' = queue
        BY <1>4, <1>c, <3>1 DEF AcceptRequest
      <4>2. \A x \in OutIds : direct[w][x] \in Nat /\ direct'[w][x] \in {direct[w][x], direct[w][x] + 1}
        BY <1>t, <4>1
      <4>3. direct'[w][n] = direct[w][n] + 1 /\ direct[w][n] \in Nat
        BY <1>t, <4>1
      <4>4. \A v \in Workers \ {w} : direct'[v] = direct[v]
        BY <1>t, <4>1
      <4>5. direct'[w][n] > 0
        BY <4>3
      <4>6. Queued(w, m) => Queued(w, m)'
        BY <4>1 DEF Queued
      <4>7. \A x \in OutIds : direct[w][x] > 0 => direct'[w][x] > 0
        BY <4>2
      <4> QED
        BY <4>1, <4>4, <4>5, <4>6, <4>7
    <3>2. CASE r.method # "direct"
      <4> DEFINE j == [m |-> n, targets |-> r.targets, todo |-> r.targets, ok |-> 0, complete |-> FALSE]
      <4>1. queue' = [queue EXCEPT ![w] = Append(@, j)] /\ direct' = direct
        BY <1>4, <1>c, <3>2 DEF AcceptRequest
      <4>2. j \in Job /\ j.m = n /\ j.ok = 0 /\ queue[w] \in Seq(Job) /\ Len(queue[w]) \in Nat
        <5>1. j \in Job
          BY <1>2 DEF Job
        <5> QED
          BY <1>t, <5>1
      <4> HIDE DEF j
      <4>3. /\ Len(queue'[w]) = Len(queue[w]) + 1 /\ queue'[w][Len(queue[w]) + 1] = j
            /\ \A i \in 1 .. Len(queue[w]) : i \in 1 .. Len(queue'[w]) /\ queue'[w][i] = queue[w][i]
        <5>1. queue'[w] = Append(queue[w], j)
          BY <1>t, <4>1
        <5> QED
          BY <4>2, <5>1, AppendKeeps
      <4>4. Len(queue[w]) + 1 \in 1 .. Len(queue'[w])
        BY <4>2, <4>3
      <4>5. Queued(w, n)'
        BY <4>2, <4>3, <4>4 DEF Queued
      <4>6. Queued(w, m) => Queued(w, m)'
        BY <4>3 DEF Queued
      <4> QED
        BY <1>t, <4>1, <4>5, <4>6
    <3> QED
      BY <3>1, <3>2
  <2>4. Carries(w, m) => Carries(w, m)'
    BY <1>1, <2>3 DEF Carries, Piped, Applies, Closing
  <2>5. Carries(w, n)'
    BY <2>3 DEF Carries
  <2>6. c \in Http /\ Attends(c, m) => Handled(m)'
    <3>1. c \in Http /\ Attends(c, m) => n = m
      BY <1>3 DEF Attends
    <3> QED
      BY <2>5, <3>1 DEF Handled
  <2>7. Carries(w, m) => Handled(m)'
    BY <2>4 DEF Handled
  <2> DEFINE T == {w, c} \cap (Http \cup Workers)
  <2>8. /\ \A u \in Threads \ T : pc'[u] = pc[u] /\ op'[u] = op[u] /\ reply'[u] = reply[u]
        /\ \A v \in Workers \ T : /\ status'[v] = status[v] /\ direct'[v] = direct[v]
                                 /\ queue'[v] = queue[v] /\ pipe'[v] = pipe[v]
    <3>1. \A u \in Threads \ T : reply'[u] = reply[u]
      BY <1>c, <2>1, <2>2 DEF Answer
    <3> QED
      BY <1>1, <2>3, <3>1
  <2>9. /\ \A u \in Http : u \in T /\ Attends(u, m) => Handled(m)'
        /\ \A v \in Workers : v \in T /\ Carries(v, m) => Handled(m)'
        /\ Starter \notin T
    <3>1. NoCaller \notin Http
      BY OutboundAssumption
    <3>2. \A u \in Http : u \in T => u = c
      BY ThreadSets
    <3>3. ASSUME NEW v \in Workers, v \in T, Carries(v, m) PROVE Handled(m)'
      <4>1. v = w \/ (v = c /\ c = NoCaller /\ reply' = reply)
        BY <1>c, <2>1, <3>3, ThreadSets DEF Answer
      <4>2. CASE v # w
        <5>1. Carries(v, m)'
          BY <1>1, <2>3, <3>3, <4>2 DEF Carries, Queued, Piped, Applies, Closing
        <5> QED
          BY <5>1 DEF Handled
      <4> QED
        BY <2>7, <3>3, <4>2
    <3> QED
      BY <2>6, <3>2, <3>3, ThreadSets
  <2> HIDE DEF T
  <2> QED
    BY <2>8, <2>9, HandledFrame
<1>5. CASE RefuseRequest(w)
  <2>1. Answer(c, "error") /\ UNCHANGED <<direct, queue>>
    BY <1>5, <1>c DEF RefuseRequest
  <2>2. CASE c \in Http
    <3>1. \A u \in Threads \ {c} : reply'[u] = reply[u]
      BY <1>t, <2>1 DEF Answer
    <3>2. reply'[c] \in {reply[c], "error"}
      BY <1>t, <2>1, <2>2, ThreadSets DEF Answer
    <3>3. Attends(c, m) => Attends(c, m)'
      BY <1>1, <3>2 DEF Attends
    <3> QED
      BY <1>1, <2>1, <2>2, <3>1, <3>3, HandledThread
  <2>3. CASE c \notin Http
    <3>1. UNCHANGED <<pc, op, reply, status, direct, queue, pipe>>
      BY <1>1, <1>c, <2>1, <2>3 DEF Answer
    <3> QED
      BY <3>1 DEF Handled, Attends, Carries, Queued, Piped, Applies, Closing
  <2> QED
    BY <2>2, <2>3
<1> QED
  BY <1>4, <1>5 DEF ControlStep

\* The next event is on its way until it is applied.
LEMMA HandledOutput ==
    ASSUME TypeInv, NEW w \in Workers, OutputStep(w), NEW m \in OutIds, Handled(m)
    PROVE  Handled(m)'
<1>t. /\ pc \in [Threads -> {"idle", "read", "truncate", "write", "control", "wait", "done"}]
      /\ op \in [Threads -> Op] /\ pipe \in [Workers -> Seq(Report)] /\ w \in Threads
  BY ThreadSets DEF TypeInv, TypeOK
<1>1. /\ UNCHANGED <<reply, status, direct, queue>> /\ pc[w] = "idle" /\ pc'[w] = "read"
      /\ \A u \in Threads \ {w} : pc'[u] = pc[u] /\ op'[u] = op[u]
      /\ \A v \in Workers \ {w} : pipe'[v] = pipe[v]
  BY <1>t DEF OutputStep, ReadEvent, ReadExit, Begin, workerVars
<1>2. Piped(w, m) => Piped(w, m)' \/ Applies(w, m)'
  <2>1. CASE ReadEvent(w)
    <3>1. pipe[w] # <<>> /\ pipe'[w] = Tail(pipe[w]) /\ op'[w] = Head(pipe[w])
      BY <1>t, <2>1 DEF ReadEvent, Begin
    <3>2. ASSUME NEW i \in 1 .. Len(pipe[w]), Settles(pipe[w][i], m)
          PROVE  Piped(w, m)' \/ Applies(w, m)'
      <4>1. pipe[w] \in Seq(Report)
        BY <1>t
      <4>2. CASE i = 1 /\ pipe[w][i] = Head(pipe[w])
        BY <1>1, <3>1, <3>2, <4>2 DEF Applies, Settles
      <4>3. CASE i - 1 \in 1 .. Len(pipe'[w]) /\ pipe'[w][i - 1] = pipe[w][i]
        BY <3>2, <4>3 DEF Piped, Settles
      <4> QED
        BY <3>1, <4>1, <4>2, <4>3, TailKeeps
    <3> QED
      BY <3>2 DEF Piped
  <2>2. CASE ReadExit(w)
    BY <2>2 DEF ReadExit, Piped
  <2> QED
    BY <2>1, <2>2 DEF OutputStep
<1>3. Carries(w, m) => Carries(w, m)'
  BY <1>1, <1>2 DEF Carries, Queued, Applies, Closing
<1> QED
  BY <1>1, <1>3, HandledWorker

\* A process that starts has nothing; one that ends leaves its exit to apply.
LEMMA HandledLife ==
    ASSUME TypeInv, NEW w \in Workers, Ended(w), NEW m \in OutIds, Handled(m),
           \/ \E n \in InIds : ReceiveMessage(w, n)
           \/ WorkerExit(w) \/ StartWorker(w)
    PROVE  Handled(m)'
<1>t. /\ status \in [Workers -> {"unused", "running", "exited"}] /\ pipe \in [Workers -> Seq(Report)]
      /\ direct \in [Workers -> [OutIds -> Nat]] /\ queue \in [Workers -> Seq(Job)]
  BY DEF TypeInv, TypeOK
<1>1. CASE \E n \in InIds : ReceiveMessage(w, n)
  <2> PICK n \in InIds : ReceiveMessage(w, n)
    BY <1>1
  <2> DEFINE e == PlainOp("received", n)
  <2>1. e \in Report
    BY ThreadSets, PlainOpType DEF Report, PlainOp, OpKind
  <2>2. Emit(w, e) /\ UNCHANGED <<pc, op, reply, status, direct, queue>>
    BY DEF ReceiveMessage, threadVars, workerVars
  <2>3. Piped(w, m) => Piped(w, m)'
    BY <2>1, <2>2, PipedGrows
  <2>4. Carries(w, m) => Carries(w, m)'
    BY <2>2, <2>3 DEF Carries, Queued, Applies, Closing
  <2>5. \A v \in Workers \ {w} : pipe'[v] = pipe[v]
    BY <1>t, <2>2 DEF Emit
  <2> QED
    BY <2>2, <2>4, <2>5, HandledWorker
<1>2. CASE WorkerExit(w)
  <2>1. /\ UNCHANGED <<pc, op, reply, pipe>> /\ status[w] = "running" /\ status'[w] = "exited"
        /\ \A v \in Workers \ {w} : status'[v] = status[v] /\ direct'[v] = direct[v] /\ queue'[v] = queue[v]
    BY <1>t, <1>2 DEF WorkerExit, Running, threadVars
  <2>2. pc[w] # "done"
    BY <2>1 DEF Ended
  <2>3. Carries(w, m)'
    BY <2>1, <2>2 DEF Carries, Closing
  <2> QED
    BY <2>1, <2>3, HandledWorker
<1>3. CASE StartWorker(w)
  <2>1. /\ UNCHANGED <<pc, op, reply, direct, queue, pipe>> /\ status[w] = "unused"
        /\ \A v \in Workers \ {w} : status'[v] = status[v]
    BY <1>t, <1>3 DEF StartWorker, threadVars
  <2>2. Carries(w, m) => Carries(w, m)'
    BY <2>1 DEF Carries, Queued, Piped, Applies, Closing
  <2> QED
    BY <2>1, <2>2, HandledWorker
<1> QED
  BY <1>1, <1>2, <1>3

-----------------------------------------------------------------------------
LEMMA EndedNext == TypeInv /\ (\A w \in Workers : Ended(w)) /\ [Next]_vars => \A w \in Workers : Ended(w)'
<1> SUFFICES ASSUME TypeInv, \A v \in Workers : Ended(v), [Next]_vars, NEW w \in Workers PROVE Ended(w)'
  OBVIOUS
<1>t. /\ pc \in [Threads -> {"idle", "read", "truncate", "write", "control", "wait", "done"}]
      /\ op \in [Threads -> Op] /\ pipe \in [Workers -> Seq(Report)] /\ w \in Threads
      /\ status \in [Workers -> {"unused", "running", "exited"}]
      /\ Ended(w) /\ NoOp.kind = "clear"
  BY ThreadSets DEF TypeInv, TypeOK, NoOp, PlainOp
<1>a. ASSUME pc'[w] = "done" \/ op'[w].kind = "workerexit" => pc[w] = "done" \/ op[w].kind = "workerexit",
             op'[w].kind = "restart" => op[w].kind = "restart",
             status[w] = "exited" => status'[w] = "exited"
      PROVE  Ended(w)'
  BY <1>a, <1>t DEF Ended
<1>b. ASSUME NEW t \in Threads, \A u \in Threads \ {t} : pc'[u] = pc[u] /\ op'[u] = op[u],
             status' = status, t # w
      PROVE  Ended(w)'
  BY <1>b, <1>a, <1>t
<1>1. ASSUME NEW t \in Threads, StoreStep(t) PROVE Ended(w)'
  <2>1. /\ \A u \in Threads \ {t} : pc'[u] = pc[u] /\ op'[u] = op[u]
        /\ status' = status
    BY <1>t, <1>1 DEF StoreStep, StoreRead, StoreReadFails, StoreTruncate, StoreWrite, AfterWrite, Finish,
       Begin,
       workerVars
  <2>2. CASE t = w
    <3>1. op[w].kind \notin {"restart", "add", "retry", "queued", "sendfailed"}
      BY <1>t, ThreadSets DEF Ended, TypeInv, OpShape
    <3>2. CASE Finish(w)
      BY <1>t, <2>1, <3>2 DEF Finish, Begin, Ended
    <3>3. CASE op' = op /\ pc'[w] # "done"
      BY <1>t, <2>1, <3>3 DEF Ended
    <3>4. Finish(w) \/ (op' = op /\ pc'[w] # "done")
      BY <1>t, <1>1, <2>2, <3>1 DEF StoreStep, StoreRead, StoreReadFails, StoreTruncate, StoreWrite, AfterWrite
    <3> QED
      BY <3>2, <3>3, <3>4
  <2> QED
    BY <1>b, <2>1, <2>2
<1>2. ASSUME NEW t \in Http, User(t) \/ HttpStep(t) PROVE Ended(w)'
  <2>1. /\ \A u \in Threads \ {t} : pc'[u] = pc[u] /\ op'[u] = op[u]
        /\ status' = status
    BY <1>t, <1>2 DEF User, SendMessage, RepeatMessage, RemoveMessage, ClearMessages, HttpStep, SubmitRequest,
       SubmitFails, ReplyQueued, ReplyFailed, ReplyTimeout, FailedSend, Begin, workerVars
  <2>2. t # w /\ t \in Threads
    BY ThreadSets
  <2> QED
    BY <1>b, <2>1, <2>2
<1>3. ASSUME UNCHANGED <<pc, op>>, status[w] = "exited" => status'[w] = "exited" PROVE Ended(w)'
  BY <1>a, <1>3
<1>4. ASSUME NEW v \in Workers, \/ ControlStep(v) \/ DirectStep(v) \/ PropagationStep(v)
                                \/ \E m \in InIds : ReceiveMessage(v, m)
      PROVE  Ended(w)'
  BY <1>3, <1>4, Zenon DEF ControlStep, AcceptRequest, RefuseRequest, DirectStep, DirectOutcome, PropagationStep,
     NodeAccepted, NodeFailed, ReplicationComplete, FinalFailure, ReceiveMessage, threadVars, workerVars
<1>5. ASSUME NEW v \in Workers, WorkerExit(v) \/ StartWorker(v) PROVE Ended(w)'
  BY <1>3, <1>5, <1>t DEF WorkerExit, StartWorker, threadVars
<1>6. ASSUME NEW v \in Workers, OutputStep(v) PROVE Ended(w)'
  <2>1. /\ \A u \in Threads \ {v} : pc'[u] = pc[u] /\ op'[u] = op[u]
        /\ status' = status /\ v \in Threads /\ pc'[v] = "read"
    BY <1>t, <1>6, ThreadSets DEF OutputStep, ReadEvent, ReadExit, Begin, workerVars
  <2>2. CASE ReadEvent(v) /\ v = w
    <3>1. op'[w] = Head(pipe[w]) /\ Head(pipe[w]) \in Report
      BY <1>t, <2>2, HeadType DEF ReadEvent, Begin
    <3>2. op'[w].kind \notin {"workerexit", "restart"}
      BY <3>1 DEF Report
    <3> QED
      BY <2>1, <2>2, <3>2 DEF Ended
  <2>3. CASE ReadExit(v) /\ v = w
    BY <1>t, <2>1, <2>3 DEF ReadExit, Begin, PlainOp, Ended
  <2> QED
    BY <1>6, <1>b, <2>1, <2>2, <2>3 DEF OutputStep
<1>7. CASE RestartController
  <2>1. /\ op'[w] = NoOp /\ (pc'[w] = "done" => status[w] # "unused")
        /\ status'[w] = IF status[w] = "running" THEN "exited" ELSE status[w]
    BY <1>t, <1>7, ThreadSets DEF RestartController
  <2> QED
    BY <1>t, <2>1 DEF Ended
<1>8. CASE UNCHANGED vars
  BY <1>3, <1>8 DEF vars
<1>9. CASE \E t \in Http : User(t) \/ HttpStep(t)
  BY <1>2, <1>9
<1>10. CASE \E v \in Workers : ControlStep(v) \/ DirectStep(v) \/ PropagationStep(v) \/ OutputStep(v)
  BY <1>4, <1>6, <1>10
<1>11. CASE \E v \in Workers : \/ \E m \in InIds : ReceiveMessage(v, m)
                               \/ WorkerExit(v) \/ StartWorker(v)
  BY <1>4, <1>5, <1>11
<1>12. CASE \E t \in Threads : StoreStep(t)
  BY <1>1, <1>12
<1> QED
  BY <1>7, <1>8, <1>9, <1>10, <1>11, <1>12 DEF Next

\* What was disturbed stays so.
LEMMA DisturbedStays == [Next]_vars /\ disturbed => disturbed'
  BY Zenon DEF Next, StoreStep, StoreRead, StoreReadFails, StoreTruncate, StoreWrite, User, SendMessage,
     RepeatMessage,
     RemoveMessage, ClearMessages, HttpStep, SubmitRequest, SubmitFails, ReplyQueued, ReplyFailed, ReplyTimeout,
     ControlStep, AcceptRequest, RefuseRequest, DirectStep, DirectOutcome, PropagationStep, NodeAccepted,
     NodeFailed, ReplicationComplete, FinalFailure, OutputStep, ReadEvent, ReadExit, ReceiveMessage, WorkerExit,
     StartWorker, RestartController, historyVars, vars

HandledInv ==
    /\ TypeInv /\ RequestInv /\ \A w \in Workers : Ended(w)
    /\ ~disturbed => FileSound /\ \A m \in OutIds : messages[m].state = "sending" => Handled(m)

LEMMA HandledNext == HandledInv /\ [Next]_vars => HandledInv'
<1> SUFFICES ASSUME HandledInv, [Next]_vars PROVE HandledInv'
  OBVIOUS
<1>1. TypeInv /\ RequestInv /\ (\A w \in Workers : Ended(w)) /\ (~disturbed => FileSound)
  BY DEF HandledInv
<1>2. TypeInv' /\ RequestInv' /\ (~disturbed' => FileSound')
  BY <1>1, NextType, RequestNext, FileNext
<1>3. \A w \in Workers : Ended(w)'
  BY <1>1, EndedNext
<1>4. ASSUME ~disturbed', NEW m \in OutIds, messages'[m].state = "sending" PROVE Handled(m)'
  <2>1. ~disturbed
    BY <1>4, DisturbedStays
  <2>2. FileSound /\ (messages[m].state = "sending" => Handled(m))
    BY <2>1 DEF HandledInv
  <2>3. CASE \E t \in Threads : StoreStep(t)
    BY <1>1, <1>4, <2>2, <2>3, HandledStore
  <2>4. ASSUME messages' = messages PROVE Handled(m)
    BY <1>4, <2>2, <2>4
  <2>5. ASSUME NEW t \in Http, User(t) \/ HttpStep(t) PROVE Handled(m)'
    <3>1. messages' = messages
      BY <2>5 DEF User, SendMessage, RepeatMessage, RemoveMessage, ClearMessages, HttpStep, SubmitRequest,
         SubmitFails, ReplyQueued, ReplyFailed, ReplyTimeout, fileVars
    <3> QED
      BY <1>1, <2>4, <2>5, <3>1, HandledUser, HandledHttp
  <2>6. ASSUME NEW w \in Workers, ControlStep(w) \/ DirectStep(w) \/ PropagationStep(w) \/ OutputStep(w)
        PROVE  Handled(m)'
    <3>1. messages' = messages
      BY <2>6, Zenon DEF ControlStep, AcceptRequest, RefuseRequest, DirectStep, DirectOutcome, PropagationStep,
         NodeAccepted, NodeFailed, ReplicationComplete, FinalFailure, OutputStep, ReadEvent, ReadExit, fileVars
    <3> QED
      BY <1>1, <2>4, <2>6, <3>1, HandledControl, HandledDirect, HandledPropagation, HandledOutput
  <2>7. ASSUME NEW w \in Workers, \/ \E n \in InIds : ReceiveMessage(w, n)
                                  \/ WorkerExit(w) \/ StartWorker(w)
        PROVE  Handled(m)'
    <3>1. messages' = messages
      BY <2>7 DEF ReceiveMessage, WorkerExit, StartWorker, fileVars
    <3> QED
      BY <1>1, <2>4, <2>7, <3>1, HandledLife
  <2>8. CASE RestartController
    <3>1. op'[Starter].kind = "restart"
      BY <2>8, ThreadSets DEF RestartController, PlainOp
    <3> QED
      BY <3>1 DEF Handled
  <2>9. CASE UNCHANGED vars
    <3>1. UNCHANGED <<messages, pc, op, reply, status, direct, queue, pipe>>
      BY <2>9 DEF vars
    <3> QED
      BY <2>4, <3>1 DEF Handled, Attends, Carries, Queued, Piped, Applies, Closing
  <2> QED
    BY <2>3, <2>5, <2>6, <2>7, <2>8, <2>9 DEF Next
<1> QED
  BY <1>2, <1>3, <1>4 DEF HandledInv

LEMMA InitHandled == Init => HandledInv
<1> SUFFICES ASSUME Init PROVE HandledInv
  OBVIOUS
<1>1. TypeInv
  BY InitType
<1>2. \A w \in Workers : Len(requests[w]) = 0
  BY DEF Init
<1>3. RequestInv
  BY <1>2, ThreadSets DEF Init, RequestInv
<1>4. \A w \in Workers : Ended(w)
  BY ThreadSets DEF Init, Ended, NoOp, PlainOp
<1>5. FileSound
  BY DEF Init, FileSound
<1>6. \A m \in OutIds : messages[m].state = "absent"
  BY ThreadSets DEF Init, NoMessages, NoMessage
<1> QED
  BY <1>1, <1>3, <1>4, <1>5, <1>6 DEF HandledInv

(* As long as no two accesses to the conversation file have overlapped, a  *)
(* message shown as sending, which nobody may repeat, has somebody who     *)
(* will settle it: not a failure of its request, a late answer, an exit of *)
(* the worker with work left or a restart of the controller strands it.    *)
THEOREM NobodyForgotten == Spec => []SendingIsOwned
<1>1. ASSUME NEW m, Handled(m), TypeInv PROVE Owned(m)
  <2>1. \A w \in Workers : DOMAIN queue[w] = 1 .. Len(queue[w]) /\ DOMAIN pipe[w] = 1 .. Len(pipe[w])
    BY <1>1 DEF TypeInv, TypeOK
  <2> QED
    BY <1>1, <2>1 DEF Handled, Attends, Carries, Queued, Piped, Applies, Closing, Owned
<1>2. HandledInv => SendingIsOwned
  BY <1>1 DEF HandledInv, SendingIsOwned
<1> QED
  BY <1>2, InitHandled, HandledNext, PTL DEF Spec

-----------------------------------------------------------------------------
(* The attempts at a message are counted from one: a record without any is *)
(* an inbound one, or none.                                                *)
Counted(c) ==
    \A m \in MsgIds : /\ c[m].attempts = 0 => c[m].state \in {"absent", "received"}
                      /\ m \in OutIds => c[m].state # "received"

\* Only a retry of a settled message, or the first attempt, adds to them.
LEMMA WrittenCounted ==
    ASSUME NEW c \in Conversation, NEW o \in Op, Writes(o, c), Counted(c),
           o.kind = "received" => o.m \in InIds
    PROVE  /\ Counted(Written(o, c))
           /\ \A m \in OutIds : Written(o, c)[m].attempts > c[m].attempts
                  => c[m].state \notin {"sending", "received"}
<1>o. o.kind \in OpKind /\ o.m \in MsgIds /\ (o.m \in InIds => o.m \notin OutIds)
  BY OutboundAssumption DEF Op
<1> SUFFICES ASSUME NEW m \in MsgIds
             PROVE  LET r == Written(o, c)[m]
                    IN  /\ r.attempts = 0 => r.state \in {"absent", "received"}
                        /\ m \in OutIds => r.state # "received"
                        /\ m \in OutIds /\ r.attempts > c[m].attempts
                               => c[m].state \notin {"sending", "received"}
  BY ThreadSets DEF Counted
<1>m. /\ c[m] \in Message /\ c[m].attempts \in Nat /\ c \in [MsgIds -> Message]
      /\ c[m].attempts = 0 => c[m].state \in {"absent", "received"}
      /\ m \in OutIds => c[m].state # "received"
  BY DEF Conversation, Message, Counted
<1>1. CASE o.kind \in {"clear", "delete", "received"}
  BY <1>o, <1>m, <1>1 DEF Written, DeleteMessage, NoMessages, NoMessage, AddInbound
<1>2. CASE o.kind = "add"
  BY <1>o, <1>m, <1>2 DEF Written, AddOutbound, Attempt
<1>3. CASE o.kind = "retry"
  BY <1>o, <1>m, <1>3 DEF Written, Writes, Repeatable, PrepareRetry, Attempt
<1>4. CASE o.kind \in {"workerexit", "restart"}
  BY <1>m, <1>4 DEF Written, FailPending, Message
<1>5. CASE o.kind \in {"queued", "sendfailed", "delivered", "failed"}
  BY <1>o, <1>m, <1>5 DEF Written, Writes, ConfirmQueued, FailSend, RecordOutcome, Message
<1>6. CASE o.kind \in {"propagated", "nodefailed", "complete"}
  BY <1>o, <1>m, <1>6 DEF Written, Writes, RecordPropagated, RecordNodeFailed, CompleteReplication, Message
<1> QED
  BY <1>o, <1>1, <1>2, <1>3, <1>4, <1>5, <1>6 DEF OpKind

\* Undisturbed, the file changes by one operation at a time.
LEMMA FileChange ==
    ASSUME TypeInv, [Next]_vars, ~disturbed => FileSound, ~disturbed'
    PROVE  \/ messages' = messages
           \/ \E t \in Threads : Writes(op[t], messages) /\ messages' = Written(op[t], messages)
<1>1. CASE \E t \in Threads : StoreStep(t)
  <2> PICK t \in Threads : StoreStep(t)
    BY <1>1
  <2>1. CASE StoreWrite(t)
    BY <2>1 DEF StoreWrite, FileSound, Fresh, historyVars
  <2> QED
    BY <2>1 DEF StoreStep, StoreRead, StoreReadFails, StoreTruncate, fileVars
<1>2. CASE \E t \in Http : User(t) \/ HttpStep(t)
  BY <1>2 DEF User, SendMessage, RepeatMessage, RemoveMessage, ClearMessages, HttpStep, SubmitRequest,
     SubmitFails, ReplyQueued, ReplyFailed, ReplyTimeout, fileVars
<1>3. CASE \E w \in Workers : ControlStep(w) \/ DirectStep(w) \/ PropagationStep(w) \/ OutputStep(w)
  BY <1>3, Zenon DEF ControlStep, AcceptRequest, RefuseRequest, DirectStep, DirectOutcome, PropagationStep,
     NodeAccepted, NodeFailed, ReplicationComplete, FinalFailure, OutputStep, ReadEvent, ReadExit, fileVars
<1>4. CASE \E w \in Workers : \/ \E n \in InIds : ReceiveMessage(w, n)
                              \/ WorkerExit(w) \/ StartWorker(w)
  BY <1>4 DEF ReceiveMessage, WorkerExit, StartWorker, fileVars
<1>5. CASE RestartController
  BY <1>5 DEF RestartController, fileVars
<1>6. CASE UNCHANGED vars
  BY <1>6 DEF vars
<1> QED
  BY <1>1, <1>2, <1>3, <1>4, <1>5, <1>6 DEF Next

CountedInv == HandledInv /\ Evidence /\ (~disturbed => Counted(messages))

LEMMA CountedNext ==
    ASSUME CountedInv, [Next]_vars
    PROVE  /\ CountedInv'
           /\ \A m \in OutIds :
                 ~disturbed' /\ messages'[m].attempts > messages[m].attempts
                     => messages[m].state \notin {"sending", "received"}
<1>1. TypeInv /\ HandledInv /\ Evidence /\ (~disturbed => FileSound) /\ messages \in Conversation
      /\ op \in [Threads -> Op]
  BY DEF CountedInv, HandledInv, TypeInv, TypeOK
<1>2. HandledInv' /\ Evidence'
  BY <1>1, HandledNext, EvidenceStep
<1>3. ASSUME ~disturbed'
      PROVE  /\ Counted(messages')
             /\ \A m \in OutIds : messages'[m].attempts > messages[m].attempts
                    => messages[m].state \notin {"sending", "received"}
  <2>1. ~disturbed
    BY <1>3, DisturbedStays
  <2>2. Counted(messages)
    BY <2>1 DEF CountedInv
  <2>3. CASE messages' = messages
    <3>1. \A m \in OutIds : messages[m].attempts \in Nat
      BY <1>1, ThreadSets DEF Conversation, Message
    <3>2. \A m \in OutIds : ~(messages[m].attempts > messages[m].attempts)
      BY <3>1
    <3> QED
      BY <2>2, <2>3, <3>2
  <2>4. ASSUME NEW t \in Threads, Writes(op[t], messages), messages' = Written(op[t], messages)
        PROVE  /\ Counted(messages')
               /\ \A m \in OutIds : messages'[m].attempts > messages[m].attempts
                      => messages[m].state \notin {"sending", "received"}
    <3>1. op[t] \in Op /\ (op[t].kind = "received" => op[t].m \in InIds)
      BY <1>1 DEF Evidence, Backed
    <3> QED
      BY <1>1, <2>2, <2>4, <3>1, WrittenCounted
  <2> QED
    BY <1>1, <1>3, <2>3, <2>4, FileChange
<1>4. ~disturbed' => Counted(messages')
  BY <1>3
<1> QED
  BY <1>2, <1>3, <1>4 DEF CountedInv, Counted

LEMMA InitCounted == Init => CountedInv
<1> SUFFICES ASSUME Init PROVE CountedInv
  OBVIOUS
<1>1. HandledInv /\ Evidence
  BY InitHandled, InitEvidence
<1>2. Counted(messages)
  BY DEF Init, Counted, NoMessages, NoMessage
<1> QED
  BY <1>1, <1>2 DEF CountedInv

(* As long as no two accesses have overlapped, a new attempt starts only   *)
(* from a message that is settled: neither a second request nor a          *)
(* confirmation or an event that comes late restarts one under way.        *)
THEOREM RepeatsSettled == Spec => RetryOnlySettled
<1>1. Init => CountedInv
  BY InitCounted
<1>2. CountedInv /\ [Next]_vars => CountedInv'
  BY CountedNext
<1>3. CountedInv /\ [Next]_vars =>
          [\A m \in OutIds :
              ~disturbed' /\ messages'[m].attempts > messages[m].attempts
              => messages[m].state \notin {"sending", "received"}]_vars
  BY CountedNext
<1> QED
  BY <1>1, <1>2, <1>3, PTL DEF Spec, RetryOnlySettled

-----------------------------------------------------------------------------
(***************************************************************************)
(* The number of accepting nodes.  While a message has its first attempt   *)
(* only, what there is of it outside the file is in one place: with its    *)
(* request thread, in a request to a worker, or in one job and the events  *)
(* of that job.  The job counts the nodes that accepted (nodesOf), the     *)
(* worker's output tells of each of them before it tells the count, and    *)
(* is read in order.                                                       *)
(***************************************************************************)
\* The events of a worker not yet applied; number 0 is the one at work.
Ev(w, i) == IF i = 0 THEN op[w] ELSE pipe[w][i]

Tells(e, m) == e.m = m /\ e.kind = "propagated"
Closes(e, m) == e.m = m /\ e.kind = "complete"
Fails(e, m) == e.m = m /\ e.kind = "nodefailed"
News(e, m) == Tells(e, m) \/ Closes(e, m) \/ Fails(e, m)

AtControl(t, m) == pc[t] = "control" /\ op[t].m = m
NotAsked(m) == \A w \in Workers : \A i \in 1 .. Len(requests[w]) : requests[w][i].m # m

\* No worker has had the message.
Quiet(m) ==
    /\ nodesOf[m] = {}
    /\ \A w \in Workers : /\ \A i \in 0 .. Len(pipe[w]) : ~News(Ev(w, i), m)
                          /\ \A i \in 1 .. Len(queue[w]) : queue[w][i].m # m
Clean(m) == Quiet(m) /\ NotAsked(m) /\ \A t \in Http : ~AtControl(t, m)

\* Until its record is written, nothing is known of a message, and it is
\* written once.
First(t, m) == op[t].kind = "add" /\ op[t].m = m
Unsent(m) ==
    /\ m \notin drawn => /\ Clean(m) /\ messages[m].attempts = 0
                         /\ \A t \in Http : ~First(t, m)
    /\ \A t \in Http : First(t, m) =>
           /\ pc[t] \in {"read", "truncate", "write"} => Clean(m) /\ messages[m].attempts = 0
           /\ \A u \in Http : First(u, m) => u = t
    /\ \A t \in Http : AtControl(t, m) /\ messages[m].attempts = 1 => First(t, m)
    /\ messages[m].state = "absent" => messages[m].attempts = 0

\* It goes to one worker as one job.
OneSource(m) ==
    /\ \A t \in Http : AtControl(t, m) => Quiet(m) /\ NotAsked(m)
    /\ \A w \in Workers : \A i \in 1 .. Len(requests[w]) : requests[w][i].m = m =>
           /\ Quiet(m)
           /\ \A v \in Workers : \A j \in 1 .. Len(requests[v]) :
                  requests[v][j].m = m => v = w /\ j = i

\* Each node that accepted is in the file, or up to event k of the worker.
Told(w, k, m, n) == \E i \in 0 .. k : Tells(Ev(w, i), m) /\ n \in Ev(w, i).targets
Covered(w, k, m) ==
    \A n \in nodesOf[m] : messages[m].results[n] = "accepted" \/ Told(w, k, m, n)

JobSound(j, m) ==
    /\ j.ok = Cardinality(nodesOf[m]) /\ j.todo \cap nodesOf[m] = {}
    /\ j.complete => j.todo = {}
    /\ ~j.complete => \A v \in Workers : \A i \in 0 .. Len(pipe[v]) : ~Closes(Ev(v, i), m)
    /\ \A v \in Workers : \A i \in 0 .. Len(pipe[v]) :
           Fails(Ev(v, i), m) => Ev(v, i).targets \cap j.todo = {}
JobsSound(m) ==
    \A w \in Workers : \A i \in 1 .. Len(queue[w]) : queue[w][i].m = m =>
        /\ JobSound(queue[w][i], m) /\ Covered(w, Len(pipe[w]), m)
        /\ \A v \in Workers : \A k \in 1 .. Len(queue[v]) : queue[v][k].m = m => v = w /\ k = i
EventsSound(m) ==
    \A w \in Workers : \A i \in 0 .. Len(pipe[w]) :
        /\ Closes(Ev(w, i), m) => Ev(w, i).ok = Cardinality(nodesOf[m]) /\ Covered(w, i, m)
        /\ Fails(Ev(w, i), m) => Ev(w, i).targets \cap nodesOf[m] = {}
Traced(m) == OneSource(m) /\ JobsSound(m) /\ EventsSound(m)

FileCounts(m) ==
    /\ messages[m].accepted = AcceptedResults(messages[m].results)
    /\ \A n \in Nodes : messages[m].results[n] = "accepted" => n \in nodesOf[m]

\* Only the threads that read a worker's output apply its events.
Reporters ==
    \A t \in Threads : op[t].kind \in {"propagated", "nodefailed", "complete"} =>
        t \in Workers /\ pc[t] # "idle"

Sound(m) == Unsent(m) /\ (messages[m].attempts = 1 => FileCounts(m) /\ Traced(m))

CountInv == CountedInv /\ Reporters /\ (~disturbed => \A m \in OutIds : Sound(m))

\* What an operation makes of the attempts at a message and of its results.
Numbered(c, m) == (c[m].attempts = 0 <=> c[m].state = "absent") /\ c[m].state # "received"

LEMMA WrittenAttempts ==
    ASSUME NEW c \in Conversation, NEW o \in Op, Writes(o, c), NEW m \in OutIds, Numbered(c, m),
           o.kind = "received" => o.m \in InIds
    PROVE  LET r == Written(o, c)[m]
           IN  /\ r.state = "absent" => r.attempts = 0
               /\ r.attempts = 1 => c[m].attempts = 1 \/ (o.kind = "add" /\ o.m = m)
               /\ c[m].attempts = 0 => r.attempts = 0 \/ (o.kind = "add" /\ o.m = m)
               /\ o.kind = "retry" /\ o.m = m => r.attempts # 1
<1>o. o.kind \in OpKind /\ o.m \in MsgIds /\ (o.m \in InIds => o.m # m) /\ m \in MsgIds
  BY OutboundAssumption DEF Op
<1>m. /\ c[m] \in Message /\ c[m].attempts \in Nat /\ c \in [MsgIds -> Message]
      /\ c[m].attempts = 0 <=> c[m].state = "absent"
  BY <1>o DEF Conversation, Message, Numbered
<1>1. CASE o.kind \in {"clear", "delete", "received"}
  BY <1>o, <1>m, <1>1 DEF Written, DeleteMessage, NoMessages, NoMessage, AddInbound
<1>2. CASE o.kind = "add"
  BY <1>o, <1>m, <1>2 DEF Written, AddOutbound, Attempt
<1>3. CASE o.kind = "retry"
  BY <1>o, <1>m, <1>3 DEF Written, Writes, Repeatable, PrepareRetry, Attempt
<1>4. CASE o.kind \in {"workerexit", "restart"}
  BY <1>o, <1>m, <1>4 DEF Written, FailPending, Message
<1>5. CASE o.kind \in {"queued", "sendfailed", "delivered", "failed"}
  BY <1>o, <1>m, <1>5 DEF Written, Writes, ConfirmQueued, FailSend, RecordOutcome, Message
<1>6. CASE o.kind \in {"propagated", "nodefailed", "complete"}
  BY <1>o, <1>m, <1>6 DEF Written, Writes, RecordPropagated, RecordNodeFailed, CompleteReplication, Message
<1> QED
  BY <1>o, <1>1, <1>2, <1>3, <1>4, <1>5, <1>6 DEF OpKind

\* The first attempt has no result yet.
LEMMA WrittenFirst ==
    ASSUME NEW c \in Conversation, NEW o \in Op, o.kind = "add"
    PROVE  LET r == Written(o, c)[o.m]
           IN  r.accepted = 0 /\ \A n \in Nodes : r.results[n] # "accepted"
<1>1. o.m \in MsgIds /\ c \in [MsgIds -> Message]
  BY DEF Op, Conversation
<1>2. Written(o, c)[o.m] = Attempt(1, o.method, o.targets)
  BY <1>1 DEF Written, AddOutbound
<1>3. Attempt(1, o.method, o.targets).accepted = 0
  BY DEF Attempt
<1>4. Attempt(1, o.method, o.targets).results =
          [n \in Nodes |-> IF n \in o.targets THEN "pending" ELSE "none"]
  BY DEF Attempt
<1> QED
  BY <1>2, <1>3, <1>4

\* Only reports of nodes change its results, each by its nodes.
LEMMA WrittenResult ==
    ASSUME NEW c \in Conversation, NEW o \in Op, Writes(o, c), NEW m \in OutIds, Numbered(c, m),
           o.kind = "received" => o.m \in InIds, Written(o, c)[m].attempts = 1,
           ~(o.kind = "add" /\ o.m = m)
    PROVE  LET r == Written(o, c)[m]
           IN  /\ ~News(o, m) => r.results = c[m].results /\ r.accepted = c[m].accepted
               /\ Tells(o, m) => /\ r.results = SetResults(c[m].results, o.targets, "accepted")
                                 /\ r.accepted = AcceptedResults(r.results)
               /\ Fails(o, m) => /\ r.results = SetResults(c[m].results, o.targets, "failed")
                                 /\ r.accepted = c[m].accepted
               /\ Closes(o, m) =>
                      /\ r.accepted = o.ok
                      /\ \A n \in Nodes : r.results[n] = "accepted" <=> c[m].results[n] = "accepted"
<1> USE DEF News, Tells, Fails, Closes
<1>o. o.kind \in OpKind /\ o.m \in MsgIds /\ (o.m \in InIds => o.m # m) /\ m \in MsgIds
  BY OutboundAssumption DEF Op
<1>m. /\ c[m] \in Message /\ c[m].attempts \in Nat /\ c \in [MsgIds -> Message]
      /\ c[m].attempts = 0 <=> c[m].state = "absent"
  BY <1>o DEF Conversation, Message, Numbered
<1>1. CASE o.kind \in {"clear", "delete", "received"}
  BY <1>o, <1>m, <1>1 DEF Written, DeleteMessage, NoMessages, NoMessage, AddInbound
<1>2. CASE o.kind = "add"
  BY <1>o, <1>m, <1>2 DEF Written, AddOutbound
<1>3. CASE o.kind = "retry"
  <2>1. o.m # m
    BY <1>3, WrittenAttempts
  <2> QED
    BY <1>o, <1>m, <1>3, <2>1 DEF Written, PrepareRetry
<1>4. CASE o.kind \in {"workerexit", "restart"}
  BY <1>o, <1>m, <1>4 DEF Written, FailPending, Message
<1>5. CASE o.kind \in {"queued", "sendfailed", "delivered", "failed"}
  BY <1>o, <1>m, <1>5 DEF Written, ConfirmQueued, FailSend, RecordOutcome, Message
<1>6. CASE o.kind \in {"propagated", "nodefailed", "complete"} /\ o.m # m
  BY <1>o, <1>m, <1>6 DEF Written, RecordPropagated, RecordNodeFailed, CompleteReplication
<1>7. CASE o.kind = "propagated" /\ o.m = m
  BY <1>o, <1>m, <1>7 DEF Written, RecordPropagated, Message
<1>8. CASE o.kind = "nodefailed" /\ o.m = m
  BY <1>o, <1>m, <1>8 DEF Written, RecordNodeFailed, Message
<1>9. CASE o.kind = "complete" /\ o.m = m
  BY <1>o, <1>m, <1>9 DEF Written, CompleteReplication, Message
<1> QED
  BY <1>o, <1>1, <1>2, <1>3, <1>4, <1>5, <1>6, <1>7, <1>8, <1>9 DEF OpKind

-----------------------------------------------------------------------------
(* What a step leaves of a message: each worker's news of it are old ones, *)
(* in the same order, at most one event further on; so are jobs and        *)
(* requests; and an acceptance not yet applied is still there, or applied. *)
NewsFrom(w, m, d) ==
    \A i \in 0 .. Len(pipe'[w]) : News(Ev(w, i)', m) =>
        i + d \in 0 .. Len(pipe[w]) /\ Ev(w, i)' = Ev(w, i + d)
TellsKept(w, m, d) ==
    \A i \in 0 .. Len(pipe[w]) : Tells(Ev(w, i), m) =>
        \/ i - d \in 0 .. Len(pipe'[w]) /\ Ev(w, i - d)' = Ev(w, i)
        \/ \A n \in Ev(w, i).targets : messages'[m].results[n] = "accepted"

NewsOld(m) == \A w \in Workers : \E d \in {0, 1} : NewsFrom(w, m, d)
LinesKept(m) == \A w \in Workers : \E d \in {0, 1} : NewsFrom(w, m, d) /\ TellsKept(w, m, d)
JobsOld(m) ==
    \A w \in Workers : \E d \in {0, 1} : \A i \in 1 .. Len(queue'[w]) : queue'[w][i].m = m =>
        i + d \in 1 .. Len(queue[w]) /\ queue'[w][i] = queue[w][i + d]
RequestsOld(m) ==
    \A w \in Workers : \E d \in {0, 1} : \A i \in 1 .. Len(requests'[w]) : requests'[w][i].m = m =>
        i + d \in 1 .. Len(requests[w]) /\ requests[w][i + d].m = m
ControlOld(m) == \A t \in Http : AtControl(t, m)' => AtControl(t, m)

LEMMA QuietStays ==
    ASSUME NEW m, NewsOld(m), JobsOld(m), nodesOf'[m] = nodesOf[m], Quiet(m)
    PROVE  Quiet(m)'
<1>1. ASSUME NEW w \in Workers, NEW i \in 0 .. Len(pipe'[w]), News(Ev(w, i)', m) PROVE FALSE
  BY <1>1 DEF NewsOld, NewsFrom, Quiet
<1>2. ASSUME NEW w \in Workers, NEW i \in 1 .. Len(queue'[w]), queue'[w][i].m = m PROVE FALSE
  BY <1>2 DEF JobsOld, Quiet
<1>3. \A w \in Workers : \A i \in 0 .. Len(pipe'[w]) : ~News(Ev(w, i), m)'
  BY <1>1 DEF News, Tells, Closes, Fails
<1> QED
  BY <1>2, <1>3 DEF Quiet

LEMMA NotAskedStays == ASSUME NEW m, RequestsOld(m), NotAsked(m) PROVE NotAsked(m)'
  BY DEF RequestsOld, NotAsked

LEMMA CleanStays ==
    ASSUME NEW m, NewsOld(m), JobsOld(m), RequestsOld(m), ControlOld(m), nodesOf'[m] = nodesOf[m], Clean(m)
    PROVE  Clean(m)'
  BY QuietStays, NotAskedStays DEF Clean, ControlOld

LEMMA OneSourceStays ==
    ASSUME NEW m, NewsOld(m), JobsOld(m), RequestsOld(m), ControlOld(m), nodesOf'[m] = nodesOf[m],
           OneSource(m)
    PROVE  OneSource(m)'
<1>1. ASSUME NEW t \in Http, AtControl(t, m)' PROVE Quiet(m)' /\ NotAsked(m)'
  BY <1>1, QuietStays, NotAskedStays DEF ControlOld, OneSource
<1>2. ASSUME NEW w \in Workers, NEW i \in 1 .. Len(requests'[w]), requests'[w][i].m = m
      PROVE  /\ Quiet(m)'
             /\ \A v \in Workers : \A j \in 1 .. Len(requests'[v]) :
                    requests'[v][j].m = m => v = w /\ j = i
  <2>1. PICK d \in {0, 1} : \A k \in 1 .. Len(requests'[w]) : requests'[w][k].m = m =>
            k + d \in 1 .. Len(requests[w]) /\ requests[w][k + d].m = m
    BY DEF RequestsOld
  <2>2. i + d \in 1 .. Len(requests[w]) /\ requests[w][i + d].m = m
    BY <1>2, <2>1
  <2>3. Quiet(m)
    BY <2>2 DEF OneSource
  <2>4. ASSUME NEW v \in Workers, NEW j \in 1 .. Len(requests'[v]), requests'[v][j].m = m
        PROVE  v = w /\ j = i
    <3>1. PICK e \in {0, 1} : j + e \in 1 .. Len(requests[v]) /\ requests[v][j + e].m = m
      BY <2>4 DEF RequestsOld
    <3>2. v = w
      BY <2>2, <3>1 DEF OneSource
    <3>3. j + d \in 1 .. Len(requests[w]) /\ requests[w][j + d].m = m
      BY <2>1, <2>4, <3>2
    <3>4. j + d = i + d
      BY <2>2, <3>3 DEF OneSource
    <3> QED
      BY <3>2, <3>4
  <2> QED
    BY <2>3, <2>4, QuietStays
<1> QED
  BY <1>1, <1>2 DEF OneSource

LEMMA CoveredStays ==
    ASSUME NEW m, NEW w \in Workers, NEW d \in {0, 1}, TellsKept(w, m, d), nodesOf'[m] = nodesOf[m],
           nodesOf[m] \subseteq Nodes,
           \A n \in Nodes : messages[m].results[n] = "accepted" => messages'[m].results[n] = "accepted",
           NEW k \in Nat, k + d \in 0 .. Len(pipe[w]), Covered(w, k + d, m)
    PROVE  Covered(w, k, m)'
<1> SUFFICES ASSUME NEW n \in nodesOf[m], messages'[m].results[n] # "accepted"
             PROVE  Told(w, k, m, n)'
  BY DEF Covered
<1>1. Told(w, k + d, m, n)
  BY DEF Covered
<1>2. PICK i \in 0 .. k + d : Tells(Ev(w, i), m) /\ n \in Ev(w, i).targets
  BY <1>1 DEF Told
<1>3. i - d \in 0 .. Len(pipe'[w]) /\ Ev(w, i - d)' = Ev(w, i)
  BY <1>2 DEF TellsKept
<1>4. i - d \in 0 .. k
  BY <1>2, <1>3
<1>5. Tells(Ev(w, i - d)', m) /\ n \in Ev(w, i - d)'.targets
  BY <1>2, <1>3
<1> QED
  BY <1>4, <1>5 DEF Told, Tells

LEMMA JobsSoundStay ==
    ASSUME TypeInv, TypeInv', NEW m \in OutIds, LinesKept(m), JobsOld(m), nodesOf'[m] = nodesOf[m],
           \A n \in Nodes : messages[m].results[n] = "accepted" => messages'[m].results[n] = "accepted",
           JobsSound(m)
    PROVE  JobsSound(m)'
<1>n. nodesOf[m] \subseteq Nodes
  BY DEF TypeInv, TypeOK
<1> SUFFICES ASSUME NEW w \in Workers, NEW i \in 1 .. Len(queue'[w]), queue'[w][i].m = m
             PROVE  /\ JobSound(queue[w][i], m)' /\ Covered(w, Len(pipe[w]), m)'
                    /\ \A v \in Workers : \A k \in 1 .. Len(queue'[v]) :
                           queue'[v][k].m = m => v = w /\ k = i
  BY DEF JobsSound
<1>1. PICK s \in {0, 1} : \A k \in 1 .. Len(queue'[w]) : queue'[w][k].m = m =>
          k + s \in 1 .. Len(queue[w]) /\ queue'[w][k] = queue[w][k + s]
  BY DEF JobsOld
<1>j. PICK j : j = queue[w][i + s]
  OBVIOUS
<1>2. i + s \in 1 .. Len(queue[w]) /\ queue'[w][i] = j /\ j.m = m
  BY <1>1, <1>j
<1>3. JobSound(j, m) /\ Covered(w, Len(pipe[w]), m)
  BY <1>2, <1>j DEF JobsSound
<1>u. \A v \in Workers : \A k \in 1 .. Len(queue[v]) : queue[v][k].m = m => v = w /\ k = i + s
  BY <1>2, <1>j DEF JobsSound
<1>4. JobSound(j, m)'
  <2>1. ASSUME NEW v \in Workers, NEW k \in 0 .. Len(pipe'[v]), News(Ev(v, k)', m)
        PROVE  \E l \in 0 .. Len(pipe[v]) : Ev(v, l) = Ev(v, k)'
    BY <2>1 DEF LinesKept, NewsFrom
  <2>2. \A v \in Workers : \A k \in 0 .. Len(pipe'[v]) :
            Fails(Ev(v, k)', m) => Ev(v, k)'.targets \cap j.todo = {}
    BY <1>3, <2>1 DEF JobSound, News
  <2>3. ~j.complete => \A v \in Workers : \A k \in 0 .. Len(pipe'[v]) : ~Closes(Ev(v, k)', m)
    BY <1>3, <2>1 DEF JobSound, News
  <2> QED
    BY <1>3, <2>2, <2>3 DEF JobSound, Fails, Closes
<1>5. Covered(w, Len(pipe[w]), m)'
  <2>1. PICK d \in {0, 1} : NewsFrom(w, m, d) /\ TellsKept(w, m, d)
    BY DEF LinesKept
  <2> SUFFICES ASSUME NEW n \in nodesOf[m], messages'[m].results[n] # "accepted"
               PROVE  Told(w, Len(pipe[w]), m, n)'
    BY DEF Covered
  <2>2. Told(w, Len(pipe[w]), m, n)
    BY <1>3, <1>n DEF Covered
  <2>3. PICK k \in 0 .. Len(pipe[w]) : Tells(Ev(w, k), m) /\ n \in Ev(w, k).targets
    BY <2>2 DEF Told
  <2>4. k - d \in 0 .. Len(pipe'[w]) /\ Ev(w, k - d)' = Ev(w, k)
    BY <2>1, <2>3 DEF TellsKept
  <2>5. Tells(Ev(w, k - d)', m) /\ n \in Ev(w, k - d)'.targets
    BY <2>3, <2>4
  <2> QED
    BY <2>4, <2>5 DEF Told, Tells
<1>6. ASSUME NEW v \in Workers, NEW k \in 1 .. Len(queue'[v]), queue'[v][k].m = m
      PROVE  v = w /\ k = i
  <2>1. PICK e \in {0, 1} : k + e \in 1 .. Len(queue[v]) /\ queue'[v][k] = queue[v][k + e]
    BY <1>6 DEF JobsOld
  <2>2. v = w
    BY <1>6, <1>u, <2>1
  <2>3. k + s \in 1 .. Len(queue[w]) /\ queue[w][k + s].m = m
    BY <1>1, <1>6, <2>2
  <2>4. k + s = i + s
    BY <1>u, <2>3
  <2> QED
    BY <2>2, <2>4
<1>7. JobSound(queue[w][i], m)'
  BY <1>2, <1>4 DEF JobSound
<1> QED
  BY <1>5, <1>6, <1>7

LEMMA EventsSoundStay ==
    ASSUME TypeInv, TypeInv', NEW m \in OutIds, LinesKept(m), nodesOf'[m] = nodesOf[m],
           \A n \in Nodes : messages[m].results[n] = "accepted" => messages'[m].results[n] = "accepted",
           EventsSound(m)
    PROVE  EventsSound(m)'
<1> SUFFICES ASSUME NEW w \in Workers, NEW i \in 0 .. Len(pipe'[w])
             PROVE  /\ Closes(Ev(w, i), m)' => (Ev(w, i).ok = Cardinality(nodesOf[m]))' /\ Covered(w, i, m)'
                    /\ Fails(Ev(w, i), m)' => (Ev(w, i).targets \cap nodesOf[m] = {})'
  BY DEF EventsSound
<1>n. nodesOf[m] \subseteq Nodes
  BY DEF TypeInv, TypeOK
<1>1. PICK d \in {0, 1} : NewsFrom(w, m, d) /\ TellsKept(w, m, d)
  BY DEF LinesKept
<1>2. CASE Closes(Ev(w, i), m)'
  <2>1. Closes(Ev(w, i)', m)
    BY <1>2 DEF Closes
  <2>2. i + d \in 0 .. Len(pipe[w]) /\ Ev(w, i)' = Ev(w, i + d)
    BY <1>1, <2>1 DEF NewsFrom, News
  <2>3. Ev(w, i + d).ok = Cardinality(nodesOf[m]) /\ Covered(w, i + d, m)
    BY <2>1, <2>2 DEF EventsSound
  <2>4. Covered(w, i, m)'
    BY <1>1, <1>n, <2>2, <2>3, CoveredStays
  <2>5. ~Fails(Ev(w, i), m)'
    BY <1>2 DEF Closes, Fails
  <2> QED
    BY <2>2, <2>3, <2>4, <2>5
<1>3. CASE Fails(Ev(w, i), m)'
  <2>1. Fails(Ev(w, i)', m)
    BY <1>3 DEF Fails
  <2>2. i + d \in 0 .. Len(pipe[w]) /\ Ev(w, i)' = Ev(w, i + d)
    BY <1>1, <2>1 DEF NewsFrom, News
  <2>3. Ev(w, i + d).targets \cap nodesOf[m] = {}
    BY <2>1, <2>2 DEF EventsSound
  <2>5. ~Closes(Ev(w, i), m)'
    BY <1>3 DEF Closes, Fails
  <2> QED
    BY <2>2, <2>3, <2>5
<1> QED
  BY <1>2, <1>3

-----------------------------------------------------------------------------
(* How one worker's line of events goes on. *)
\* It stays, but for the event at work, which is over.
LEMMA LineApplied ==
    ASSUME NEW w \in Workers, NEW m, pipe'[w] = pipe[w], op'[w] = op[w] \/ ~News(op'[w], m)
    PROVE  /\ NewsFrom(w, m, 0)
           /\ (\/ op'[w] = op[w] \/ ~Tells(op[w], m)
               \/ \A n \in op[w].targets : messages'[m].results[n] = "accepted") => TellsKept(w, m, 0)
<1>1. \A i \in 0 .. Len(pipe[w]) : i # 0 => Ev(w, i)' = Ev(w, i)
  BY DEF Ev
<1>2. Ev(w, 0) = op[w] /\ Ev(w, 0)' = op'[w]
  BY DEF Ev
<1>3. NewsFrom(w, m, 0)
  <2> SUFFICES ASSUME NEW i \in 0 .. Len(pipe'[w]), News(Ev(w, i)', m)
               PROVE  i + 0 \in 0 .. Len(pipe[w]) /\ Ev(w, i)' = Ev(w, i + 0)
    BY DEF NewsFrom
  <2>1. i + 0 = i /\ i \in 0 .. Len(pipe[w])
    OBVIOUS
  <2>2. Ev(w, i)' = Ev(w, i)
    BY <1>1, <1>2, <2>1
  <2> QED
    BY <2>1, <2>2
<1>4. ASSUME \/ op'[w] = op[w] \/ ~Tells(op[w], m)
             \/ \A n \in op[w].targets : messages'[m].results[n] = "accepted"
      PROVE  TellsKept(w, m, 0)
  <2> SUFFICES ASSUME NEW i \in 0 .. Len(pipe[w]), Tells(Ev(w, i), m)
               PROVE  \/ i - 0 \in 0 .. Len(pipe'[w]) /\ Ev(w, i - 0)' = Ev(w, i)
                      \/ \A n \in Ev(w, i).targets : messages'[m].results[n] = "accepted"
    BY DEF TellsKept
  <2>1. i - 0 = i /\ i \in 0 .. Len(pipe'[w])
    OBVIOUS
  <2>2. \/ Ev(w, i)' = Ev(w, i)
        \/ \A n \in Ev(w, i).targets : messages'[m].results[n] = "accepted"
    BY <1>1, <1>2, <1>4
  <2> QED
    BY <2>1, <2>2
<1> QED
  BY <1>3, <1>4

\* The next event is read.
LEMMA LineRead ==
    ASSUME NEW w \in Workers, NEW m, pipe[w] \in Seq(Report), pipe[w] # <<>>, pipe'[w] = Tail(pipe[w]),
           op'[w] = Head(pipe[w]), ~Tells(op[w], m)
    PROVE  NewsFrom(w, m, 1) /\ TellsKept(w, m, 1)
<1>1. /\ Len(Tail(pipe[w])) = Len(pipe[w]) - 1 /\ Len(pipe[w]) \in Nat \ {0}
      /\ Head(pipe[w]) = pipe[w][1]
      /\ \A i \in 1 .. Len(pipe[w]) - 1 : Tail(pipe[w])[i] = pipe[w][i + 1]
  OBVIOUS
<1>2. \A i \in 0 .. Len(pipe'[w]) : i + 1 \in 0 .. Len(pipe[w]) /\ Ev(w, i)' = Ev(w, i + 1)
  BY <1>1 DEF Ev
<1>3. NewsFrom(w, m, 1)
  BY <1>2 DEF NewsFrom
<1>4. ASSUME NEW i \in 0 .. Len(pipe[w]), Tells(Ev(w, i), m)
      PROVE  i - 1 \in 0 .. Len(pipe'[w]) /\ Ev(w, i - 1)' = Ev(w, i)
  <2>1. i # 0
    BY <1>4 DEF Ev
  <2>2. i - 1 \in 0 .. Len(pipe'[w]) /\ (i - 1) + 1 = i
    BY <1>1, <2>1
  <2> QED
    BY <1>2, <2>2
<1>5. TellsKept(w, m, 1)
  BY <1>4 DEF TellsKept
<1> QED
  BY <1>3, <1>5

\* An event is written behind it.
LEMMA LineGrows ==
    ASSUME TypeInv, NEW w \in Workers, NEW e \in Report, Emit(w, e), op'[w] = op[w], NEW m,
           NEW k, k = Len(pipe[w]) + 1
    PROVE  /\ Len(pipe'[w]) = k /\ Len(pipe[w]) \in Nat /\ Ev(w, k)' = e
           /\ \A i \in 0 .. Len(pipe[w]) : Ev(w, i)' = Ev(w, i)
           /\ TellsKept(w, m, 0)
           /\ ~News(e, m) => NewsFrom(w, m, 0)
<1> DEFINE q == pipe[w]
<1>1. q \in Seq(Report) /\ pipe'[w] = Append(q, e) /\ Len(q) \in Nat
  BY DEF TypeInv, TypeOK, Emit
<1>2. /\ Len(Append(q, e)) = Len(q) + 1 /\ Append(q, e)[Len(q) + 1] = e
      /\ \A i \in 1 .. Len(q) : i \in 1 .. Len(Append(q, e)) /\ Append(q, e)[i] = q[i]
  BY <1>1, AppendKeeps
<1>3. Ev(w, k)' = e
  <2>1. k # 0
    BY <1>1
  <2> QED
    BY <1>1, <1>2, <2>1 DEF Ev
<1>4. \A i \in 0 .. Len(q) : Ev(w, i)' = Ev(w, i)
  BY <1>1, <1>2 DEF Ev
<1>5. TellsKept(w, m, 0)
  <2> SUFFICES ASSUME NEW i \in 0 .. Len(pipe[w])
               PROVE  i - 0 \in 0 .. Len(pipe'[w]) /\ Ev(w, i - 0)' = Ev(w, i)
    BY DEF TellsKept
  <2>1. i - 0 = i /\ i \in 0 .. Len(pipe'[w])
    BY <1>1, <1>2
  <2> QED
    BY <1>4, <2>1
<1>6. ASSUME ~News(e, m) PROVE NewsFrom(w, m, 0)
  <2> SUFFICES ASSUME NEW i \in 0 .. Len(pipe'[w]), News(Ev(w, i)', m)
               PROVE  i + 0 \in 0 .. Len(pipe[w]) /\ Ev(w, i)' = Ev(w, i + 0)
    BY DEF NewsFrom
  <2>1. i # k
    BY <1>3, <1>6
  <2>2. i + 0 = i /\ i \in 0 .. Len(q)
    BY <1>1, <1>2, <2>1
  <2> QED
    BY <1>4, <2>2
<1> QED
  BY <1>1, <1>2, <1>3, <1>4, <1>5, <1>6

\* Jobs and requests of other messages come and go.
QueueMoves(q, r, m) ==
    \/ r = q \/ r = <<>> \/ (q # <<>> /\ r = Tail(q))
    \/ \E e : e.m # m /\ r = Append(q, e)
    \/ \E e : q # <<>> /\ e.m # m /\ r = <<e>> \o Tail(q)

LEMMA MovedQueue ==
    ASSUME NEW S, NEW q \in Seq(S), NEW r \in Seq(S), NEW m, QueueMoves(q, r, m)
    PROVE  \E d \in {0, 1} : \A i \in 1 .. Len(r) : r[i].m = m =>
               i + d \in 1 .. Len(q) /\ r[i] = q[i + d]
<1>0. Len(q) \in Nat /\ Len(r) \in Nat
  OBVIOUS
<1>1. ASSUME \A i \in 1 .. Len(r) : r[i].m = m => i \in 1 .. Len(q) /\ r[i] = q[i]
      PROVE  \E d \in {0, 1} : \A i \in 1 .. Len(r) : r[i].m = m =>
                 i + d \in 1 .. Len(q) /\ r[i] = q[i + d]
  <2>1. \A i \in 1 .. Len(r) : i + 0 = i
    OBVIOUS
  <2>2. \A i \in 1 .. Len(r) : r[i].m = m => i + 0 \in 1 .. Len(q) /\ r[i] = q[i + 0]
    BY <1>1, <2>1
  <2> QED
    BY <2>2
<1>2. CASE r = q \/ r = <<>>
  BY <1>1, <1>2
<1>3. CASE q # <<>> /\ r = Tail(q)
  <2>1. \A i \in 1 .. Len(r) : i + 1 \in 1 .. Len(q) /\ r[i] = q[i + 1]
    BY <1>3
  <2> QED
    BY <2>1
<1>4. ASSUME NEW e, e.m # m, r = Append(q, e)
      PROVE  \A i \in 1 .. Len(r) : r[i].m = m => i \in 1 .. Len(q) /\ r[i] = q[i]
  <2>1. Len(r) = Len(q) + 1 /\ r[Len(q) + 1] = e /\ \A i \in 1 .. Len(q) : r[i] = q[i]
    BY <1>4
  <2> QED
    BY <1>0, <1>4, <2>1
<1>5. ASSUME NEW e, q # <<>>, e.m # m, r = <<e>> \o Tail(q)
      PROVE  \A i \in 1 .. Len(r) : r[i].m = m => i \in 1 .. Len(q) /\ r[i] = q[i]
  <2>1. /\ Tail(q) \in Seq(S) /\ Len(Tail(q)) = Len(q) - 1
        /\ \A k \in 1 .. Len(q) - 1 : Tail(q)[k] = q[k + 1]
    BY <1>5
  <2>2. <<e>> \in Seq({e}) /\ Len(<<e>>) = 1 /\ <<e>>[1] = e
    OBVIOUS
  <2>3. <<e>> \in Seq(S \cup {e}) /\ Tail(q) \in Seq(S \cup {e})
    BY <2>1
  <2>4. /\ Len(r) = 1 + Len(Tail(q))
        /\ \A k \in 1 .. 1 + Len(Tail(q)) : r[k] = IF k <= 1 THEN <<e>>[k] ELSE Tail(q)[k - 1]
    BY <1>5, <2>2, <2>3, ConcatProperties
  <2>5. ASSUME NEW i \in 1 .. Len(r), r[i].m = m PROVE i \in 1 .. Len(q) /\ r[i] = q[i]
    <3>1. i # 1
      BY <1>5, <2>2, <2>4, <2>5
    <3>2. i - 1 \in 1 .. Len(q) - 1 /\ (i - 1) + 1 = i /\ ~(i <= 1)
      BY <1>0, <2>1, <2>4, <3>1
    <3> QED
      BY <1>0, <2>1, <2>4, <3>2
  <2> QED
    BY <2>5
<1> QED
  BY <1>1, <1>2, <1>3, <1>4, <1>5 DEF QueueMoves

LEMMA JobsMoved ==
    ASSUME TypeInv, TypeInv', NEW m, \A w \in Workers : QueueMoves(queue[w], queue'[w], m)
    PROVE  JobsOld(m)
<1> SUFFICES ASSUME NEW w \in Workers
             PROVE  \E d \in {0, 1} : \A i \in 1 .. Len(queue'[w]) : queue'[w][i].m = m =>
                        i + d \in 1 .. Len(queue[w]) /\ queue'[w][i] = queue[w][i + d]
  BY DEF JobsOld
<1>1. queue[w] \in Seq(Job) /\ queue'[w] \in Seq(Job)
  BY DEF TypeInv, TypeOK
<1> QED
  BY <1>1, MovedQueue

LEMMA RequestsMoved ==
    ASSUME TypeInv, TypeInv', NEW m, \A w \in Workers : QueueMoves(requests[w], requests'[w], m)
    PROVE  RequestsOld(m)
<1> SUFFICES ASSUME NEW w \in Workers
             PROVE  \E d \in {0, 1} : \A i \in 1 .. Len(requests'[w]) : requests'[w][i].m = m =>
                        i + d \in 1 .. Len(requests[w]) /\ requests[w][i + d].m = m
  BY DEF RequestsOld
<1>1. requests[w] \in Seq(Request) /\ requests'[w] \in Seq(Request)
  BY DEF TypeInv, TypeOK
<1>2. PICK d \in {0, 1} : \A i \in 1 .. Len(requests'[w]) : requests'[w][i].m = m =>
          i + d \in 1 .. Len(requests[w]) /\ requests'[w][i] = requests[w][i + d]
  BY <1>1, MovedQueue
<1> QED
  BY <1>2

-----------------------------------------------------------------------------
(* What the steps leave of a message they are not about. *)
Left(m) ==
    /\ LinesKept(m) /\ JobsOld(m) /\ RequestsOld(m) /\ ControlOld(m)
    /\ nodesOf'[m] = nodesOf[m] /\ messages' = messages

LEMMA LinesSame ==
    ASSUME NEW m, UNCHANGED pipe, \A w \in Workers : op'[w] = op[w]
    PROVE  LinesKept(m)
  BY LineApplied DEF LinesKept

LEMMA NewsAreOld == ASSUME NEW m, LinesKept(m) PROVE NewsOld(m)
  BY DEF LinesKept, NewsOld

LEMMA UserLeaves ==
    ASSUME TypeInv, TypeInv', NEW m, NEW t \in Http, User(t)
    PROVE  Left(m)
<1>1. UNCHANGED <<messages, queue, requests, pipe, nodesOf>>
  BY DEF User, SendMessage, RepeatMessage, RemoveMessage, ClearMessages, fileVars, workerVars, historyVars
<1>2. PICK o : Begin(t, o, "read") \/ Begin(t, o, "truncate")
  BY DEF User, SendMessage, RepeatMessage, RemoveMessage, ClearMessages
<1>3. DOMAIN op = Threads /\ DOMAIN pc = Threads
  BY DEF TypeInv, TypeOK
<1>4. \A w \in Workers : op'[w] = op[w]
  BY <1>2, <1>3, ThreadSets DEF Begin
<1>5. ControlOld(m)
  BY <1>2, <1>3, ThreadSets DEF Begin, ControlOld, AtControl
<1> QED
  BY <1>1, <1>4, <1>5, LinesSame, JobsMoved, RequestsMoved DEF QueueMoves, Left

LEMMA HttpLeaves ==
    ASSUME TypeInv, TypeInv', NEW m, NEW t \in Http, HttpStep(t),
           \A w \in Workers : SubmitRequest(t, w) => op[t].m # m
    PROVE  Left(m)
<1>1. UNCHANGED <<messages, queue, pipe, nodesOf>>
  BY DEF HttpStep, SubmitRequest, SubmitFails, ReplyQueued, ReplyFailed, ReplyTimeout,
     fileVars, workerVars, historyVars
<1>2. PICK o : /\ op' = [op EXCEPT ![t] = o]
               /\ pc' = [pc EXCEPT ![t] = "read"] \/ pc' = [pc EXCEPT ![t] = "wait"]
  <2>1. op = [op EXCEPT ![t] = op[t]]
    BY DEF TypeInv, TypeOK
  <2> QED
    BY <2>1 DEF HttpStep, SubmitRequest, SubmitFails, ReplyQueued, ReplyFailed, ReplyTimeout,
       FailedSend, Begin
<1>3. DOMAIN op = Threads /\ DOMAIN pc = Threads /\ requests \in [Workers -> Seq(Request)]
  BY DEF TypeInv, TypeOK
<1>4. \A w \in Workers : op'[w] = op[w]
  BY <1>2, <1>3, ThreadSets
<1>5. ControlOld(m)
  BY <1>2, <1>3, ThreadSets DEF ControlOld, AtControl
<1>6. RequestsOld(m)
  <2>1. CASE UNCHANGED requests
    BY <2>1, RequestsMoved DEF QueueMoves
  <2>2. ASSUME NEW w \in Workers, SubmitRequest(t, w) PROVE RequestsOld(m)
    <3> DEFINE r == [caller |-> t, m |-> op[t].m, method |-> op[t].method, targets |-> op[t].targets]
    <3>1. requests' = [requests EXCEPT ![w] = Append(@, r)] /\ r.m # m
      BY <2>2 DEF SubmitRequest
    <3> HIDE DEF r
    <3>2. \A v \in Workers : requests'[v] = requests[v] \/ requests'[v] = Append(requests[v], r)
      BY <1>3, <3>1
    <3> QED
      BY <3>1, <3>2, RequestsMoved DEF QueueMoves
  <2>3. CASE ReplyTimeout(t)
    <3>1. ASSUME NEW w \in Workers, NEW i \in 1 .. Len(requests'[w])
          PROVE  i + 0 \in 1 .. Len(requests[w]) /\ requests[w][i + 0].m = requests'[w][i].m
      <4> DEFINE q == requests[w]
                 r == [k \in DOMAIN q |->
                         IF q[k].caller = t THEN [q[k] EXCEPT !.caller = NoCaller] ELSE q[k]]
      <4>1. requests'[w] = r /\ q \in Seq(Request)
        BY <1>3, <2>3 DEF ReplyTimeout
      <4>2. Len(q) \in Nat /\ DOMAIN q = 1 .. Len(q) /\ DOMAIN r = 1 .. Len(q)
        BY <4>1
      <4>3. r \in Seq(Request)
        <5>1. requests'[w] \in Seq(Request)
          BY DEF TypeInv, TypeOK
        <5> QED
          BY <4>1, <5>1
      <4>4. Len(r) = Len(q)
        BY <4>2, <4>3
      <4>5. i + 0 = i /\ i \in 1 .. Len(q)
        BY <4>1, <4>4
      <4>6. q[i] \in Request
        BY <4>1, <4>5
      <4>7. r[i].m = q[i].m
        BY <4>2, <4>5, <4>6 DEF Request
      <4> QED
        BY <4>1, <4>5, <4>7
    <3> QED
      BY <3>1 DEF RequestsOld
  <2> QED
    BY <2>1, <2>2, <2>3 DEF HttpStep, SubmitFails, ReplyQueued, ReplyFailed, workerVars
<1> QED
  BY <1>1, <1>4, <1>5, <1>6, LinesSame, JobsMoved DEF QueueMoves, Left

LEMMA ControlLeaves ==
    ASSUME TypeInv, TypeInv', NEW m, NEW w \in Workers, ControlStep(w),
           AcceptRequest(w) => Head(requests[w]).m # m
    PROVE  Left(m)
<1>1. UNCHANGED <<messages, pc, op, pipe, nodesOf>>
  BY DEF ControlStep, AcceptRequest, RefuseRequest, fileVars, historyVars
<1>2. requests \in [Workers -> Seq(Request)] /\ queue \in [Workers -> Seq(Job)]
  BY DEF TypeInv, TypeOK
<1>3. RequestsOld(m)
  <2>1. requests' = [requests EXCEPT ![w] = Tail(@)] /\ requests[w] # <<>>
    BY DEF ControlStep, AcceptRequest, RefuseRequest
  <2>2. \A v \in Workers : QueueMoves(requests[v], requests'[v], m)
    BY <1>2, <2>1 DEF QueueMoves
  <2> QED
    BY <2>2, RequestsMoved
<1>4. JobsOld(m)
  <2>1. CASE UNCHANGED queue
    BY <2>1, JobsMoved DEF QueueMoves
  <2>2. CASE AcceptRequest(w) /\ ~UNCHANGED queue
    <3> DEFINE r == Head(requests[w])
               j == [m |-> r.m, targets |-> r.targets, todo |-> r.targets, ok |-> 0, complete |-> FALSE]
    <3>1. queue' = [queue EXCEPT ![w] = Append(@, j)] /\ j.m # m
      BY <2>2 DEF AcceptRequest
    <3> HIDE DEF j
    <3>2. \A v \in Workers : queue'[v] = queue[v] \/ queue'[v] = Append(queue[v], j)
      BY <1>2, <3>1
    <3> QED
      BY <3>1, <3>2, JobsMoved DEF QueueMoves
  <2> QED
    BY <2>1, <2>2 DEF ControlStep, RefuseRequest
<1> QED
  BY <1>1, <1>3, <1>4, LinesSame DEF Left, ControlOld, AtControl

\* An event that is no news of the message.
LEMMA EmitLeaves ==
    ASSUME TypeInv, NEW m, NEW w \in Workers, NEW e \in Report, Emit(w, e), ~News(e, m), UNCHANGED op
    PROVE  LinesKept(m)
<1> SUFFICES ASSUME NEW v \in Workers
             PROVE  NewsFrom(v, m, 0) /\ TellsKept(v, m, 0)
  BY DEF LinesKept
<1>1. CASE v = w
  BY <1>1, LineGrows
<1>2. CASE v # w
  <2>1. pipe'[v] = pipe[v]
    BY <1>2 DEF Emit, TypeInv, TypeOK
  <2> QED
    BY <2>1, LineApplied
<1> QED
  BY <1>1, <1>2

LEMMA DirectLeaves ==
    ASSUME TypeInv, TypeInv', NEW m, NEW w \in Workers, DirectStep(w)
    PROVE  Left(m)
<1>1. PICK k \in OutIds, kind \in {"delivered", "failed"} : DirectOutcome(w, k, kind)
  BY DEF DirectStep
<1> DEFINE e == Event(kind, k, "direct", {}, 0)
<1>2. e \in Report
  BY EventType DEF DeliveryMethod
<1>3. Emit(w, e) /\ ~News(e, m) /\ UNCHANGED <<op, pc, messages, queue, requests, nodesOf>>
  BY <1>1 DEF DirectOutcome, Event, News, Tells, Closes, Fails, fileVars, threadVars
<1>4. LinesKept(m)
  BY <1>2, <1>3, EmitLeaves
<1> QED
  BY <1>3, <1>4, JobsMoved, RequestsMoved DEF Left, QueueMoves, ControlOld, AtControl

LEMMA PropagationLeaves ==
    ASSUME TypeInv, TypeInv', NEW m \in OutIds, NEW w \in Workers, PropagationStep(w),
           Head(queue[w]).m # m \/ FinalFailure(w)
    PROVE  Left(m)
<1> DEFINE j == Head(queue[w])
<1>j. /\ j.m \in OutIds /\ j.targets \in SUBSET Nodes /\ j.ok \in Nat /\ j \in Job
      /\ "propagation" \in DeliveryMethod /\ queue[w] # <<>>
  BY HeadType DEF PropagationStep, NodeAccepted, NodeFailed, ReplicationComplete,
     FinalFailure, DeliveryMethod, Job
<1>q. queue \in [Workers -> Seq(Job)] /\ nodesOf \in [OutIds -> SUBSET Nodes]
  BY DEF TypeInv, TypeOK
<1>u. UNCHANGED <<op, pc, messages, requests>>
  BY DEF PropagationStep, NodeAccepted, NodeFailed, ReplicationComplete, FinalFailure, fileVars, threadVars
<1>1. ASSUME NEW e \in Report, Emit(w, e), ~News(e, m), UNCHANGED nodesOf \/ nodesOf'[m] = nodesOf[m],
             \/ queue' = [queue EXCEPT ![w] = Tail(@)]
             \/ \E x : x.m # m /\ Continue(w, x)
      PROVE  Left(m)
  <2>1. LinesKept(m)
    BY <1>1, <1>u, EmitLeaves
  <2>2. \A v \in Workers : QueueMoves(queue[v], queue'[v], m)
    BY <1>1, <1>j, <1>q DEF QueueMoves, Continue
  <2> QED
    BY <1>1, <1>u, <2>1, <2>2, JobsMoved, RequestsMoved DEF Left, QueueMoves, ControlOld, AtControl
<1>2. CASE FinalFailure(w)
  <2> DEFINE e == Event("failed", j.m, "propagation", {}, 0)
  <2>1. e \in Report
    BY <1>j, EventType
  <2>2. Emit(w, e) /\ ~News(e, m) /\ UNCHANGED nodesOf /\ queue' = [queue EXCEPT ![w] = Tail(@)]
    BY <1>2 DEF FinalFailure, Event, News, Tells, Closes, Fails, historyVars
  <2> QED
    BY <1>1, <2>1, <2>2
<1>3. ASSUME NEW n \in Nodes, NodeAccepted(w, n), j.m # m PROVE Left(m)
  <2> DEFINE e == Event("propagated", j.m, "propagation", {n}, 0)
             x == [j EXCEPT !.todo = j.todo \ {n}, !.ok = j.ok + 1]
  <2>1. e \in Report
    BY <1>j, EventType
  <2>2. Emit(w, e) /\ nodesOf' = [nodesOf EXCEPT ![j.m] = @ \cup {n}] /\ Continue(w, x)
    BY <1>3 DEF NodeAccepted
  <2>3. x.m # m
    BY <1>j, <1>3 DEF Job
  <2>4. nodesOf'[m] = nodesOf[m] /\ ~News(e, m)
    BY <1>3, <1>q, <2>2 DEF Event, News, Tells, Closes, Fails
  <2> HIDE DEF e, x
  <2> QED
    BY <1>1, <2>1, <2>2, <2>3, <2>4
<1>4. ASSUME NEW n \in Nodes, NodeFailed(w, n), j.m # m PROVE Left(m)
  <2> DEFINE e == Event("nodefailed", j.m, "propagation", {n}, 0)
  <2>1. e \in Report
    BY <1>j, EventType
  <2>2. Emit(w, e) /\ UNCHANGED nodesOf /\ ~News(e, m)
    BY <1>4 DEF NodeFailed, historyVars, Event, News, Tells, Closes, Fails
  <2>3. PICK rest \in {j.todo \ {n}, {}} : Continue(w, [j EXCEPT !.todo = rest])
    BY <1>4 DEF NodeFailed
  <2>4. [j EXCEPT !.todo = rest].m # m
    BY <1>j, <1>4 DEF Job
  <2> HIDE DEF e
  <2> QED
    BY <1>1, <2>1, <2>2, <2>3, <2>4
<1>5. CASE ReplicationComplete(w) /\ j.m # m
  <2> DEFINE e == Event("complete", j.m, "propagation", j.targets, j.ok)
  <2>1. e \in Report
    BY <1>j, EventType
  <2>2. Emit(w, e) /\ UNCHANGED nodesOf /\ ~News(e, m)
    BY <1>5 DEF ReplicationComplete, historyVars, Event, News, Tells, Closes, Fails
  <2>3. queue' = [queue EXCEPT ![w] = Tail(@)] \/ Continue(w, [j EXCEPT !.complete = TRUE])
    BY <1>5 DEF ReplicationComplete
  <2>4. [j EXCEPT !.complete = TRUE].m # m
    BY <1>j, <1>5 DEF Job
  <2> HIDE DEF e
  <2> QED
    BY <1>1, <2>1, <2>2, <2>3, <2>4
<1> QED
  BY <1>2, <1>3, <1>4, <1>5 DEF PropagationStep

LEMMA OutputLeaves ==
    ASSUME TypeInv, TypeInv', Reporters, NEW m, NEW w \in Workers, OutputStep(w)
    PROVE  Left(m)
<1>1. UNCHANGED <<messages, queue, requests, nodesOf>> /\ pc[w] = "idle"
  BY DEF OutputStep, ReadEvent, ReadExit, fileVars, workerVars, historyVars
<1>2. /\ DOMAIN op = Threads /\ DOMAIN pc = Threads /\ pipe \in [Workers -> Seq(Report)]
      /\ w \in Threads
  BY ThreadSets DEF TypeInv, TypeOK
<1>3. ~Tells(op[w], m)
  BY <1>1, <1>2 DEF Reporters, Tells
<1>4. ControlOld(m)
  BY <1>2, ThreadSets DEF OutputStep, ReadEvent, ReadExit, Begin, ControlOld, AtControl
<1>5. ASSUME NEW v \in Workers, v # w PROVE NewsFrom(v, m, 0) /\ TellsKept(v, m, 0)
  <2>1. pipe'[v] = pipe[v] /\ op'[v] = op[v]
    BY <1>2, <1>5, ThreadSets DEF OutputStep, ReadEvent, ReadExit, Begin
  <2> QED
    BY <2>1, LineApplied
<1>6. \E d \in {0, 1} : NewsFrom(w, m, d) /\ TellsKept(w, m, d)
  <2>1. CASE ReadEvent(w)
    <3>1. op'[w] = Head(pipe[w]) /\ pipe[w] # <<>> /\ pipe'[w] = Tail(pipe[w]) /\ pipe[w] \in Seq(Report)
      BY <1>2, <2>1 DEF ReadEvent, Begin
    <3> QED
      BY <1>3, <3>1, LineRead
  <2>2. CASE ReadExit(w)
    <3>1. op'[w].kind = "workerexit" /\ pipe'[w] = pipe[w]
      BY <1>2, <2>2 DEF ReadExit, Begin, PlainOp
    <3>2. ~News(op'[w], m)
      BY <3>1 DEF News, Tells, Closes, Fails
    <3> QED
      BY <1>3, <3>1, <3>2, LineApplied
  <2> QED
    BY <2>1, <2>2 DEF OutputStep
<1>7. LinesKept(m)
  BY <1>5, <1>6 DEF LinesKept
<1> QED
  BY <1>1, <1>4, <1>7, JobsMoved, RequestsMoved DEF Left, QueueMoves

LEMMA LifeLeaves ==
    ASSUME TypeInv, TypeInv', NEW m, NEW w \in Workers,
           \/ \E k \in InIds : ReceiveMessage(w, k)
           \/ WorkerExit(w) \/ StartWorker(w)
    PROVE  Left(m)
<1>1. UNCHANGED <<messages, pc, op, nodesOf>>
  BY DEF ReceiveMessage, WorkerExit, StartWorker, fileVars, threadVars, historyVars
<1>2. /\ \A v \in Workers : queue'[v] = queue[v] \/ queue'[v] = <<>>
      /\ \A v \in Workers : requests'[v] = requests[v] \/ requests'[v] = <<>>
  BY Zenon DEF ReceiveMessage, WorkerExit, StartWorker, workerVars, TypeInv, TypeOK
<1>3. LinesKept(m)
  <2>1. ASSUME NEW k \in InIds, ReceiveMessage(w, k) PROVE LinesKept(m)
    <3> DEFINE e == PlainOp("received", k)
    <3>1. e \in Report
      BY ThreadSets, PlainOpType DEF Report, PlainOp, OpKind
    <3>2. Emit(w, e) /\ ~News(e, m)
      BY <2>1 DEF ReceiveMessage, PlainOp, News, Tells, Closes, Fails
    <3> HIDE DEF e
    <3> QED
      BY <1>1, <3>1, <3>2, EmitLeaves
  <2>2. CASE WorkerExit(w) \/ StartWorker(w)
    BY <1>1, <2>2, LinesSame DEF WorkerExit, StartWorker
  <2> QED
    BY <2>1, <2>2
<1> QED
  BY <1>1, <1>2, <1>3, JobsMoved, RequestsMoved DEF Left, QueueMoves, ControlOld, AtControl

-----------------------------------------------------------------------------
(* What the attempts at a message say while its record is not written.     *)
Writing(t) == pc[t] \in {"read", "truncate", "write"}
FirstOld(m) ==
    /\ drawn \subseteq drawn'
    /\ \A t \in Http : /\ First(t, m)' => First(t, m) /\ (Writing(t)' => Writing(t))
                       /\ AtControl(t, m)' /\ First(t, m) => First(t, m)'

LEMMA UnsentStays ==
    ASSUME NEW m \in OutIds, Unsent(m), FirstOld(m),
           messages[m].attempts = 0 /\ Clean(m) => Clean(m)' /\ messages'[m].attempts = 0,
           \A t \in Http : AtControl(t, m)' /\ messages'[m].attempts = 1 => First(t, m),
           messages'[m].state = "absent" => messages'[m].attempts = 0
    PROVE  Unsent(m)'
<1>1. m \notin drawn' => /\ Clean(m)' /\ messages'[m].attempts = 0
                         /\ \A t \in Http : ~First(t, m)'
  BY DEF Unsent, FirstOld
<1>2. ASSUME NEW t \in Http, First(t, m)'
      PROVE  /\ pc'[t] \in {"read", "truncate", "write"} => Clean(m)' /\ messages'[m].attempts = 0
             /\ \A u \in Http : First(u, m)' => u = t
  BY <1>2 DEF Unsent, FirstOld, Writing
<1>3. \A t \in Http : AtControl(t, m)' /\ messages'[m].attempts = 1 => First(t, m)'
  BY DEF FirstOld
<1> QED
  BY <1>1, <1>2, <1>3 DEF Unsent

\* The file keeps its counts when more nodes are known to have accepted.
LEMMA FileCountsStay ==
    ASSUME NEW m, FileCounts(m), messages' = messages, nodesOf[m] \subseteq nodesOf'[m]
    PROVE  FileCounts(m)'
  BY DEF FileCounts

\* What there is of the message stays or goes, and its record keeps what
\* it tells of it.
LEMMA KeptSound ==
    ASSUME TypeInv, TypeInv', NEW m \in OutIds, Sound(m), FirstOld(m),
           NewsOld(m), JobsOld(m), RequestsOld(m), nodesOf'[m] = nodesOf[m],
           messages[m].attempts = 0 => messages'[m].attempts = 0 /\ ControlOld(m),
           messages'[m].state = "absent" => messages'[m].attempts = 0,
           messages'[m].attempts = 1 =>
               /\ messages[m].attempts = 1 /\ ControlOld(m) /\ LinesKept(m) /\ FileCounts(m)'
               /\ \A n \in Nodes : messages[m].results[n] = "accepted" => messages'[m].results[n] = "accepted"
    PROVE  Sound(m)'
<1>1. Unsent(m)'
  <2>1. messages[m].attempts = 0 /\ Clean(m) => Clean(m)' /\ messages'[m].attempts = 0
    BY CleanStays
  <2>2. \A t \in Http : AtControl(t, m)' /\ messages'[m].attempts = 1 => First(t, m)
    BY DEF Sound, Unsent, ControlOld
  <2>3. Unsent(m)
    BY DEF Sound
  <2> QED
    BY <2>1, <2>2, <2>3, UnsentStays
<1>2. ASSUME messages'[m].attempts = 1 PROVE FileCounts(m)' /\ Traced(m)'
  <2>1. OneSource(m) /\ JobsSound(m) /\ EventsSound(m)
    BY <1>2 DEF Sound, Traced
  <2>2. OneSource(m)'
    BY <1>2, <2>1, OneSourceStays
  <2>3. JobsSound(m)' /\ EventsSound(m)'
    BY <1>2, <2>1, JobsSoundStay, EventsSoundStay
  <2> QED
    BY <1>2, <2>2, <2>3 DEF Traced
<1> QED
  BY <1>1, <1>2 DEF Sound

\* A step that leaves the message alone.
LEMMA LeftSound ==
    ASSUME TypeInv, TypeInv', NEW m \in OutIds, Sound(m), Left(m), FirstOld(m)
    PROVE  Sound(m)'
<1>1. NewsOld(m) /\ JobsOld(m) /\ RequestsOld(m) /\ ControlOld(m) /\ nodesOf'[m] = nodesOf[m]
  BY NewsAreOld DEF Left
<1>2. messages' = messages /\ LinesKept(m)
  BY DEF Left
<1>3. messages'[m].attempts = 1 => FileCounts(m)'
  BY <1>1, <1>2, FileCountsStay DEF Sound
<1>4. messages'[m].state = "absent" => messages'[m].attempts = 0
  BY <1>2 DEF Sound, Unsent
<1> QED
  BY <1>1, <1>2, <1>3, <1>4, KeptSound

\* A step with the message that leaves the file alone.
LEMMA BusySound ==
    ASSUME NEW m \in OutIds, Sound(m), ~Clean(m), ControlOld(m), FirstOld(m), messages' = messages,
           nodesOf[m] \subseteq nodesOf'[m],
           messages[m].attempts = 1 => Traced(m)'
    PROVE  Sound(m)'
<1>1. \A t \in Http : AtControl(t, m)' /\ messages'[m].attempts = 1 => First(t, m)
  BY DEF Sound, Unsent, ControlOld
<1>2. Unsent(m) /\ (messages'[m].state = "absent" => messages'[m].attempts = 0)
  BY DEF Sound, Unsent
<1>3. Unsent(m)'
  BY <1>1, <1>2, UnsentStays
<1> QED
  BY <1>3, FileCountsStay DEF Sound

-----------------------------------------------------------------------------
(* The attempt is handed on: to a worker, then to its propagation queue.   *)
LEMMA SubmitSound ==
    ASSUME TypeInv, TypeInv', NEW m \in OutIds, Sound(m), NEW t \in Http, NEW w \in Workers,
           SubmitRequest(t, w), op[t].m = m, FirstOld(m)
    PROVE  Sound(m)'
<1> DEFINE r == [caller |-> t, m |-> op[t].m, method |-> op[t].method, targets |-> op[t].targets]
<1>1. /\ UNCHANGED <<messages, op, pipe, queue, nodesOf>> /\ pc' = [pc EXCEPT ![t] = "wait"]
      /\ requests' = [requests EXCEPT ![w] = Append(@, r)] /\ r.m = m /\ AtControl(t, m)
  BY DEF SubmitRequest, fileVars, historyVars, AtControl
<1> HIDE DEF r
<1>2. /\ requests \in [Workers -> Seq(Request)] /\ DOMAIN pc = Threads
      /\ t \in Threads /\ Http \subseteq Threads
  BY ThreadSets DEF TypeInv, TypeOK
<1>3. ~Clean(m)
  BY <1>1 DEF Clean
<1>4. ControlOld(m)
  BY <1>1, <1>2 DEF ControlOld, AtControl
<1>5. ASSUME messages[m].attempts = 1 PROVE Traced(m)'
  <2>1. OneSource(m) /\ (\A u \in Http : AtControl(u, m) => First(u, m))
    BY <1>5 DEF Sound, Traced, Unsent
  <2>2. Quiet(m) /\ NotAsked(m)
    BY <1>1, <2>1 DEF OneSource
  <2>3. NewsOld(m) /\ JobsOld(m)
    BY <1>1, LinesSame, NewsAreOld, JobsMoved DEF QueueMoves
  <2>4. Quiet(m)'
    BY <1>1, <2>2, <2>3, QuietStays
  <2>5. \A u \in Http : ~AtControl(u, m)'
    <3>1. ASSUME NEW u \in Http, AtControl(u, m)' PROVE FALSE
      <4>1. u # t /\ AtControl(u, m)
        BY <1>1, <1>2, <3>1 DEF AtControl
      <4>2. First(u, m) /\ First(t, m)
        BY <1>1, <2>1, <4>1
      <4> QED
        BY <4>1, <4>2 DEF Sound, Unsent
    <3> QED
      BY <3>1
  <2>6. \A v \in Workers : \A i \in 1 .. Len(requests'[v]) :
            requests'[v][i].m = m => v = w /\ i = Len(requests[w]) + 1
    <3> SUFFICES ASSUME NEW v \in Workers, NEW i \in 1 .. Len(requests'[v]), requests'[v][i].m = m
                 PROVE  v = w /\ i = Len(requests[w]) + 1
      OBVIOUS
    <3>1. v = w
      BY <1>1, <1>2, <2>2 DEF NotAsked
    <3>2. requests'[w] = Append(requests[w], r) /\ requests[w] \in Seq(Request)
      BY <1>1, <1>2
    <3>3. Len(requests'[w]) = Len(requests[w]) + 1 /\ Len(requests[w]) \in Nat
          /\ \A k \in 1 .. Len(requests[w]) : requests'[w][k] = requests[w][k]
      BY <3>2
    <3>4. i \notin 1 .. Len(requests[w])
      BY <2>2, <3>1, <3>3 DEF NotAsked
    <3> QED
      BY <3>1, <3>3, <3>4
  <2>7. OneSource(m)'
    BY <2>4, <2>5, <2>6 DEF OneSource
  <2>8. JobsSound(m)' /\ EventsSound(m)'
    BY <2>4 DEF Quiet, JobsSound, EventsSound, News
  <2> QED
    BY <2>7, <2>8 DEF Traced
<1> QED
  BY <1>1, <1>3, <1>4, <1>5, BusySound

\* A worker takes the request.
LEMMA AcceptSound ==
    ASSUME TypeInv, TypeInv', NEW m \in OutIds, Sound(m), NEW w \in Workers,
           AcceptRequest(w), Head(requests[w]).m = m
    PROVE  Sound(m)'
<1> PICK j : j = LET r == Head(requests[w])
                 IN  [m |-> r.m, targets |-> r.targets, todo |-> r.targets, ok |-> 0, complete |-> FALSE]
  OBVIOUS
<1>1. /\ UNCHANGED <<messages, pc, op, pipe, nodesOf, drawn>> /\ requests[w] # <<>>
      /\ requests' = [requests EXCEPT ![w] = Tail(@)]
      /\ queue' = queue \/ queue' = [queue EXCEPT ![w] = Append(@, j)]
  BY DEF AcceptRequest, fileVars, historyVars
<1>2. j.m = m /\ j.ok = 0 /\ j.complete = FALSE
  OBVIOUS
<1>3. /\ requests \in [Workers -> Seq(Request)] /\ queue \in [Workers -> Seq(Job)]
      /\ queue' \in [Workers -> Seq(Job)]
      /\ 1 \in 1 .. Len(requests[w]) /\ requests[w][1].m = m
  BY <1>1 DEF TypeInv, TypeOK
<1>4. ~Clean(m)
  BY <1>3 DEF Clean, NotAsked
<1>5. ControlOld(m) /\ FirstOld(m)
  BY <1>1 DEF ControlOld, AtControl, FirstOld, First, Writing
<1>6. ASSUME messages[m].attempts = 1 PROVE Traced(m)'
  <2>1. OneSource(m)
    BY <1>6 DEF Sound, Traced
  <2>2. /\ Quiet(m)
        /\ \A v \in Workers : \A k \in 1 .. Len(requests[v]) : requests[v][k].m = m => v = w /\ k = 1
    BY <1>3, <2>1 DEF OneSource
  <2>3. \A t \in Http : ~AtControl(t, m)'
    BY <1>1, <1>3, <2>1 DEF OneSource, NotAsked, AtControl
  <2>4. \A v \in Workers : \A i \in 1 .. Len(requests'[v]) : requests'[v][i].m # m
    <3> SUFFICES ASSUME NEW v \in Workers, NEW i \in 1 .. Len(requests'[v]), requests'[v][i].m = m
                 PROVE  FALSE
      OBVIOUS
    <3>1. v = w
      BY <1>1, <1>3, <2>2
    <3>2. requests'[w] = Tail(requests[w])
      BY <1>1, <1>3
    <3>3. i + 1 \in 1 .. Len(requests[w]) /\ requests[w][i + 1] = requests'[w][i] /\ i + 1 # 1
      BY <1>1, <1>3, <3>1, <3>2
    <3> QED
      BY <2>2, <3>1, <3>3
  <2>5. OneSource(m)'
    BY <2>3, <2>4 DEF OneSource
  <2>6. \A v \in Workers : \A i \in 0 .. Len(pipe'[v]) : ~News(Ev(v, i), m)'
    BY <1>1, <2>2 DEF Quiet, Ev, News, Tells, Closes, Fails
  <2>7. EventsSound(m)'
    BY <2>6 DEF EventsSound, News
  <2>8. ASSUME NEW v \in Workers, NEW i \in 1 .. Len(queue'[v]), queue'[v][i].m = m
        PROVE  v = w /\ i = Len(queue[w]) + 1 /\ queue'[v][i] = j
    <3>1. queue' = [queue EXCEPT ![w] = Append(@, j)] /\ v = w
      BY <1>1, <1>3, <2>2, <2>8 DEF Quiet
    <3>2. queue'[w] = Append(queue[w], j) /\ queue[w] \in Seq(Job)
      BY <1>3, <3>1
    <3>3. /\ Len(queue'[w]) = Len(queue[w]) + 1 /\ queue'[w][Len(queue[w]) + 1] = j
          /\ \A k \in 1 .. Len(queue[w]) : queue'[w][k] = queue[w][k]
      BY <3>2
    <3>4. i \notin 1 .. Len(queue[w])
      BY <2>2, <2>8, <3>1, <3>3 DEF Quiet
    <3> QED
      BY <2>8, <3>1, <3>2, <3>3, <3>4
  <2>9. nodesOf'[m] = {} /\ Cardinality({}) = 0
    BY <1>1, <2>2, FS_EmptySet DEF Quiet
  <2>10. JobSound(j, m)'
    BY <1>2, <2>6, <2>9 DEF JobSound, News
  <2>11. ASSUME NEW v \in Workers, NEW i \in 1 .. Len(queue'[v]), queue'[v][i].m = m
         PROVE  JobSound(queue[v][i], m)' /\ Covered(v, Len(pipe[v]), m)'
    <3>1. JobSound(queue[v][i], m)'
      BY <2>8, <2>10, <2>11 DEF JobSound
    <3>2. Covered(v, Len(pipe[v]), m)'
      BY <2>9 DEF Covered
    <3> QED
      BY <3>1, <3>2
  <2>12. JobsSound(m)'
    BY <2>8, <2>11 DEF JobsSound
  <2> QED
    BY <2>5, <2>7, <2>12 DEF Traced
<1> QED
  BY <1>1, <1>4, <1>5, <1>6, BusySound

-----------------------------------------------------------------------------
(* The job at the head of a queue goes on. *)
\* The events that are there after one was written.
LEMMA EventsAfter ==
    ASSUME TypeInv, NEW w \in Workers, NEW e \in Report, Emit(w, e), UNCHANGED op
    PROVE  /\ \A v \in Workers : \A i \in 0 .. Len(pipe'[v]) :
                  \/ v = w /\ i = Len(pipe[w]) + 1 /\ Ev(v, i)' = e
                  \/ i \in 0 .. Len(pipe[v]) /\ Ev(v, i)' = Ev(v, i)
           /\ \A v \in Workers : \A i \in 0 .. Len(pipe[v]) : Ev(v, i)' = Ev(v, i)
<1> PICK k : k = Len(pipe[w]) + 1
  OBVIOUS
<1>2. /\ Len(pipe'[w]) = k /\ Len(pipe[w]) \in Nat /\ Ev(w, k)' = e
      /\ \A i \in 0 .. Len(pipe[w]) : Ev(w, i)' = Ev(w, i)
  BY LineGrows
<1>3. ASSUME NEW v \in Workers, v # w
      PROVE  pipe'[v] = pipe[v] /\ \A i \in 0 .. Len(pipe[v]) : Ev(v, i)' = Ev(v, i)
  BY <1>3 DEF Emit, TypeInv, TypeOK, Ev
<1>4. ASSUME NEW i \in 0 .. Len(pipe'[w])
      PROVE  \/ i = Len(pipe[w]) + 1 /\ Ev(w, i)' = e
             \/ i \in 0 .. Len(pipe[w]) /\ Ev(w, i)' = Ev(w, i)
  <2>1. CASE i = k
    BY <1>2, <2>1
  <2>2. CASE i # k
    BY <1>2, <2>2
  <2> QED
    BY <2>1, <2>2
<1> QED
  BY <1>2, <1>3, <1>4

\* What a worker has told remains told.
LEMMA ToldGrows ==
    ASSUME TypeInv, NEW w \in Workers, NEW e \in Report, Emit(w, e), UNCHANGED op,
           NEW v \in Workers, NEW k \in 0 .. Len(pipe[v]), NEW l \in Nat, k <= l, NEW m, NEW n,
           Told(v, k, m, n)
    PROVE  Told(v, l, m, n)'
<1>1. PICK i \in 0 .. k : Tells(Ev(v, i), m) /\ n \in Ev(v, i).targets
  BY DEF Told
<1>2. pipe[v] \in Seq(Report)
  BY DEF TypeInv, TypeOK
<1>3. i \in 0 .. Len(pipe[v]) /\ i \in 0 .. l
  BY <1>1, <1>2
<1>4. Ev(v, i)' = Ev(v, i)
  BY <1>3, EventsAfter
<1>5. Tells(Ev(v, i)', m) /\ n \in Ev(v, i)'.targets
  BY <1>1, <1>4
<1> QED
  BY <1>3, <1>5 DEF Told, Tells

\* The only job of the message is that one, and goes on as x or is over.
LEMMA JobGoesOn ==
    ASSUME TypeInv, NEW m \in OutIds, NEW w \in Workers, queue[w] # <<>>,
           Head(queue[w]).m = m, OneSource(m), JobsSound(m), UNCHANGED <<pc, op, requests>>,
           NEW x \in Job, Continue(w, x) \/ queue' = [queue EXCEPT ![w] = Tail(@)],
           Continue(w, x) => JobSound(x, m)' /\ Covered(w, Len(pipe[w]), m)'
    PROVE  OneSource(m)' /\ JobsSound(m)'
<1>1. /\ queue \in [Workers -> Seq(Job)] /\ 1 \in 1 .. Len(queue[w]) /\ queue[w][1].m = m
      /\ Len(queue[w]) \in Nat
  BY DEF TypeInv, TypeOK
<1>2. ~Quiet(m) /\ \A v \in Workers : \A k \in 1 .. Len(queue[v]) : queue[v][k].m = m => v = w /\ k = 1
  BY <1>1 DEF JobsSound, Quiet
<1>3. NotAsked(m) /\ \A t \in Http : ~AtControl(t, m)
  BY <1>2 DEF OneSource, NotAsked
<1>4. OneSource(m)'
  BY <1>3 DEF OneSource, NotAsked, AtControl
<1>5. ASSUME NEW v \in Workers, NEW i \in 1 .. Len(queue'[v]), queue'[v][i].m = m
      PROVE  v = w /\ i = 1 /\ queue'[v][i] = x /\ Continue(w, x)
  <2>1. v = w
    BY <1>1, <1>2, <1>5 DEF Continue
  <2>2. /\ Tail(queue[w]) \in Seq(Job) /\ Len(Tail(queue[w])) = Len(queue[w]) - 1
        /\ \A k \in 1 .. Len(queue[w]) - 1 : Tail(queue[w])[k] = queue[w][k + 1]
    BY <1>1
  <2>3. CASE queue' = [queue EXCEPT ![w] = Tail(@)]
    <3>1. queue'[w] = Tail(queue[w])
      BY <1>1, <2>3
    <3>2. i + 1 \in 1 .. Len(queue[w]) /\ queue[w][i + 1] = queue'[w][i] /\ i + 1 # 1
      BY <1>1, <1>5, <2>1, <2>2, <3>1
    <3> QED
      BY <1>2, <1>5, <2>1, <3>2
  <2>4. CASE Continue(w, x)
    <3>1. queue'[w] = <<x>> \o Tail(queue[w])
      BY <1>1, <2>4 DEF Continue
    <3>2. /\ <<x>> \in Seq(Job) /\ Len(<<x>>) = 1 /\ <<x>>[1] = x
      OBVIOUS
    <3>3. /\ Len(queue'[w]) = Len(queue[w])
          /\ \A k \in 1 .. Len(queue[w]) :
                queue'[w][k] = IF k <= 1 THEN <<x>>[k] ELSE Tail(queue[w])[k - 1]
      BY <1>1, <2>2, <3>1, <3>2, ConcatProperties
    <3>4. queue'[w][1] = x /\ \A k \in 1 .. Len(queue[w]) : k # 1 => queue'[w][k] = queue[w][k]
      <4>1. ASSUME NEW k \in 1 .. Len(queue[w]), k # 1 PROVE queue'[w][k] = queue[w][k]
        <5>1. k - 1 \in 1 .. Len(queue[w]) - 1 /\ (k - 1) + 1 = k /\ ~(k <= 1)
          BY <1>1, <4>1
        <5> QED
          BY <2>2, <3>3, <5>1
      <4>2. queue'[w][1] = x
        BY <1>1, <3>2, <3>3
      <4> QED
        BY <4>1, <4>2
    <3>5. i = 1
      BY <1>2, <1>5, <2>1, <3>3, <3>4
    <3> QED
      BY <2>1, <2>4, <3>4, <3>5
  <2> QED
    BY <2>3, <2>4
<1>6. ASSUME NEW v \in Workers, NEW i \in 1 .. Len(queue'[v]), queue'[v][i].m = m
      PROVE  JobSound(queue[v][i], m)' /\ Covered(v, Len(pipe[v]), m)'
  <2>1. JobSound(queue[v][i], m)'
    BY <1>5, <1>6 DEF JobSound
  <2>2. Covered(v, Len(pipe[v]), m)'
    BY <1>5, <1>6
  <2> QED
    BY <2>1, <2>2
<1>7. JobsSound(m)'
  BY <1>5, <1>6 DEF JobsSound
<1> QED
  BY <1>4, <1>7

\* Known acceptances stay covered when an event is written.
LEMMA CoveredGrows ==
    ASSUME TypeInv, NEW w \in Workers, NEW e \in Report, Emit(w, e), UNCHANGED <<op, messages, nodesOf>>,
           NEW m, Covered(w, Len(pipe[w]), m)
    PROVE  /\ Covered(w, Len(pipe[w]), m)'
           /\ \A v \in Workers : \A k \in 0 .. Len(pipe[v]) : Covered(v, k, m) => Covered(v, k, m)'
<1> PICK k : k = Len(pipe[w]) + 1
  OBVIOUS
<1>1. Len(pipe'[w]) = k /\ Len(pipe[w]) \in Nat
  BY LineGrows
<1>2. ASSUME NEW n \in nodesOf'[m], messages'[m].results[n] # "accepted" PROVE Told(w, k, m, n)'
  <2>1. Told(w, Len(pipe[w]), m, n)
    BY <1>2 DEF Covered
  <2> QED
    BY <1>1, <2>1, ToldGrows
<1>3. Covered(w, Len(pipe[w]), m)'
  BY <1>1, <1>2 DEF Covered
<1>4. ASSUME NEW v \in Workers, NEW l \in 0 .. Len(pipe[v]), Covered(v, l, m) PROVE Covered(v, l, m)'
  <2> SUFFICES ASSUME NEW n \in nodesOf'[m], messages'[m].results[n] # "accepted"
               PROVE  Told(v, l, m, n)'
    BY DEF Covered
  <2>1. Told(v, l, m, n)
    BY <1>4 DEF Covered
  <2>2. l \in Nat /\ l <= l
    OBVIOUS
  <2> QED
    BY <2>1, <2>2, ToldGrows
<1> QED
  BY <1>3, <1>4

\* What the invariant says of the job at the head.
LEMMA JobKnown ==
    ASSUME TypeInv, NEW m, JobsSound(m), NEW w \in Workers, queue[w] # <<>>, Head(queue[w]).m = m
    PROVE  JobSound(Head(queue[w]), m) /\ Covered(w, Len(pipe[w]), m)
<1>1. 1 \in 1 .. Len(queue[w]) /\ queue[w][1] = Head(queue[w])
  BY DEF TypeInv, TypeOK
<1> QED
  BY <1>1 DEF JobsSound

\* The events stay sound when one that closes nothing is written before
\* the job is complete.
LEMMA EventsGoOn ==
    ASSUME TypeInv, NEW w \in Workers, NEW e \in Report, Emit(w, e), UNCHANGED op, NEW m,
           EventsSound(m), ~Closes(e, m), Fails(e, m) => e.targets \cap nodesOf'[m] = {},
           NEW j, JobSound(j, m), ~j.complete, nodesOf'[m] \subseteq nodesOf[m] \cup j.todo
    PROVE  EventsSound(m)' /\ \A v \in Workers : \A i \in 0 .. Len(pipe'[v]) : ~Closes(Ev(v, i), m)'
<1> SUFFICES ASSUME NEW v \in Workers, NEW i \in 0 .. Len(pipe'[v])
             PROVE  /\ ~Closes(Ev(v, i)', m)
                    /\ Fails(Ev(v, i)', m) => Ev(v, i)'.targets \cap nodesOf'[m] = {}
  BY DEF EventsSound, Closes, Fails
<1>1. CASE Ev(v, i)' = e
  BY <1>1
<1>2. CASE i \in 0 .. Len(pipe[v]) /\ Ev(v, i)' = Ev(v, i)
  <2>1. ~Closes(Ev(v, i), m)
    BY <1>2 DEF JobSound
  <2>2. Fails(Ev(v, i), m) => /\ Ev(v, i).targets \cap j.todo = {}
                              /\ Ev(v, i).targets \cap nodesOf[m] = {}
    BY <1>2 DEF JobSound, EventsSound
  <2> QED
    BY <1>2, <2>1, <2>2
<1> QED
  BY <1>1, <1>2, EventsAfter

\* The worker tells of the node before it counts it.
LEMMA NodeAcceptedSound ==
    ASSUME TypeInv, TypeInv', NEW m \in OutIds, Sound(m), NEW w \in Workers, NEW n \in Nodes,
           NodeAccepted(w, n), Head(queue[w]).m = m
    PROVE  Sound(m)'
<1> PICK j : j = Head(queue[w])
  OBVIOUS
<1> PICK e : e = Event("propagated", m, "propagation", {n}, 0)
  OBVIOUS
<1> PICK x : x = [j EXCEPT !.todo = j.todo \ {n}, !.ok = j.ok + 1]
  OBVIOUS
<1>1. /\ UNCHANGED <<messages, op, pc, requests, drawn>> /\ queue[w] # <<>> /\ n \in j.todo
      /\ Emit(w, e) /\ nodesOf' = [nodesOf EXCEPT ![m] = @ \cup {n}] /\ Continue(w, x)
  BY DEF NodeAccepted, fileVars, threadVars
<1>2. e \in Report /\ Tells(e, m) /\ e.targets = {n}
  BY EventType DEF DeliveryMethod, Event, Tells
<1>3. j \in Job /\ j.ok \in Nat /\ j.todo \subseteq Nodes
  BY <1>1, HeadType DEF Job
<1>4. x \in Job /\ x.todo = j.todo \ {n} /\ x.ok = j.ok + 1 /\ x.complete = j.complete
  <2>1. \A left \in SUBSET Nodes, ok \in Nat :
            LET y == [j EXCEPT !.todo = left, !.ok = ok]
            IN  y \in Job /\ y.todo = left /\ y.ok = ok /\ y.complete = j.complete
    BY <1>3 DEF Job
  <2>2. j.todo \ {n} \in SUBSET Nodes /\ j.ok + 1 \in Nat
    BY <1>3
  <2> QED
    BY <2>1, <2>2
<1>5. ControlOld(m) /\ FirstOld(m)
  BY <1>1 DEF ControlOld, AtControl, FirstOld, First, Writing
<1>6. ~Clean(m)
  <2>1. 1 \in 1 .. Len(queue[w]) /\ queue[w][1].m = m
    BY <1>1 DEF TypeInv, TypeOK
  <2> QED
    BY <2>1 DEF Clean, Quiet
<1>7. nodesOf'[m] = nodesOf[m] \cup {n} /\ nodesOf[m] \subseteq Nodes
  BY <1>1 DEF TypeInv, TypeOK
<1>8. ASSUME messages[m].attempts = 1 PROVE Traced(m)'
  <2>1. OneSource(m) /\ JobsSound(m) /\ EventsSound(m)
    BY <1>8 DEF Sound, Traced
  <2>2. JobSound(j, m) /\ Covered(w, Len(pipe[w]), m)
    BY <1>1, <2>1, JobKnown
  <2>3. ~j.complete /\ n \notin nodesOf[m] /\ j.ok = Cardinality(nodesOf[m])
    BY <1>1, <2>2 DEF JobSound
  <2>4. EventsSound(m)' /\ \A v \in Workers : \A i \in 0 .. Len(pipe'[v]) : ~Closes(Ev(v, i), m)'
    <3>1. ~Closes(e, m) /\ ~Fails(e, m)
      BY <1>2 DEF Tells, Closes, Fails
    <3>2. nodesOf'[m] \subseteq nodesOf[m] \cup j.todo
      BY <1>1, <1>7
    <3> QED
      BY <1>1, <1>2, <2>1, <2>2, <2>3, <3>1, <3>2, EventsGoOn
  <2>5. JobSound(x, m)'
    <3>1. x.ok = Cardinality(nodesOf'[m])
      <4>1. IsFiniteSet(nodesOf[m])
        BY <1>7, StoreAssumption, FS_Subset
      <4>2. Cardinality(nodesOf[m] \cup {n}) = Cardinality(nodesOf[m]) + 1
        BY <2>3, <4>1, FS_AddElement
      <4> QED
        BY <1>4, <1>7, <2>3, <4>2
    <3>2. x.todo \cap nodesOf'[m] = {}
      BY <1>4, <1>7, <2>2 DEF JobSound
    <3>3. ASSUME NEW v \in Workers, NEW i \in 0 .. Len(pipe'[v]), Fails(Ev(v, i)', m)
          PROVE  Ev(v, i)'.targets \cap x.todo = {}
      <4>1. Ev(v, i)' # e
        BY <1>2, <3>3 DEF Fails, Tells
      <4>2. i \in 0 .. Len(pipe[v]) /\ Ev(v, i)' = Ev(v, i)
        BY <1>1, <1>2, <4>1, EventsAfter
      <4>3. Ev(v, i).targets \cap j.todo = {}
        BY <2>2, <3>3, <4>2 DEF JobSound
      <4> QED
        BY <1>4, <4>2, <4>3
    <3>4. \A v \in Workers : \A i \in 0 .. Len(pipe'[v]) :
              (Fails(Ev(v, i), m) => Ev(v, i).targets \cap x.todo = {})'
      BY <3>3 DEF Fails
    <3> QED
      BY <1>4, <2>3, <2>4, <3>1, <3>2, <3>4 DEF JobSound
  <2>6. Covered(w, Len(pipe[w]), m)'
    <3> PICK k : k = Len(pipe[w]) + 1
      OBVIOUS
    <3>1. Len(pipe'[w]) = k /\ Len(pipe[w]) \in Nat /\ Ev(w, k)' = e
      BY <1>1, <1>2, LineGrows
    <3> SUFFICES ASSUME NEW a \in nodesOf'[m], messages'[m].results[a] # "accepted"
                 PROVE  Told(w, k, m, a)'
      BY <3>1 DEF Covered
    <3>2. CASE a = n
      <4>1. k \in 0 .. k
        BY <3>1
      <4>2. Tells(Ev(w, k)', m) /\ a \in Ev(w, k)'.targets
        BY <1>2, <3>1, <3>2
      <4> QED
        BY <4>1, <4>2 DEF Told, Tells
    <3>3. CASE a # n
      <4>1. Told(w, Len(pipe[w]), m, a)
        BY <1>1, <1>7, <2>2, <3>3 DEF Covered
      <4>2. Len(pipe[w]) \in 0 .. Len(pipe[w]) /\ k \in Nat /\ Len(pipe[w]) <= k
        BY <3>1
      <4> QED
        BY <1>1, <1>2, <4>1, <4>2, ToldGrows
    <3> QED
      BY <3>2, <3>3
  <2>7. OneSource(m)' /\ JobsSound(m)'
    BY <1>1, <1>4, <2>1, <2>5, <2>6, JobGoesOn
  <2> QED
    BY <2>4, <2>7 DEF Traced
<1> QED
  BY <1>1, <1>5, <1>6, <1>7, <1>8, BusySound

\* A node that failed has not accepted, and is not asked again.
LEMMA NodeFailedSound ==
    ASSUME TypeInv, TypeInv', NEW m \in OutIds, Sound(m), NEW w \in Workers, NEW n \in Nodes,
           NodeFailed(w, n), Head(queue[w]).m = m
    PROVE  Sound(m)'
<1> PICK j : j = Head(queue[w])
  OBVIOUS
<1> PICK e : e = Event("nodefailed", m, "propagation", {n}, 0)
  OBVIOUS
<1>1. /\ UNCHANGED <<messages, op, pc, requests, drawn, nodesOf>> /\ queue[w] # <<>> /\ n \in j.todo
      /\ Emit(w, e) /\ \E rest \in {j.todo \ {n}, {}} : Continue(w, [j EXCEPT !.todo = rest])
  BY DEF NodeFailed, fileVars, threadVars, historyVars
<1>a. PICK rest \in {j.todo \ {n}, {}} : Continue(w, [j EXCEPT !.todo = rest])
  BY <1>1
<1> PICK x : x = [j EXCEPT !.todo = rest]
  OBVIOUS
<1>2. e \in Report /\ Fails(e, m) /\ e.targets = {n}
  BY EventType DEF DeliveryMethod, Event, Fails
<1>3. j \in Job /\ j.ok \in Nat /\ j.todo \subseteq Nodes /\ rest \subseteq j.todo \ {n}
  BY <1>1, HeadType DEF Job
<1>4. /\ x \in Job /\ x.todo \subseteq j.todo \ {n} /\ x.ok = j.ok /\ x.complete = j.complete
      /\ Continue(w, x)
  BY <1>a, <1>3 DEF Job
<1>5. ControlOld(m) /\ FirstOld(m)
  BY <1>1 DEF ControlOld, AtControl, FirstOld, First, Writing
<1>6. ~Clean(m)
  <2>1. 1 \in 1 .. Len(queue[w]) /\ queue[w][1].m = m
    BY <1>1 DEF TypeInv, TypeOK
  <2> QED
    BY <2>1 DEF Clean, Quiet
<1>8. ASSUME messages[m].attempts = 1 PROVE Traced(m)'
  <2>1. OneSource(m) /\ JobsSound(m) /\ EventsSound(m)
    BY <1>8 DEF Sound, Traced
  <2>2. JobSound(j, m) /\ Covered(w, Len(pipe[w]), m)
    BY <1>1, <2>1, JobKnown
  <2>3. ~j.complete /\ n \notin nodesOf[m]
    BY <1>1, <2>2 DEF JobSound
  <2>4. EventsSound(m)' /\ \A v \in Workers : \A i \in 0 .. Len(pipe'[v]) : ~Closes(Ev(v, i), m)'
    <3>1. ~Closes(e, m) /\ e.targets \cap nodesOf'[m] = {}
      BY <1>1, <1>2, <2>3 DEF Closes, Fails
    <3> QED
      BY <1>1, <1>2, <2>1, <2>2, <2>3, <3>1, EventsGoOn
  <2>5. JobSound(x, m)'
    <3>1. x.ok = Cardinality(nodesOf'[m]) /\ x.todo \cap nodesOf'[m] = {}
      BY <1>1, <1>4, <2>2 DEF JobSound
    <3>3. ASSUME NEW v \in Workers, NEW i \in 0 .. Len(pipe'[v]), Fails(Ev(v, i)', m)
          PROVE  Ev(v, i)'.targets \cap x.todo = {}
      <4>1. CASE Ev(v, i)' = e
        BY <1>2, <1>4, <4>1
      <4>2. CASE i \in 0 .. Len(pipe[v]) /\ Ev(v, i)' = Ev(v, i)
        <5>1. Ev(v, i).targets \cap j.todo = {}
          BY <2>2, <3>3, <4>2 DEF JobSound
        <5> QED
          BY <1>4, <4>2, <5>1
      <4> QED
        BY <1>1, <1>2, <4>1, <4>2, EventsAfter
    <3>4. \A v \in Workers : \A i \in 0 .. Len(pipe'[v]) :
              (Fails(Ev(v, i), m) => Ev(v, i).targets \cap x.todo = {})'
      BY <3>3 DEF Fails
    <3> QED
      BY <1>4, <2>3, <2>4, <3>1, <3>4 DEF JobSound
  <2>6. Covered(w, Len(pipe[w]), m)'
    BY <1>1, <1>2, <2>2, CoveredGrows
  <2>7. OneSource(m)' /\ JobsSound(m)'
    BY <1>1, <1>4, <2>1, <2>5, <2>6, JobGoesOn
  <2> QED
    BY <2>4, <2>7 DEF Traced
<1> QED
  BY <1>1, <1>5, <1>6, <1>8, BusySound

\* The count is reported behind the acceptances it counts.
LEMMA CompleteSound ==
    ASSUME TypeInv, TypeInv', NEW m \in OutIds, Sound(m), NEW w \in Workers,
           ReplicationComplete(w), Head(queue[w]).m = m
    PROVE  Sound(m)'
<1> PICK j : j = Head(queue[w])
  OBVIOUS
<1> PICK e : e = Event("complete", m, "propagation", j.targets, j.ok)
  OBVIOUS
<1> PICK x : x = [j EXCEPT !.complete = TRUE]
  OBVIOUS
<1> PICK k : k = Len(pipe[w]) + 1
  OBVIOUS
<1>1. /\ UNCHANGED <<messages, op, pc, requests, drawn, nodesOf>> /\ queue[w] # <<>>
      /\ Emit(w, e) /\ j.todo = {} /\ ~j.complete
      /\ Continue(w, x) \/ queue' = [queue EXCEPT ![w] = Tail(@)]
  BY DEF ReplicationComplete, fileVars, threadVars, historyVars
<1>3. j \in Job /\ j.ok \in Nat /\ j.targets \in SUBSET Nodes
  BY <1>1, HeadType DEF Job
<1>2. e \in Report /\ Closes(e, m) /\ e.ok = j.ok
  BY <1>3, EventType DEF DeliveryMethod, Event, Closes
<1>4. x \in Job /\ x.todo = {} /\ x.ok = j.ok /\ x.complete = TRUE
  BY <1>1, <1>3 DEF Job
<1>5. ControlOld(m) /\ FirstOld(m)
  BY <1>1 DEF ControlOld, AtControl, FirstOld, First, Writing
<1>6. ~Clean(m)
  <2>1. 1 \in 1 .. Len(queue[w]) /\ queue[w][1].m = m
    BY <1>1 DEF TypeInv, TypeOK
  <2> QED
    BY <2>1 DEF Clean, Quiet
<1>8. ASSUME messages[m].attempts = 1 PROVE Traced(m)'
  <2>1. OneSource(m) /\ JobsSound(m) /\ EventsSound(m)
    BY <1>8 DEF Sound, Traced
  <2>2. JobSound(j, m) /\ Covered(w, Len(pipe[w]), m)
    BY <1>1, <2>1, JobKnown
  <2>3. j.ok = Cardinality(nodesOf[m])
    BY <2>2 DEF JobSound
  <2>4. Covered(w, Len(pipe[w]), m)'
    BY <1>1, <1>2, <2>2, CoveredGrows
  <2>5. EventsSound(m)'
    <3> SUFFICES ASSUME NEW v \in Workers, NEW i \in 0 .. Len(pipe'[v])
                 PROVE  /\ Closes(Ev(v, i)', m) => /\ Ev(v, i)'.ok = Cardinality(nodesOf'[m])
                                                   /\ Covered(v, i, m)'
                        /\ Fails(Ev(v, i)', m) => Ev(v, i)'.targets \cap nodesOf'[m] = {}
      BY DEF EventsSound, Closes, Fails
    <3>1. CASE v = w /\ i = k /\ Ev(v, i)' = e
      <4>1. Len(pipe'[w]) = k
        BY <1>1, <1>2, LineGrows
      <4>2. Covered(w, k, m)'
        BY <2>4, <4>1 DEF Covered
      <4>3. ~Fails(Ev(v, i)', m) /\ Ev(v, i)'.ok = Cardinality(nodesOf'[m])
        BY <1>1, <1>2, <2>3, <3>1 DEF Closes, Fails
      <4> QED
        BY <3>1, <4>2, <4>3
    <3>2. CASE i \in 0 .. Len(pipe[v]) /\ Ev(v, i)' = Ev(v, i)
      <4>1. ~Closes(Ev(v, i), m)
        BY <1>1, <2>2, <3>2 DEF JobSound
      <4>2. Fails(Ev(v, i), m) => Ev(v, i).targets \cap nodesOf[m] = {}
        BY <2>1, <3>2 DEF EventsSound
      <4> QED
        BY <1>1, <3>2, <4>1, <4>2
    <3> QED
      BY <1>1, <1>2, <3>1, <3>2, EventsAfter
  <2>6. JobSound(x, m)'
    <3>1. x.ok = Cardinality(nodesOf'[m])
      BY <1>1, <1>4, <2>3
    <3> QED
      BY <1>4, <3>1 DEF JobSound
  <2>7. OneSource(m)' /\ JobsSound(m)'
    BY <1>1, <1>4, <2>1, <2>4, <2>6, JobGoesOn
  <2> QED
    BY <2>5, <2>7 DEF Traced
<1> QED
  BY <1>1, <1>5, <1>6, <1>8, BusySound

LEMMA PropagationSound ==
    ASSUME TypeInv, TypeInv', NEW m \in OutIds, Sound(m), NEW w \in Workers, PropagationStep(w)
    PROVE  Sound(m)'
<1>1. UNCHANGED <<op, pc, drawn>>
  BY DEF PropagationStep, NodeAccepted, NodeFailed, ReplicationComplete, FinalFailure, threadVars,
     historyVars
<1>2. FirstOld(m)
  BY <1>1 DEF FirstOld, First, AtControl, Writing
<1>3. CASE Head(queue[w]).m # m \/ FinalFailure(w)
  BY <1>2, <1>3, PropagationLeaves, LeftSound
<1>4. CASE Head(queue[w]).m = m /\ ~FinalFailure(w)
  BY <1>4, NodeAcceptedSound, NodeFailedSound, CompleteSound DEF PropagationStep
<1> QED
  BY <1>3, <1>4

-----------------------------------------------------------------------------
(* The file is read and written. *)
LEMMA StoreFrame ==
    ASSUME TypeInv, TypeInv', NEW m, NEW t \in Threads, StoreStep(t), ~disturbed'
    PROVE  /\ UNCHANGED <<queue, requests, pipe, nodesOf, drawn>>
           /\ JobsOld(m) /\ RequestsOld(m)
           /\ \A u \in Threads \ {t} : op'[u] = op[u] /\ pc'[u] = pc[u]
           /\ \/ op'[t] = op[t] /\ pc'[t] \in {"truncate", "write"} /\ pc[t] \in {"read", "truncate"}
                 /\ messages' = messages
              \/ op'[t] = NoOp /\ pc'[t] \in {"idle", "done"}
                 /\ StoreRead(t) /\ ~Writes(op[t], messages) /\ messages' = messages
              \/ op'[t] = NoOp /\ pc'[t] \in {"idle", "done"} /\ StoreWrite(t)
              \/ op'[t] = op[t] /\ pc'[t] = "control" /\ StoreWrite(t)
                 /\ op[t].kind \in {"add", "retry"} /\ t \in Http
<1>1. UNCHANGED <<queue, requests, pipe, nodesOf, drawn>>
  BY DEF StoreStep, StoreRead, StoreReadFails, StoreTruncate, StoreWrite, workerVars, historyVars
<1>2. JobsOld(m) /\ RequestsOld(m)
  BY <1>1, JobsMoved, RequestsMoved DEF QueueMoves
<1>3. DOMAIN op = Threads /\ DOMAIN pc = Threads
  BY DEF TypeInv, TypeOK
<1>4. CASE StoreRead(t)
  BY <1>1, <1>2, <1>3, <1>4 DEF StoreRead, Finish, Begin, fileVars
<1>5. CASE StoreTruncate(t)
  BY <1>1, <1>2, <1>3, <1>5 DEF StoreTruncate
<1>6. CASE StoreWrite(t)
  <2>1. op[t].kind \in {"add", "retry"} => t \in Http
    BY DEF TypeInv, OpShape
  <2> QED
    BY <1>1, <1>2, <1>3, <1>6, <2>1 DEF StoreWrite, AfterWrite, Finish, Begin
<1>7. CASE StoreReadFails(t)
  BY <1>7 DEF StoreReadFails
<1> QED
  BY <1>4, <1>5, <1>6, <1>7 DEF StoreStep

LEMMA StoreFirstOld ==
    ASSUME TypeInv, TypeInv', NEW m, NEW t \in Threads, StoreStep(t), ~disturbed'
    PROVE  FirstOld(m)
<1>1. NoOp.kind = "clear"
  BY DEF NoOp, PlainOp
<1>2. drawn' = drawn
  BY StoreFrame
<1>3. ASSUME NEW u \in Http
      PROVE  /\ First(u, m)' => First(u, m) /\ (Writing(u)' => Writing(u))
             /\ AtControl(u, m)' /\ First(u, m) => First(u, m)'
  <2>1. CASE u = t
    BY <1>1, <2>1, StoreFrame DEF First, Writing, AtControl
  <2>2. CASE u # t
    BY <2>2, StoreFrame, ThreadSets DEF First, Writing, AtControl
  <2> QED
    BY <2>1, <2>2
<1> QED
  BY <1>2, <1>3 DEF FirstOld

\* Events stay as they are, but for the one at work, which may be over.
LEMMA StoreLines ==
    ASSUME TypeInv, TypeInv', NEW m, NEW t \in Threads, StoreStep(t), ~disturbed'
    PROVE  /\ NewsOld(m)
           /\ \/ op'[t] = op[t] \/ t \notin Workers \/ ~Tells(op[t], m)
              \/ \A n \in op[t].targets : messages'[m].results[n] = "accepted"
              => LinesKept(m)
<1>1. ~News(NoOp, m)
  BY DEF News, Tells, Closes, Fails, NoOp, PlainOp
<1>2. ASSUME NEW w \in Workers
      PROVE  pipe'[w] = pipe[w] /\ (op'[w] = op[w] \/ (w = t /\ op'[w] = NoOp))
  BY StoreFrame, ThreadSets
<1>3. NewsOld(m)
  <2>1. \A w \in Workers : NewsFrom(w, m, 0)
    BY <1>1, <1>2, LineApplied
  <2> QED
    BY <2>1 DEF NewsOld
<1>4. ASSUME \/ op'[t] = op[t] \/ t \notin Workers \/ ~Tells(op[t], m)
             \/ \A n \in op[t].targets : messages'[m].results[n] = "accepted"
      PROVE  LinesKept(m)
  <2>1. \A w \in Workers : NewsFrom(w, m, 0) /\ TellsKept(w, m, 0)
    BY <1>1, <1>2, <1>4, LineApplied
  <2> QED
    BY <2>1 DEF LinesKept
<1> QED
  BY <1>3, <1>4

\* Undisturbed, a step that leaves the file alone.
LEMMA StoreReadSound ==
    ASSUME TypeInv, TypeInv', Reporters, NEW m \in OutIds, Sound(m), Numbered(messages, m),
           NEW t \in Threads, StoreStep(t), ~StoreWrite(t), ~disturbed'
    PROVE  Sound(m)'
<1>1. messages' = messages /\ nodesOf' = nodesOf /\ JobsOld(m) /\ RequestsOld(m)
  BY StoreFrame
<1>2. FirstOld(m) /\ NewsOld(m)
  BY StoreFirstOld, StoreLines
<1>3. ControlOld(m)
  BY StoreFrame, ThreadSets DEF ControlOld, AtControl
<1>4. ASSUME messages[m].attempts = 1 PROVE LinesKept(m)
  <2>1. CASE op'[t] = op[t]
    BY <2>1, StoreLines
  <2>2. CASE op'[t] # op[t]
    <3>1. ~Writes(op[t], messages)
      BY <2>2, StoreFrame
    <3>2. messages[m].state \notin {"absent", "received"}
      BY <1>4 DEF Numbered
    <3>3. ~Tells(op[t], m)
      BY <3>1, <3>2 DEF Tells, Writes, ExpectsSending
    <3> QED
      BY <3>3, StoreLines
  <2> QED
    BY <2>1, <2>2
<1>5. messages'[m].attempts = 1 => FileCounts(m)'
  BY <1>1, FileCountsStay DEF Sound
<1>6. messages'[m].state = "absent" => messages'[m].attempts = 0
  BY <1>1 DEF Sound, Unsent
<1> QED
  BY <1>1, <1>2, <1>3, <1>4, <1>5, <1>6, KeptSound

\* The first record of the message is written.
LEMMA FirstWritten ==
    ASSUME TypeInv, TypeInv', NEW m \in OutIds, Sound(m),
           NEW t \in Threads, StoreWrite(t), ~disturbed', First(t, m),
           messages' = Written(op[t], messages)
    PROVE  Sound(m)'
<1>1. pc[t] = "write" /\ t \in Http /\ op[t] \in Op /\ messages \in Conversation /\ op[t].m \in MsgIds
  BY DEF StoreWrite, First, TypeInv, TypeOK, OpShape, Op
<1>2. StoreStep(t)
  BY DEF StoreStep
<1>3. /\ Clean(m) /\ \A u \in Http : First(u, m) => u = t
  BY <1>1 DEF Sound, Unsent
<1>4. FirstOld(m) /\ NewsOld(m) /\ JobsOld(m) /\ RequestsOld(m) /\ nodesOf' = nodesOf
  BY <1>2, StoreFirstOld, StoreLines, StoreFrame
<1>5. /\ op'[t] = op[t] /\ pc'[t] = "control" /\ drawn' = drawn
      /\ \A u \in Threads \ {t} : op'[u] = op[u] /\ pc'[u] = pc[u]
  <2>1. op[t].kind = "add"
    BY DEF First
  <2>2. DOMAIN op = Threads /\ DOMAIN pc = Threads
    BY DEF TypeInv, TypeOK
  <2> QED
    BY <2>1, <2>2 DEF StoreWrite, AfterWrite, Begin, historyVars
<1>6. Quiet(m)' /\ NotAsked(m)'
  BY <1>3, <1>4, QuietStays, NotAskedStays DEF Clean
<1>7. messages'[m] = Attempt(1, op[t].method, op[t].targets)
  BY <1>1 DEF Written, AddOutbound, First, Conversation
<1>8. Unsent(m)'
  <2>1. m \in drawn
    BY <1>1 DEF Sound, Unsent
  <2>2. ASSUME NEW u \in Http, First(u, m)'
        PROVE  pc'[u] \notin {"read", "truncate", "write"} /\ \A v \in Http : First(v, m)' => v = u
    <3>1. u = t /\ \A v \in Http : First(v, m)' => v = t
      BY <1>3, <1>4, <2>2 DEF FirstOld
    <3> QED
      BY <1>5, <3>1
  <2>3. ASSUME NEW u \in Http, AtControl(u, m)' PROVE First(u, m)'
    <3>1. CASE u = t
      BY <1>5, <3>1 DEF First
    <3>2. CASE u # t
      BY <1>3, <1>5, <2>3, <3>2, ThreadSets DEF Clean, AtControl
    <3> QED
      BY <3>1, <3>2
  <2>4. messages'[m].state # "absent"
    <3>1. Attempt(1, op[t].method, op[t].targets).state = "sending"
      BY DEF Attempt
    <3> QED
      BY <1>7, <3>1
  <2> QED
    BY <1>5, <2>1, <2>2, <2>3, <2>4 DEF Unsent
<1>9. FileCounts(m)'
  <2>1. messages'[m].accepted = 0 /\ \A n \in Nodes : messages'[m].results[n] # "accepted"
    BY <1>1, WrittenFirst DEF First
  <2>2. {n \in Nodes : messages'[m].results[n] = "accepted"} = {}
    BY <2>1
  <2>3. AcceptedResults(messages'[m].results) = 0
    BY <2>2, FS_EmptySet DEF AcceptedResults
  <2> QED
    BY <2>1, <2>3 DEF FileCounts
<1>10. OneSource(m)'
  BY <1>6 DEF OneSource, NotAsked
<1>11. JobsSound(m)' /\ EventsSound(m)'
  BY <1>6 DEF Quiet, JobsSound, EventsSound, News
<1> QED
  BY <1>8, <1>9, <1>10, <1>11 DEF Sound, Traced

\* The same results are accepted, so their number is the same.
LEMMA AcceptedKept ==
    ASSUME NEW results, NEW results2,
           \A n \in Nodes : results2[n] = "accepted" <=> results[n] = "accepted"
    PROVE  AcceptedResults(results2) = AcceptedResults(results)
<1>1. {n \in Nodes : results2[n] = "accepted"} = {n \in Nodes : results[n] = "accepted"}
  OBVIOUS
<1> QED
  BY <1>1 DEF AcceptedResults

\* Undisturbed, any other operation is written.
LEMMA WrittenSound ==
    ASSUME TypeInv, TypeInv', Reporters, Evidence, NEW m \in OutIds, Sound(m), Numbered(messages, m),
           NEW t \in Threads, StoreWrite(t), ~disturbed', ~First(t, m),
           Writes(op[t], messages), messages' = Written(op[t], messages)
    PROVE  Sound(m)'
<1> DEFINE o == op[t]
           was == messages[m]
           is == messages'[m]
<1>1. StoreStep(t)
  BY DEF StoreStep
<1>2. /\ FirstOld(m) /\ NewsOld(m) /\ JobsOld(m) /\ RequestsOld(m) /\ nodesOf' = nodesOf
  BY <1>1, StoreFirstOld, StoreLines, StoreFrame
<1>3. /\ o \in Op /\ messages \in Conversation /\ (o.kind = "received" => o.m \in InIds)
      /\ Backed(o, delivered, nodesOf) /\ nodesOf[m] \subseteq Nodes
  BY DEF TypeInv, TypeOK, Evidence, Backed
<1>4. /\ is.state = "absent" => is.attempts = 0
      /\ is.attempts = 1 => was.attempts = 1
      /\ was.attempts = 0 => is.attempts = 0
      /\ o.kind = "retry" /\ o.m = m => is.attempts # 1
  BY <1>3, WrittenAttempts DEF First
<1>5. ~(o.kind = "retry" /\ o.m = m) => ControlOld(m)
  BY <1>1, StoreFrame, ThreadSets DEF ControlOld, AtControl, First
<1>6. was.attempts = 0 => ControlOld(m)
  <2>1. o.kind = "retry" /\ o.m = m => was.state # "absent"
    BY DEF Writes, Repeatable
  <2> QED
    BY <1>5, <2>1 DEF Numbered
<1>7. ASSUME is.attempts = 1
      PROVE  /\ ControlOld(m) /\ LinesKept(m) /\ FileCounts(m)'
             /\ \A n \in Nodes : was.results[n] = "accepted" => is.results[n] = "accepted"
  <2>1. ControlOld(m) /\ FileCounts(m) /\ EventsSound(m)
    BY <1>4, <1>5, <1>7 DEF Sound, Traced
  <2>2. /\ ~News(o, m) => is.results = was.results /\ is.accepted = was.accepted
        /\ Tells(o, m) => /\ is.results = SetResults(was.results, o.targets, "accepted")
                          /\ is.accepted = AcceptedResults(is.results)
        /\ Fails(o, m) => /\ is.results = SetResults(was.results, o.targets, "failed")
                          /\ is.accepted = was.accepted
        /\ Closes(o, m) => /\ is.accepted = o.ok
                           /\ \A n \in Nodes : is.results[n] = "accepted" <=> was.results[n] = "accepted"
    BY <1>3, <1>7, WrittenResult DEF First
  <2>3. ASSUME News(o, m) PROVE t \in Workers /\ o = Ev(t, 0) /\ 0 \in 0 .. Len(pipe[t])
    <3>1. t \in Workers
      BY <2>3 DEF Reporters, News, Tells, Closes, Fails
    <3>2. pipe[t] \in Seq(Report)
      BY <3>1 DEF TypeInv, TypeOK
    <3> QED
      BY <3>1, <3>2 DEF Ev
  <2>4. CASE ~News(o, m)
    <3>1. FileCounts(m)'
      BY <1>2, <2>1, <2>2, <2>4 DEF FileCounts
    <3>2. LinesKept(m)
      BY <1>1, <2>4, StoreLines DEF News
    <3> QED
      BY <2>1, <2>2, <2>4, <3>1, <3>2
  <2>5. CASE Tells(o, m)
    <3>1. \A n \in Nodes : is.results[n] = IF n \in o.targets THEN "accepted" ELSE was.results[n]
      BY <2>2, <2>5 DEF SetResults
    <3>2. o.targets \subseteq nodesOf[m]
      BY <1>3, <2>5 DEF Backed, Tells
    <3>3. FileCounts(m)'
      BY <1>2, <2>1, <2>2, <2>5, <3>1, <3>2 DEF FileCounts
    <3>4. LinesKept(m)
      <4>1. \A n \in o.targets : is.results[n] = "accepted"
        BY <1>3, <3>1, <3>2
      <4> QED
        BY <1>1, <4>1, StoreLines
    <3> QED
      BY <2>1, <3>1, <3>3, <3>4
  <2>6. CASE Fails(o, m)
    <3>1. \A n \in Nodes : is.results[n] = IF n \in o.targets THEN "failed" ELSE was.results[n]
      BY <2>2, <2>6 DEF SetResults
    <3>2. o.targets \cap nodesOf[m] = {}
      BY <2>1, <2>3, <2>6 DEF EventsSound, News
    <3>3. \A n \in Nodes : is.results[n] = "accepted" <=> was.results[n] = "accepted"
      BY <2>1, <3>1, <3>2 DEF FileCounts
    <3>4. AcceptedResults(is.results) = AcceptedResults(was.results)
      BY <3>3, AcceptedKept
    <3>5. FileCounts(m)'
      BY <1>2, <2>1, <2>2, <2>6, <3>3, <3>4 DEF FileCounts
    <3>6. LinesKept(m)
      BY <1>1, <2>6, StoreLines DEF Fails, Tells
    <3> QED
      BY <2>1, <3>3, <3>5, <3>6
  <2>7. CASE Closes(o, m)
    <3>1. is.accepted = Cardinality(nodesOf[m]) /\ Covered(t, 0, m)
      BY <2>1, <2>2, <2>3, <2>7 DEF EventsSound, News
    <3>2. ASSUME NEW n \in nodesOf[m] PROVE was.results[n] = "accepted"
      <4>1. CASE Told(t, 0, m, n)
        <5>1. PICK i \in 0 .. 0 : Tells(Ev(t, i), m)
          BY <4>1 DEF Told
        <5>2. i = 0
          BY <5>1
        <5> QED
          BY <2>3, <2>7, <5>1, <5>2 DEF News, Tells, Closes
      <4> QED
        BY <3>1, <4>1 DEF Covered
    <3>3. {n \in Nodes : is.results[n] = "accepted"} = nodesOf[m]
      BY <1>3, <2>1, <2>2, <2>7, <3>2 DEF FileCounts
    <3>4. is.accepted = AcceptedResults(is.results)
      BY <3>1, <3>3 DEF AcceptedResults
    <3>5. FileCounts(m)'
      BY <1>2, <3>3, <3>4 DEF FileCounts
    <3>6. LinesKept(m)
      BY <1>1, <2>7, StoreLines DEF Closes, Tells
    <3> QED
      BY <2>1, <2>2, <2>7, <3>5, <3>6
  <2> QED
    BY <2>4, <2>5, <2>6, <2>7 DEF News
<1> QED
  BY <1>2, <1>4, <1>6, <1>7, KeptSound

-----------------------------------------------------------------------------
(* The other steps, and all of them. *)
\* The workers, their output and the threads are gone.
LEMMA RestartSound ==
    ASSUME TypeInv, TypeInv', NEW m \in OutIds, Sound(m), RestartController
    PROVE  Sound(m)'
<1>1. /\ UNCHANGED <<messages, nodesOf, drawn>>
      /\ \A w \in Workers : Len(pipe'[w]) = 0 /\ Len(queue'[w]) = 0 /\ Len(requests'[w]) = 0
      /\ \A t \in Threads : pc'[t] # "control" /\ op'[t].kind \in {"restart", "clear"}
  BY DEF RestartController, fileVars, PlainOp, NoOp
<1>2. \A w \in Workers : \A i \in 0 .. Len(pipe'[w]) : ~News(Ev(w, i), m)'
  <2> SUFFICES ASSUME NEW w \in Workers, NEW i \in 0 .. Len(pipe'[w]) PROVE ~News(Ev(w, i), m)'
    OBVIOUS
  <2>1. i = 0 /\ w \in Threads
    BY <1>1, ThreadSets
  <2> QED
    BY <1>1, <2>1 DEF Ev, News, Tells, Closes, Fails
<1>3. /\ \A w \in Workers : \A i \in 1 .. Len(queue'[w]) : FALSE
      /\ \A w \in Workers : \A i \in 1 .. Len(requests'[w]) : FALSE
  BY <1>1
<1>4. \A t \in Http : ~AtControl(t, m)' /\ ~First(t, m)'
  BY <1>1, ThreadSets DEF AtControl, First
<1>5. nodesOf[m] = {} => Clean(m)'
  BY <1>1, <1>2, <1>3, <1>4 DEF Clean, Quiet, NotAsked
<1>6. Unsent(m)'
  BY <1>1, <1>4, <1>5 DEF Sound, Unsent, Clean, Quiet
<1>7. Traced(m)'
  BY <1>2, <1>3, <1>4 DEF Traced, OneSource, JobsSound, EventsSound, News
<1>8. messages'[m].attempts = 1 => FileCounts(m)'
  BY <1>1, FileCountsStay DEF Sound
<1> QED
  BY <1>6, <1>7, <1>8 DEF Sound

\* The message is sent: its id was not in use.
LEMMA SendSound ==
    ASSUME TypeInv, TypeInv', NEW m \in OutIds, Sound(m), NEW t \in Http,
           NEW context \in Contexts, SendMessage(t, m, context)
    PROVE  Sound(m)'
<1>1. User(t)
  BY DEF User
<1>2. Left(m)
  BY <1>1, UserLeaves
<1>3. Clean(m) /\ messages[m].attempts = 0 /\ \A u \in Http : ~First(u, m)
  BY DEF SendMessage, Sound, Unsent
<1>4. messages' = messages /\ drawn' = drawn \cup {m}
  BY DEF SendMessage, fileVars
<1>5. Clean(m)'
  BY <1>2, <1>3, NewsAreOld, CleanStays DEF Left
<1>6. \A u \in Http : First(u, m)' => u = t
  BY <1>3, ThreadSets DEF SendMessage, Begin, First, TypeInv, TypeOK
<1>7. \A u \in Http : ~AtControl(u, m)'
  BY <1>5 DEF Clean
<1>8. Unsent(m)'
  BY <1>3, <1>4, <1>5, <1>6, <1>7 DEF Unsent
<1> QED
  BY <1>3, <1>4, <1>8 DEF Sound

LEMMA UserSound ==
    ASSUME TypeInv, TypeInv', NEW m \in OutIds, Sound(m), NEW t \in Http, User(t)
    PROVE  Sound(m)'
<1>1. CASE \E context \in Contexts : SendMessage(t, m, context)
  BY <1>1, SendSound
<1>2. CASE ~\E context \in Contexts : SendMessage(t, m, context)
  <2>1. DOMAIN op = Threads /\ DOMAIN pc = Threads
    BY DEF TypeInv, TypeOK
  <2>2. /\ drawn \subseteq drawn' /\ pc'[t] \in {"read", "truncate"} /\ ~First(t, m)'
        /\ \A u \in Http \ {t} : op'[u] = op[u] /\ pc'[u] = pc[u]
    BY <1>2, <2>1, ThreadSets DEF User, SendMessage, RepeatMessage, RemoveMessage, ClearMessages,
       Begin, First, OutOp, PlainOp, historyVars
  <2>3. FirstOld(m)
    BY <2>2 DEF FirstOld, First, AtControl, Writing
  <2> QED
    BY <2>3, UserLeaves, LeftSound
<1> QED
  BY <1>1, <1>2

\* The operation of a request thread changes to its outcome.
LEMMA HttpKind ==
    ASSUME TypeInv, NEW t \in Http, HttpStep(t)
    PROVE  \/ op'[t] = op[t] /\ pc'[t] = "wait"
           \/ op'[t].kind \in {"queued", "sendfailed"}
<1>1. op \in [Threads -> Op] /\ DOMAIN pc = Threads /\ t \in Threads
  BY ThreadSets DEF TypeInv, TypeOK
<1>2. \A kind \in STRING : [op[t] EXCEPT !.kind = kind].kind = kind
  BY <1>1 DEF Op
<1>3. CASE \E w \in Workers : SubmitRequest(t, w)
  BY <1>1, <1>3 DEF SubmitRequest
<1>4. CASE ReplyQueued(t)
  <2>1. op'[t] = [op[t] EXCEPT !.kind = "queued"]
    BY <1>1, <1>4 DEF ReplyQueued, Begin
  <2> QED
    BY <1>2, <2>1
<1>5. CASE FailedSend(t)
  <2>1. op'[t] = [op[t] EXCEPT !.kind = "sendfailed"]
    BY <1>1, <1>5 DEF FailedSend, Begin
  <2> QED
    BY <1>2, <2>1
<1> QED
  BY <1>3, <1>4, <1>5 DEF HttpStep, SubmitFails, ReplyFailed, ReplyTimeout

LEMMA HttpSound ==
    ASSUME TypeInv, TypeInv', NEW m \in OutIds, Sound(m), NEW t \in Http, HttpStep(t)
    PROVE  Sound(m)'
<1>1. DOMAIN op = Threads /\ DOMAIN pc = Threads /\ t \in Threads
  BY ThreadSets DEF TypeInv, TypeOK
<1>3. /\ drawn' = drawn /\ pc'[t] \in {"wait", "read"}
      /\ \A u \in Http \ {t} : op'[u] = op[u] /\ pc'[u] = pc[u]
  BY <1>1, ThreadSets DEF HttpStep, SubmitRequest, SubmitFails, ReplyQueued, ReplyFailed, ReplyTimeout,
     FailedSend, Begin, historyVars
<1>4. FirstOld(m)
  <2>1. \/ op'[t] = op[t] /\ pc'[t] = "wait"
        \/ op'[t].kind \in {"queued", "sendfailed"}
    BY HttpKind
  <2> QED
    BY <1>3, <2>1 DEF FirstOld, First, AtControl, Writing
<1>5. CASE \E w \in Workers : SubmitRequest(t, w) /\ op[t].m = m
  BY <1>4, <1>5, SubmitSound
<1>6. CASE ~\E w \in Workers : SubmitRequest(t, w) /\ op[t].m = m
  BY <1>4, <1>6, HttpLeaves, LeftSound
<1> QED
  BY <1>5, <1>6

LEMMA WorkerSound ==
    ASSUME TypeInv, TypeInv', Reporters, NEW m \in OutIds, Sound(m), NEW w \in Workers,
           \/ ControlStep(w) \/ DirectStep(w) \/ PropagationStep(w) \/ OutputStep(w)
           \/ \E k \in InIds : ReceiveMessage(w, k)
           \/ WorkerExit(w) \/ StartWorker(w)
    PROVE  Sound(m)'
<1>1. CASE UNCHANGED <<op, pc, drawn>>
  <2>1. FirstOld(m)
    BY <1>1 DEF FirstOld, First, AtControl, Writing
  <2>2. CASE Left(m)
    BY <2>1, <2>2, LeftSound
  <2> QED
    BY <2>2, AcceptSound, ControlLeaves, DirectLeaves, PropagationSound, OutputLeaves, LifeLeaves
    DEF ControlStep
<1>2. CASE OutputStep(w)
  <2>1. DOMAIN op = Threads /\ DOMAIN pc = Threads
    BY DEF TypeInv, TypeOK
  <2>2. drawn' = drawn /\ \A u \in Http : op'[u] = op[u] /\ pc'[u] = pc[u]
    BY <1>2, <2>1, ThreadSets DEF OutputStep, ReadEvent, ReadExit, Begin, historyVars
  <2>3. FirstOld(m)
    BY <2>2 DEF FirstOld, First, AtControl, Writing
  <2> QED
    BY <1>2, <2>3, OutputLeaves, LeftSound
<1>3. CASE ~OutputStep(w)
  <2>1. UNCHANGED <<op, pc, drawn>>
    BY <1>3, Zenon DEF ControlStep, AcceptRequest, RefuseRequest, DirectStep, DirectOutcome, PropagationStep,
       NodeAccepted, NodeFailed, ReplicationComplete, FinalFailure, ReceiveMessage, WorkerExit, StartWorker,
       threadVars, historyVars
  <2> QED
    BY <1>1, <2>1
<1> QED
  BY <1>2, <1>3

\* The threads of the workers' output alone report.
LEMMA ReportersNext == TypeInv /\ Reporters /\ [Next]_vars => Reporters'
<1> SUFFICES ASSUME TypeInv, Reporters, [Next]_vars PROVE Reporters'
  OBVIOUS
<1>o. op \in [Threads -> Op] /\ DOMAIN pc = Threads
  BY DEF TypeInv, TypeOK
<1>k. \A t \in Threads, kind \in STRING : [op[t] EXCEPT !.kind = kind].kind = kind
  BY <1>o DEF Op
<1>n. NoOp.kind = "clear"
  BY DEF NoOp, PlainOp
<1>0. ASSUME UNCHANGED <<pc, op>> PROVE Reporters'
  BY <1>0 DEF Reporters
<1>a. ASSUME NEW t \in Threads, \A u \in Threads \ {t} : pc'[u] = pc[u] /\ op'[u] = op[u],
             \/ op'[t].kind \notin {"propagated", "nodefailed", "complete"}
             \/ op'[t] = op[t] /\ pc'[t] # "idle"
             \/ t \in Workers /\ pc'[t] # "idle"
      PROVE  Reporters'
  BY <1>a DEF Reporters
<1>1. ASSUME NEW t \in Threads, StoreStep(t) PROVE Reporters'
  <2>1. \A u \in Threads \ {t} : pc'[u] = pc[u] /\ op'[u] = op[u]
    BY <1>o, <1>1 DEF StoreStep, StoreRead, StoreReadFails, StoreTruncate, StoreWrite, AfterWrite, Finish,
       Begin
  <2>2. \/ op'[t].kind \notin {"propagated", "nodefailed", "complete"}
        \/ op'[t] = op[t] /\ pc'[t] # "idle"
    <3>1. CASE StoreReadFails(t) /\ op[t].kind = "queued"
      <4>1. op'[t] = [op[t] EXCEPT !.kind = "sendfailed"]
        BY <1>o, <3>1 DEF StoreReadFails, Begin
      <4> QED
        BY <1>k, <4>1
    <3>2. CASE StoreReadFails(t) /\ op[t].kind # "queued"
      BY <1>o, <1>n, <3>2 DEF StoreReadFails, Finish, Begin
    <3>3. CASE StoreRead(t) \/ StoreTruncate(t) \/ StoreWrite(t)
      BY <1>o, <1>n, <3>3 DEF StoreRead, StoreTruncate, StoreWrite, AfterWrite, Finish, Begin
    <3> QED
      BY <1>1, <3>1, <3>2, <3>3 DEF StoreStep
  <2> QED
    BY <1>a, <2>1, <2>2
<1>2. ASSUME NEW t \in Http, User(t) \/ HttpStep(t) PROVE Reporters'
  <2>1. t \in Threads /\ \A u \in Threads \ {t} : pc'[u] = pc[u] /\ op'[u] = op[u]
    BY <1>o, <1>2, ThreadSets DEF User, SendMessage, RepeatMessage, RemoveMessage, ClearMessages, HttpStep,
       SubmitRequest, SubmitFails, ReplyQueued, ReplyFailed, ReplyTimeout, FailedSend, Begin
  <2>2. CASE User(t)
    <3>1. op'[t].kind \notin {"propagated", "nodefailed", "complete"}
      BY <1>o, <2>1, <2>2 DEF User, SendMessage, RepeatMessage, RemoveMessage, ClearMessages, Begin, OutOp,
         PlainOp
    <3> QED
      BY <1>a, <2>1, <3>1
  <2>3. CASE HttpStep(t)
    <3>1. \/ op'[t].kind \notin {"propagated", "nodefailed", "complete"}
          \/ op'[t] = op[t] /\ pc'[t] # "idle"
      BY <2>3, HttpKind
    <3> QED
      BY <1>a, <2>1, <3>1
  <2> QED
    BY <1>2, <2>2, <2>3
<1>3. ASSUME NEW w \in Workers, OutputStep(w) PROVE Reporters'
  <2>1. /\ w \in Threads /\ pc'[w] = "read"
        /\ \A u \in Threads \ {w} : pc'[u] = pc[u] /\ op'[u] = op[u]
    BY <1>o, <1>3, ThreadSets DEF OutputStep, ReadEvent, ReadExit, Begin
  <2> QED
    BY <1>a, <2>1
<1>4. ASSUME NEW w \in Workers, ControlStep(w) \/ DirectStep(w) \/ PropagationStep(w) PROVE Reporters'
  BY <1>0, <1>4, Zenon DEF ControlStep, AcceptRequest, RefuseRequest, DirectStep, DirectOutcome,
     PropagationStep, NodeAccepted, NodeFailed, ReplicationComplete, FinalFailure, threadVars
<1>5. ASSUME NEW w \in Workers, \/ \E m \in InIds : ReceiveMessage(w, m)
                                \/ WorkerExit(w) \/ StartWorker(w)
      PROVE  Reporters'
  BY <1>0, <1>5 DEF ReceiveMessage, WorkerExit, StartWorker, threadVars
<1>6. CASE RestartController
  BY <1>n, <1>6 DEF Reporters, RestartController, PlainOp
<1>7. CASE UNCHANGED vars
  BY <1>0, <1>7 DEF vars
<1> QED
  BY <1>1, <1>2, <1>3, <1>4, <1>5, <1>6, <1>7 DEF Next

LEMMA CountNext == CountInv /\ [Next]_vars => CountInv'
<1> SUFFICES ASSUME CountInv, [Next]_vars PROVE CountInv'
  OBVIOUS
<1>1. CountedInv /\ CountedInv' /\ Reporters /\ Reporters' /\ TypeInv /\ TypeInv' /\ Evidence
      /\ (~disturbed => FileSound)
  BY CountedNext, ReportersNext DEF CountInv, CountedInv, HandledInv
<1>2. ASSUME ~disturbed', NEW m \in OutIds PROVE Sound(m)'
  <2>1. ~disturbed
    BY <1>2, DisturbedStays
  <2>2. Sound(m)
    BY <2>1 DEF CountInv
  <2>3. Numbered(messages, m)
    <3>1. m \in MsgIds /\ Counted(messages)
      BY <1>1, <2>1, ThreadSets DEF CountedInv
    <3> QED
      BY <2>2, <3>1 DEF Numbered, Counted, Sound, Unsent
  <2>4. ASSUME NEW t \in Threads, StoreStep(t) PROVE Sound(m)'
    <3>1. CASE StoreWrite(t)
      <4>1. Writes(op[t], messages) /\ messages' = Written(op[t], messages)
        BY <1>1, <2>1, <3>1 DEF StoreWrite, FileSound, Fresh
      <4>2. CASE First(t, m)
        BY <1>1, <1>2, <2>2, <3>1, <4>1, <4>2, FirstWritten
      <4>3. CASE ~First(t, m)
        BY <1>1, <1>2, <2>2, <2>3, <3>1, <4>1, <4>3, WrittenSound
      <4> QED
        BY <4>2, <4>3
    <3>2. CASE ~StoreWrite(t)
      BY <1>1, <1>2, <2>2, <2>3, <2>4, <3>2, StoreReadSound
    <3> QED
      BY <3>1, <3>2
  <2>5. ASSUME NEW t \in Http, User(t) \/ HttpStep(t) PROVE Sound(m)'
    BY <1>1, <2>2, <2>5, UserSound, HttpSound
  <2>6. ASSUME NEW w \in Workers,
               \/ ControlStep(w) \/ DirectStep(w) \/ PropagationStep(w) \/ OutputStep(w)
               \/ \E k \in InIds : ReceiveMessage(w, k)
               \/ WorkerExit(w) \/ StartWorker(w)
        PROVE  Sound(m)'
    BY <1>1, <2>2, <2>6, WorkerSound
  <2>7. CASE RestartController
    BY <1>1, <2>2, <2>7, RestartSound
  <2>8. CASE UNCHANGED vars
    <3>1. UNCHANGED <<messages, op, pc, pipe, queue, requests, nodesOf, drawn>>
      BY <2>8 DEF vars
    <3>2. FirstOld(m) /\ ControlOld(m)
      BY <3>1 DEF FirstOld, First, AtControl, Writing, ControlOld
    <3>3. LinesKept(m) /\ JobsOld(m) /\ RequestsOld(m)
      BY <1>1, <3>1, LinesSame, JobsMoved, RequestsMoved DEF QueueMoves
    <3> QED
      BY <1>1, <2>2, <3>1, <3>2, <3>3, LeftSound DEF Left
  <2> QED
    BY <2>4, <2>5, <2>6, <2>7, <2>8 DEF Next
<1> QED
  BY <1>1, <1>2 DEF CountInv

LEMMA InitCount == Init => CountInv
<1> SUFFICES ASSUME Init PROVE CountInv
  OBVIOUS
<1>1. CountedInv
  BY InitCounted
<1>2. NoOp.kind = "clear"
  BY DEF NoOp, PlainOp
<1>3. Reporters
  BY <1>2 DEF Init, Reporters
<1>4. ASSUME NEW m \in OutIds PROVE Sound(m)
  <2>1. messages[m].state = "absent" /\ messages[m].attempts = 0 /\ m \notin drawn /\ nodesOf[m] = {}
    BY <1>4, ThreadSets DEF Init, NoMessages, NoMessage
  <2>2. \A t \in Threads : pc[t] = "idle" /\ op[t].kind = "clear"
    BY <1>2 DEF Init
  <2>3. \A w \in Workers : Len(pipe[w]) = 0 /\ Len(queue[w]) = 0 /\ Len(requests[w]) = 0
    BY DEF Init
  <2>4. \A w \in Workers : \A i \in 0 .. Len(pipe[w]) : ~News(Ev(w, i), m)
    <3> SUFFICES ASSUME NEW w \in Workers, NEW i \in 0 .. Len(pipe[w]) PROVE ~News(Ev(w, i), m)
      OBVIOUS
    <3>1. i = 0 /\ w \in Threads
      BY <2>3, ThreadSets
    <3> QED
      BY <2>2, <3>1 DEF Ev, News, Tells, Closes, Fails
  <2>5. Clean(m)
    BY <2>1, <2>2, <2>3, <2>4, ThreadSets DEF Clean, Quiet, NotAsked, AtControl
  <2>6. \A t \in Http : ~First(t, m) /\ ~AtControl(t, m)
    BY <2>2, ThreadSets DEF First, AtControl
  <2>7. Unsent(m)
    BY <2>1, <2>5, <2>6 DEF Unsent
  <2> QED
    BY <2>1, <2>7 DEF Sound
<1> QED
  BY <1>1, <1>3, <1>4 DEF CountInv

(* As long as no two accesses have overlapped, the number of accepting     *)
(* nodes that a record of a message sent once shows, which is taken from   *)
(* the worker's report of its job, is the number of its results marked     *)
(* accepted, each of which comes from an event of its own: while the       *)
(* events are applied one by one, after an exit of the worker with some of *)
(* them unread, and after a restart of the controller.                     *)
THEOREM CountsMatch == Spec => []CountMatchesResults
<1>1. CountInv => CountMatchesResults
  BY DEF CountInv, Sound, FileCounts, CountMatchesResults
<1> QED
  BY <1>1, InitCount, CountNext, PTL DEF Spec
=============================================================================
