---------------------------- MODULE OutboxBridge ----------------------------
(***************************************************************************)
(* The outbox behind NATS JetStream: queue() publishes an envelope after   *)
(* its saves, the worker (apps/worker/src/index.ts, loopNats) fetches one  *)
(* message, has the API process the item it names and then acknowledges,   *)
(* and polls the table when it fetched nothing.  PostgreSQL stays the      *)
(* truth: an envelope only names an item.  The message id is the item's    *)
(* idempotency key, so an action has at most one message.                  *)
(***************************************************************************)
EXTENDS ActionOutbox

CONSTANTS
  Backends,    \* the values of SUPPORTPLANE_QUEUE_BACKEND to consider
  MaxRestarts, \* bound: how often worker processes die
  NoAction

ASSUME BridgeAssumption ==
  /\ Backends \subseteq {"postgres-local-outbox", "nats-jetstream"}
  /\ MaxRestarts \in Nat
  /\ NoAction \notin Actions

VARIABLES
  backend,    \* the backend of this deployment, never changed
  message,    \* the envelope of each action in the stream
  publishing, \* the action whose envelope a request has still to publish
  held,       \* the message each worker has fetched and not yet let go of
  handled,    \* workers that have handed their message to the API
  restarts    \* how often a worker died

bridgeVars == <<backend, message, publishing, held, handled, restarts>>

allVars == <<vars, bridgeVars>>

BridgeInit ==
  /\ Init
  /\ backend \in Backends
  /\ message = [a \in Actions |-> "none"]
  /\ publishing = [p \in Operators |-> NoAction]
  /\ held = [w \in Workers |-> NoAction]
  /\ handled = {}
  /\ restarts = 0

-----------------------------------------------------------------------------
(* The API *)

\* The request of p is busy with a save, or about to publish.
Free(p) == Idle(p) /\ publishing[p] = NoAction

\* The insert of queue(), after which its request publishes.
CreateItemAndPublish(p) ==
  /\ DoCreateItem(p)
  /\ publishing' =
       IF backend = "nats-jetstream" THEN [publishing EXCEPT ![p] = Head(todo[p]).a] ELSE publishing
  /\ UNCHANGED <<backend, message, held, handled, restarts>>

\* A second message with the same id is dropped by the stream.
PublishOutboxEnvelope(p) ==
  /\ publishing[p] # NoAction
  /\ message' = [message EXCEPT ![publishing[p]] = IF @ = "none" THEN "ready" ELSE @]
  /\ publishing' = [publishing EXCEPT ![p] = NoAction]
  /\ UNCHANGED <<vars, backend, held, handled, restarts>>

\* NATS is not reachable, or the API dies after the saves of queue().
PublishFails(p) ==
  /\ publishing[p] # NoAction
  /\ publishing' = [publishing EXCEPT ![p] = NoAction]
  /\ UNCHANGED <<vars, backend, message, held, handled, restarts>>

\* Every other step of the API.
ApiStep ==
  /\ \/ \E a \in Actions : CreateAction(a)
     \/ \E p \in Operators, a \in Actions :
          /\ Free(p)
          /\ \/ SubmitForReview(p, a) \/ Approve(p, a) \/ Reject(p, a)
             \/ Queue(p, a) \/ Cancel(p, a)
             \/ RetryOutbox(p, a) \/ CancelOutbox(p, a) \/ DeadLetterOutbox(p, a)
             \/ MockDeliver(p, a)
     \/ PolicyStep
     \/ TimeStep
     \/ \E p \in Procs : Abort(p)
  /\ UNCHANGED bridgeVars

StoreCall(p) ==
  \/ DoClaimRow(p) \/ ProcessClaimed(p)
  \/ NoteWritten(p) \/ NoteRefused(p) \/ NoteReplyLost(p)
  \/ DoSaveAction(p) \/ DoSaveItem(p) \/ DoCancelItems(p)
  \/ DoSaveAttempt(p) \/ AttemptSaveFails(p)

RequestCall(p) == (StoreCall(p) /\ UNCHANGED bridgeVars) \/ CreateItemAndPublish(p)

-----------------------------------------------------------------------------
(* The worker *)

Waiting(w) == held[w] = NoAction /\ Idle(w)

Fetch(w, a) ==
  /\ Waiting(w) /\ message[a] = "ready"
  /\ message' = [message EXCEPT ![a] = "pending"]
  /\ held' = [held EXCEPT ![w] = a]
  /\ UNCHANGED <<vars, backend, publishing, handled, restarts>>

\* process-once with the id of the envelope.  An item that may not be claimed
\* (settled, claimed by another, waiting) is answered "no eligible item".
Handle(w) ==
  /\ held[w] # NoAction /\ w \notin handled
  /\ IF Eligible(held[w]) THEN ProcessItem(w, held[w], "plain") ELSE UNCHANGED vars
  /\ handled' = handled \cup {w}
  /\ UNCHANGED <<backend, message, publishing, held, restarts>>

\* Variant: the message is acknowledged only when the item is settled.
AckSettled(w) ==
  /\ w \in handled /\ Idle(w) /\ Settled(held[w])
  /\ message' = [message EXCEPT ![held[w]] = "acked"]
  /\ held' = [held EXCEPT ![w] = NoAction]
  /\ handled' = handled \ {w}
  /\ UNCHANGED <<vars, backend, publishing, restarts>>

\* The answer of the API, whatever it says, acknowledges the message.
Ack(w) ==
  /\ w \in handled /\ Idle(w)
  /\ message' = [message EXCEPT ![held[w]] = "acked"]
  /\ held' = [held EXCEPT ![w] = NoAction]
  /\ handled' = handled \ {w}
  /\ UNCHANGED <<vars, backend, publishing, restarts>>

\* Variant: a worker on NATS never polls the table.
PollPostgresOnly(w) ==
  /\ Waiting(w) /\ backend = "postgres-local-outbox"
  /\ ProcessOnce(w, "plain")
  /\ UNCHANGED bridgeVars

\* The poll of main(), and the fallback when the fetch returned nothing.
Poll(w) ==
  /\ Waiting(w)
  /\ \A a \in Actions : message[a] # "ready"
  /\ ProcessOnce(w, "plain")
  /\ UNCHANGED bridgeVars

\* The process exits (an HTTP error, a signal) and is started again; what the
\* API is doing for it goes on.
WorkerRestarts(w) ==
  /\ held[w] # NoAction /\ restarts < MaxRestarts
  /\ held' = [held EXCEPT ![w] = NoAction]
  /\ handled' = handled \ {w}
  /\ restarts' = restarts + 1
  /\ UNCHANGED <<vars, backend, message, publishing>>

\* AckWait: a message nobody acknowledged is delivered again, also when its
\* worker is only slow.
Redeliver(a) ==
  /\ message[a] = "pending"
  /\ \/ \A w \in Workers : held[w] # a
     \/ "stall" \in Faults
  /\ message' = [message EXCEPT ![a] = "ready"]
  /\ UNCHANGED <<vars, backend, publishing, held, handled, restarts>>

-----------------------------------------------------------------------------
(* Specification *)

WorkerStep(w) == (\E a \in Actions : Fetch(w, a)) \/ Handle(w) \/ Ack(w) \/ Poll(w)

BridgeNext ==
  \/ ApiStep
  \/ \E p \in Procs : RequestCall(p)
  \/ \E p \in Operators : PublishOutboxEnvelope(p) \/ PublishFails(p)
  \/ \E w \in Workers : WorkerStep(w) \/ WorkerRestarts(w)
  \/ \E a \in Actions : Redeliver(a)

BridgeSpec == BridgeInit /\ [][BridgeNext]_allVars

\* As in ActionOutbox, with the worker's loop in place of the bare poll; the
\* stream delivers again what was not acknowledged.
BridgeFairness ==
  /\ \A p \in Procs : WF_allVars(RequestCall(p))
  /\ \A p \in Operators : WF_allVars(PublishOutboxEnvelope(p) \/ PublishFails(p))
  /\ \A a \in Actions :
       /\ WF_allVars(LockExpires(a) /\ UNCHANGED bridgeVars)
       /\ WF_allVars(BackoffElapses(a) /\ UNCHANGED bridgeVars)
       /\ WF_allVars(Redeliver(a))
  /\ \A w \in Workers : WF_allVars(WorkerStep(w))

BridgeFairSpec == BridgeSpec /\ BridgeFairness

-----------------------------------------------------------------------------
(* Properties *)

\* Every published envelope is acknowledged in the end, however often its
\* worker dies before it does (loopNats acknowledges after the answer).
EnvelopesAcked == \A a \in Actions : message[a] # "none" ~> message[a] = "acked"

=============================================================================
