-------------------------- MODULE OutboxRefinement --------------------------
(* ActionOutbox implements OutboxPromise. *)
EXTENDS ActionOutbox

\* Where a row stands for a reader of the promise.
OutcomeOf(row) ==
  CASE row.status = "absent" -> "none"
    [] row.status \in {"queued", "processing", "retry_scheduled"} -> "open"
    [] OTHER -> row.status

Promise ==
  INSTANCE OutboxPromise
    WITH approved <- reviewed,
         outcome <- [a \in Actions |-> OutcomeOf(item[a])],
         written <- notes,
         calm <- clean

\* Every behaviour of the outbox, of any operators, workers and faults, is
\* one of the promise: approval, then acceptance, then at most one note and
\* a final conclusion, unless the action was disturbed.
PromiseKept == Promise!Spec

=============================================================================
