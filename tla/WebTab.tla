-------------------------------- MODULE WebTab --------------------------------
(* What the pages of the web console (apps/web) have in common.  One browser  *)
(* tab shows one page.  The handler of a button is an asynchronous function:  *)
(* it runs up to an await, other handlers run while it waits, and it goes on  *)
(* with the values it was called with, not with what is selected by then.  A  *)
(* waiting handler is an element of the bag `tasks`, a record with the fields *)
(* `kind` and `step`; leaving a page drops its state and its handlers.        *)
EXTENDS Naturals, Bags

CONSTANTS
    Sessions,     \* support sessions
    NoSession,    \* undefined
    MaxRequests,  \* bound: what the operator starts in one visit
    MaxWaiting    \* bound: how many handlers wait when another is started

ASSUME TabAssumption ==
    /\ NoSession \notin Sessions
    /\ MaxRequests \in Nat /\ MaxWaiting \in Nat

VARIABLES
    tasks,     \* the handlers that wait for an answer
    requests,  \* how many requests the operator has started
    crossed    \* history: the selection changed while something waited for an answer

One(t) == SetToBag({t})
InFlight == BagToSet(tasks)

\* ticketLoading, draftLoading, ...: the button is disabled while its request runs.
Loading(kind) == \E t \in InFlight : t.kind = kind

\* A request of the operator, within the two bounds of the instance.
Started ==
    /\ requests < MaxRequests
    /\ BagCardinality(tasks) < MaxWaiting
    /\ requests' = requests + 1

\* A handler starts to wait, waits again as `u` instead of `t`, or has ended.
Waits(t)    == tasks' = tasks (+) One(t)
GoesOn(t, u) == tasks' = (tasks (-) One(t)) (+) One(u)
Ended(t)    == tasks' = tasks (-) One(t)

TabTypeOK ==
    /\ IsABag(tasks)
    /\ requests \in 0 .. MaxRequests
    /\ crossed \in BOOLEAN
=============================================================================
