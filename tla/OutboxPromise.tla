---------------------------- MODULE OutboxPromise ----------------------------
(***************************************************************************)
(* What the action workflow and its outbox promise a reader who knows      *)
(* neither attempts, locks, policies nor workers: a reviewed action may be *)
(* accepted for delivery; an accepted one is concluded, and may be reopened*)
(* only when it was given up; undisturbed, at most one note is written,    *)
(* before the delivery is reported, and a delivery or cancellation is      *)
(* final.  Of a disturbed action only the review is promised.              *)
(***************************************************************************)
EXTENDS Naturals

CONSTANT Actions

VARIABLES
  approved,  \* actions an administrator has approved
  outcome,   \* "none" before acceptance, "open", or how delivery was concluded
  written,   \* number of notes on the external ticket
  calm       \* actions no disturbance has touched

promiseVars == <<approved, outcome, written, calm>>

Outcomes == {"mock_delivered", "sandbox_delivered", "dead_lettered", "cancelled"}

Init ==
  /\ approved = {}
  /\ outcome = [a \in Actions |-> "none"]
  /\ written = [a \in Actions |-> 0]
  /\ calm = Actions

Approve(a) ==
  /\ approved' = approved \cup {a}
  /\ UNCHANGED <<outcome, written, calm>>

Accept(a) ==
  /\ a \in approved /\ outcome[a] = "none"
  /\ outcome' = [outcome EXCEPT ![a] = "open"]
  /\ UNCHANGED <<approved, written, calm>>

\* The note of an undisturbed action: the first, while it is open.
Write(a) ==
  /\ outcome[a] = "open" /\ written[a] = 0
  /\ written' = [written EXCEPT ![a] = 1]
  /\ UNCHANGED <<approved, outcome, calm>>

\* The delivery that is reported is the one that happened.
Conclude(a) ==
  /\ outcome[a] = "open"
  /\ \E o \in Outcomes :
       /\ o = "mock_delivered" => written[a] = 0
       /\ o = "sandbox_delivered" => written[a] = 1
       /\ outcome' = [outcome EXCEPT ![a] = o]
  /\ UNCHANGED <<approved, written, calm>>

\* What was given up may be retried.
Reopen(a) ==
  /\ outcome[a] = "dead_lettered"
  /\ outcome' = [outcome EXCEPT ![a] = "open"]
  /\ UNCHANGED <<approved, written, calm>>

\* A crash, an overlapping request or a lost reply may leave an action that
\* is reported as anything and noted again; it was still approved first.
Disturb(a) ==
  /\ calm' = calm \ {a}
  /\ \/ UNCHANGED <<outcome, written>>
     \/ /\ a \in approved
        /\ \E o \in Outcomes \cup {"open"} : outcome' = [outcome EXCEPT ![a] = o]
        /\ UNCHANGED written
     \/ /\ a \in approved /\ outcome[a] # "none"
        /\ written' = [written EXCEPT ![a] = @ + 1]
        /\ UNCHANGED outcome
  /\ UNCHANGED approved

Next ==
  \E a \in Actions :
    \/ Approve(a) \/ Accept(a) \/ Write(a) \/ Conclude(a) \/ Reopen(a)
    \/ Disturb(a)

Spec == Init /\ [][Next]_promiseVars

=============================================================================
