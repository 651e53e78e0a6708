---------------------------- MODULE ActionOutbox ----------------------------
(***************************************************************************)
(* The support-action workflow and its delivery outbox                     *)
(* (apps/api/src/actions/actions.service.ts over the PostgreSQL store).    *)
(*                                                                         *)
(* Every API request first reads rows and checks guards, then issues its   *)
(* store calls one await at a time; nothing locks a row across awaits, so  *)
(* the calls of concurrent requests interleave.  A request is therefore a  *)
(* plan: the list todo[p] of the calls it has still to make, each of which *)
(* is one step.  A save writes back the whole row from the snapshot the    *)
(* request read (of which only attemptCount can matter, it is the only     *)
(* field of the snapshot that a save does not overwrite and that changes   *)
(* after creation), whatever has happened to the row since.                *)
(*                                                                         *)
(* queue() refuses a second item for an action, and its idempotency key is *)
(* unique, so the item of an action is named by the action.                *)
(***************************************************************************)
EXTENDS DeliveryGates, FiniteSets, Sequences

CONSTANTS
  Actions,        \* support actions of one tenant
  Operators,      \* in-flight API requests of people: create ... retry
  Workers,        \* in-flight process-once and mock-deliver requests
  MaxAttempts,    \* maxAttempts of an item; 3 in the code
  PolicySettings, \* the policies an administrator may put in force
  Scenario,       \* mockDeliveryScenario of each action
  Undeliverable,  \* actions without external ticket id, or egress denied
  Verified,       \* actions whose connector installation has lastVerifiedAt
  Faults,         \* which disturbances may happen, see FaultKinds
  NoteCap         \* notes are counted up to this number

FaultKinds == {"abort", "stall", "lostReply", "saveError", "dryRun"}

Procs == Operators \cup Workers

ASSUME OutboxAssumption ==
  /\ MaxAttempts \in Nat \ {0}
  /\ NoteCap \in Nat \ {0}
  /\ IsFiniteSet(Actions)
  /\ PolicySettings \subseteq Policy
  /\ Operators \cap Workers = {}
  /\ Faults \subseteq FaultKinds
  /\ Scenario \in [Actions -> {"success", "retryable_failure",
                               "retryable_failure_once", "non_retryable_failure"}]

VARIABLES
  action,    \* support_actions.status, or "none" before the row exists
  item,      \* action_outbox_items, one row per action
  attempts,  \* action_outbox_attempts: the state saved under each number
  notes,     \* internal notes that exist on the external ticket
  policy,    \* the delivery policy in force
  todo,      \* the store calls each in-flight request has still to make
  reviewed,  \* history: actions an administrator has approved
  clean      \* history: actions no disturbance has touched, see Disturb

vars == <<action, item, attempts, notes, policy, todo, reviewed, clean>>

-----------------------------------------------------------------------------
(* Data *)

ActionStatus ==
  {"none", "draft", "review_required", "approved", "rejected", "queued",
   "mock_delivered", "sandbox_delivered", "retry_scheduled", "dead_lettered",
   "cancelled"}

ItemStatus ==
  {"absent", "queued", "processing", "mock_delivered", "sandbox_delivered",
   "retry_scheduled", "dead_lettered", "cancelled"}

\* A claim that the row overtook may add an attempt to the MaxAttempts; the
\* model stops counting after one.
AttemptCap == MaxAttempts + 1

AttemptState == {"none", "failed", "policy_blocked", "mock_delivered", "sandbox_delivered"}

Modes == {"mock", "sandbox"}

Delivered == {"mock_delivered", "sandbox_delivered"}

\* lock is the claim of a worker: "live" until workerLockExpiresAt passes;
\* nobody ever compares workerLockId.  waiting: nextAttemptAt is ahead.
Item ==
  [status : ItemStatus, attemptCount : 0 .. AttemptCap, mode : Modes,
   lock : {"none", "live", "expired"}, waiting : BOOLEAN, queuedAt : Nat]

NoItem ==
  [status |-> "absent", attemptCount |-> 0, mode |-> "mock",
   lock |-> "none", waiting |-> FALSE, queuedAt |-> 0]

\* A call still to make on action a: val is the status, state or mode it
\* writes (or the option of a delivery), n the attempt number or count.  A
\* claim also carries the status its transaction has read.
Call(op, vals, counts) == [op : {op}, a : Actions, val : vals, n : counts]

DeliveryOptions == {"plain", "dryRun", "forceSuccess"}

Task ==
  Call("saveAction", ActionStatus \ {"none"}, {0})
    \cup Call("createItem", Modes, {0})
    \cup Call("saveItem", ItemStatus \ {"absent", "processing"}, 0 .. AttemptCap)
    \cup Call("saveAttempt", AttemptState \ {"none"}, 1 .. AttemptCap)
    \cup Call("cancelItems", {"none"}, {0})
    \cup Call("deliver", DeliveryOptions, 0 .. MaxAttempts)
    \cup Call("writeNote", {"none"}, 0 .. MaxAttempts)
    \cup [op : {"claimRow"}, a : Actions, val : DeliveryOptions, n : 0 .. MaxAttempts - 1,
          read : ItemStatus]

SaveAction(a, s)     == [op |-> "saveAction", a |-> a, val |-> s, n |-> 0]
CreateItem(a, m)     == [op |-> "createItem", a |-> a, val |-> m, n |-> 0]
SaveItem(a, s, n)    == [op |-> "saveItem", a |-> a, val |-> s, n |-> n]
SaveAttempt(a, s, n) == [op |-> "saveAttempt", a |-> a, val |-> s, n |-> n]
CancelItems(a)       == [op |-> "cancelItems", a |-> a, val |-> "none", n |-> 0]
ClaimRow(a, o, n, s) == [op |-> "claimRow", a |-> a, val |-> o, n |-> n, read |-> s]
Deliver(a, o, n)     == [op |-> "deliver", a |-> a, val |-> o, n |-> n]
WriteNote(a, n)      == [op |-> "writeNote", a |-> a, val |-> "none", n |-> n]

Idle(p) == todo[p] = <<>>

\* The request of p is at a call of kind op.
At(p, op) == ~Idle(p) /\ Head(todo[p]).op = op

\* The requests that may still write to a's rows on what they read before; a
\* claim checks again when it writes.
InFlight(a) == {p \in Procs : ~Idle(p) /\ ~At(p, "claimRow") /\ Head(todo[p]).a = a}

Begin(p, plan) == Idle(p) /\ todo' = [todo EXCEPT ![p] = plan]

Advance(p) == todo' = [todo EXCEPT ![p] = Tail(@)]

Continue(p, plan) == todo' = [todo EXCEPT ![p] = plan]

\* The code promises nothing special to an action whose rows two requests
\* write at once, or one of whose requests dies half way: record it.
Disturb(a, happened) == clean' = IF happened THEN clean \ {a} ELSE clean

Init ==
  /\ action = [a \in Actions |-> "none"]
  /\ item = [a \in Actions |-> NoItem]
  /\ attempts = [a \in Actions |-> [n \in 1 .. AttemptCap |-> "none"]]
  /\ notes = [a \in Actions |-> 0]
  /\ policy \in PolicySettings
  /\ todo = [p \in Procs |-> <<>>]
  /\ reviewed = {}
  /\ clean = Actions

-----------------------------------------------------------------------------
(* What people do.  Each operation reads, checks and plans its saves. *)

\* The lookup by idempotency key and the insert race only with each other,
\* and the unique key lets one insert through: a single step.
CreateAction(a) ==
  /\ action[a] = "none"
  /\ action' = [action EXCEPT ![a] = "draft"]
  /\ UNCHANGED <<item, attempts, notes, policy, todo, reviewed, clean>>

Operate(p, a, plan) ==
  /\ Begin(p, plan)
  /\ Disturb(a, InFlight(a) # {})
  /\ UNCHANGED <<action, item, attempts, notes, policy, reviewed>>

SubmitForReview(p, a) ==
  /\ action[a] = "draft"
  /\ Operate(p, a, <<SaveAction(a, "review_required")>>)

Approve(p, a) ==
  /\ action[a] = "review_required"
  /\ Operate(p, a, <<SaveAction(a, "approved")>>)

Reject(p, a) ==
  /\ action[a] = "review_required"
  /\ Operate(p, a, <<SaveAction(a, "rejected")>>)

QueueDecision == Decision(policy, ServiceRequest("ticket_note", FALSE))

\* Variant: queue() without its status check.
QueueUnreviewed(p, a) ==
  /\ action[a] \in {"draft", "review_required", "approved"}
  /\ Allowed(QueueDecision)
  /\ item[a].status = "absent"
  /\ Operate(p, a, <<SaveAction(a, "queued"), CreateItem(a, DeliveryMode(QueueDecision))>>)

\* An existing item is an idempotent replay that changes nothing, and a
\* blocked decision a 403: neither is a step.
Queue(p, a) ==
  /\ action[a] = "approved"
  /\ Allowed(QueueDecision)
  /\ item[a].status = "absent"
  /\ Operate(p, a, <<SaveAction(a, "queued"), CreateItem(a, DeliveryMode(QueueDecision))>>)

\* Variant: cancel() forgets the outbox.
CancelActionOnly(p, a) ==
  /\ action[a] \notin Delivered \cup {"none", "rejected", "cancelled"}
  /\ Operate(p, a, <<SaveAction(a, "cancelled")>>)

Cancel(p, a) ==
  /\ action[a] \notin Delivered \cup {"none", "rejected", "cancelled"}
  /\ Operate(p, a, <<SaveAction(a, "cancelled"), CancelItems(a)>>)

\* Variant: retry of an item in any status.
RetryAny(p, a) ==
  /\ item[a].status # "absent"
  /\ Operate(p, a, <<SaveItem(a, "queued", item[a].attemptCount), SaveAction(a, "queued")>>)

\* attemptCount survives a retry.
RetryOutbox(p, a) ==
  /\ item[a].status \in {"retry_scheduled", "dead_lettered"}
  /\ Operate(p, a, <<SaveItem(a, "queued", item[a].attemptCount), SaveAction(a, "queued")>>)

CancelOutbox(p, a) ==
  /\ item[a].status \in {"queued", "processing", "retry_scheduled"}
  /\ Operate(p, a, <<SaveItem(a, "cancelled", item[a].attemptCount),
                     SaveAction(a, "cancelled")>>)

\* markDeadLetter: the item from the caller's snapshot, then the action.
DeadLetterTasks(a, n) ==
  <<SaveItem(a, "dead_lettered", n), SaveAction(a, "dead_lettered")>>

\* Variant: dead-lettering without a status check.
DeadLetterAny(p, a) ==
  /\ item[a].status # "absent"
  /\ Operate(p, a, DeadLetterTasks(a, item[a].attemptCount))

DeadLetterOutbox(p, a) ==
  /\ item[a].status \in {"retry_scheduled", "processing"}
  /\ Operate(p, a, DeadLetterTasks(a, item[a].attemptCount))

\* DeliveryPolicyService.updatePolicy puts another policy in force.
SetPolicy(pol) ==
  /\ policy # pol
  /\ policy' = pol
  /\ UNCHANGED <<action, item, attempts, notes, todo, reviewed, clean>>

-----------------------------------------------------------------------------
(* Claiming: a read-committed transaction of two statements.  The first    *)
(* finds a candidate; the second claims it if its status is still the one  *)
(* read and no live lock has appeared.                                     *)

Matching ==
  {a \in Actions : /\ item[a].status \in {"queued", "retry_scheduled", "processing"}
                   /\ ~item[a].waiting}

Eligible(a) ==
  /\ a \in Matching
  /\ item[a].attemptCount < MaxAttempts
  /\ item[a].status = "processing" => item[a].lock # "live"

\* Without an id the transaction looks at the longest queued row only.
Oldest(a) == a \in Matching /\ \A b \in Matching : item[a].queuedAt <= item[b].queuedAt

FindCandidate(p, a, option) ==
  /\ Eligible(a)
  /\ Begin(p, <<ClaimRow(a, option, item[a].attemptCount, item[a].status)>>)
  /\ UNCHANGED <<action, item, attempts, notes, policy, reviewed, clean>>

\* Variant: the update claims the row by its id alone.
ClaimUnconditionally(p) ==
  /\ At(p, "claimRow")
  /\ item[Head(todo[p]).a].attemptCount < AttemptCap
  /\ LET t == Head(todo[p])
         row == item[t.a]
     IN /\ item' = [item EXCEPT ![t.a].status = "processing", ![t.a].lock = "live"]
        /\ Continue(p, <<Deliver(t.a, t.val, row.attemptCount)>>)
        /\ Disturb(t.a, row.attemptCount # t.n \/ InFlight(t.a) \cap Operators # {})
  /\ UNCHANGED <<action, attempts, notes, policy, reviewed>>

\* The update does not look at attemptCount and nextAttemptAt again: a row
\* that another worker processed in between is claimed all the same.
DoClaimRow(p) ==
  /\ At(p, "claimRow")
  /\ item[Head(todo[p]).a].attemptCount < AttemptCap
  /\ LET t == Head(todo[p])
         row == item[t.a]
     IN IF row.status = t.read /\ (t.read = "processing" => row.lock # "live")
        THEN /\ item' = [item EXCEPT ![t.a].status = "processing", ![t.a].lock = "live"]
             /\ Continue(p, <<Deliver(t.a, t.val, row.attemptCount)>>)
             /\ Disturb(t.a, \/ row.attemptCount # t.n
                             \/ InFlight(t.a) \cap Operators # {})
        ELSE /\ Continue(p, <<>>)
             /\ UNCHANGED <<item, clean>>
  /\ UNCHANGED <<action, attempts, notes, policy, reviewed>>

Options == {"plain"} \cup (Faults \cap {"dryRun"})

ProcessOnce(p, option) == \E a \in Actions : Oldest(a) /\ FindCandidate(p, a, option)

\* processSpecific: the id comes with the NATS envelope or from an admin.
ProcessItem(p, a, option) == FindCandidate(p, a, option)

MockDeliver(p, a) ==
  /\ item[a].status \in {"queued", "retry_scheduled"}
  /\ FindCandidate(p, a, "forceSuccess")

-----------------------------------------------------------------------------
(* Processing a claimed item *)

\* Variant: the attempt state is saved as the item's status.
BlockWithState(a, state, n) ==
  <<SaveAttempt(a, state, n + 1), SaveItem(a, state, n + 1), SaveAction(a, "dead_lettered")>>

BlockTasks(a, state, n) ==
  <<SaveAttempt(a, state, n + 1), SaveItem(a, "dead_lettered", n + 1),
    SaveAction(a, "dead_lettered")>>

\* Variant: the item is saved before its attempt.
SuccessItemFirst(a, s, n) ==
  <<SaveItem(a, s, n + 1), SaveAttempt(a, s, n + 1), SaveAction(a, s)>>

SuccessTasks(a, s, n) ==
  <<SaveAttempt(a, s, n + 1), SaveItem(a, s, n + 1), SaveAction(a, s)>>

RetryTasks(a, n) ==
  <<SaveAttempt(a, "failed", n + 1), SaveItem(a, "retry_scheduled", n + 1),
    SaveAction(a, "retry_scheduled")>>

FailureTasks(a, n, retryable) ==
  IF ~retryable \/ n + 1 >= MaxAttempts
  THEN <<SaveAttempt(a, "failed", n + 1)>> \o DeadLetterTasks(a, n + 1)
  ELSE RetryTasks(a, n)

\* simulateDelivery
SimulationSucceeds(a, option, n) ==
  \/ option = "forceSuccess"
  \/ Scenario[a] = "success"
  \/ Scenario[a] = "retryable_failure_once" /\ n >= 1

MockTasks(a, option, n) ==
  IF SimulationSucceeds(a, option, n) THEN SuccessTasks(a, "mock_delivered", n)
  ELSE FailureTasks(a, n, Scenario[a] # "non_retryable_failure")

DryRunTasks(a, n) == <<SaveAttempt(a, "mock_delivered", n + 1)>>

\* The credential resolves and the note is written next, or it does not and a
\* retry is scheduled however many attempts were made.
CredentialPlans(a, n) == {RetryTasks(a, n), <<WriteNote(a, n)>>}

\* processSandboxWriteback up to the external call: a missing ticket or a
\* denied egress dead-letters; a dry run records an attempt and stops there,
\* the row still claimed.
SandboxPlans(a, option, n) ==
  IF a \in Undeliverable THEN {BlockTasks(a, s, n) : s \in {"failed", "policy_blocked"}}
  ELSE IF option = "dryRun" THEN {DryRunTasks(a, n)}
  ELSE CredentialPlans(a, n)

ProcessDecision(a) == Decision(policy, ServiceRequest("ticket_note", a \in Verified))

DeliveryPlans(a, option, n) ==
  IF ~Allowed(ProcessDecision(a)) THEN {BlockTasks(a, "policy_blocked", n)}
  ELSE IF item[a].mode = "sandbox" \/ DeliveryMode(ProcessDecision(a)) = "sandbox"
       THEN SandboxPlans(a, option, n)
       ELSE {MockTasks(a, option, n)}

\* processClaimedOutbox: re-evaluate the policy, choose what to do.
ProcessClaimed(p) ==
  /\ At(p, "deliver")
  /\ LET t == Head(todo[p]) IN
       \E plan \in DeliveryPlans(t.a, t.val, t.n) :
         /\ Continue(p, plan)
         /\ Disturb(t.a, plan = DryRunTasks(t.a, t.n))
  /\ UNCHANGED <<action, item, attempts, notes, policy, reviewed>>

Counted(k) == IF k < NoteCap THEN k + 1 ELSE k

\* Variant: a written note is recorded as a mock delivery.
NoteReportedAsMock(p) ==
  /\ At(p, "writeNote")
  /\ LET t == Head(todo[p]) IN
       /\ notes' = [notes EXCEPT ![t.a] = Counted(@)]
       /\ Continue(p, SuccessTasks(t.a, "mock_delivered", t.n))
  /\ UNCHANGED <<action, item, attempts, policy, reviewed, clean>>

\* adapter.writeInternalNote answers.
NoteWritten(p) ==
  /\ At(p, "writeNote")
  /\ LET t == Head(todo[p]) IN
       /\ notes' = [notes EXCEPT ![t.a] = Counted(@)]
       /\ Continue(p, SuccessTasks(t.a, "sandbox_delivered", t.n))
  /\ UNCHANGED <<action, item, attempts, policy, reviewed, clean>>

\* It fails and no note exists.
NoteRefused(p) ==
  /\ At(p, "writeNote")
  /\ LET t == Head(todo[p]) IN Continue(p, FailureTasks(t.a, t.n, TRUE))
  /\ UNCHANGED <<action, item, attempts, notes, policy, reviewed, clean>>

\* The note is created and the answer is lost (10 s timeout, reset).
NoteReplyLost(p) ==
  /\ "lostReply" \in Faults
  /\ At(p, "writeNote")
  /\ LET t == Head(todo[p]) IN
       /\ notes' = [notes EXCEPT ![t.a] = Counted(@)]
       /\ Continue(p, FailureTasks(t.a, t.n, TRUE))
       /\ Disturb(t.a, TRUE)
  /\ UNCHANGED <<action, item, attempts, policy, reviewed>>

-----------------------------------------------------------------------------
(* The store calls *)

DoSaveAction(p) ==
  /\ At(p, "saveAction")
  /\ LET t == Head(todo[p]) IN
       /\ action' = [action EXCEPT ![t.a] = t.val]
       /\ reviewed' = IF t.val = "approved" THEN reviewed \cup {t.a} ELSE reviewed
  /\ Advance(p)
  /\ UNCHANGED <<item, attempts, notes, policy, clean>>

ItemCount == Cardinality({a \in Actions : item[a].status # "absent"})

\* The insert of queue(); the unique idempotency key fails a second one.
DoCreateItem(p) ==
  /\ At(p, "createItem")
  /\ LET t == Head(todo[p]) IN
       item' = IF item[t.a].status = "absent"
               THEN [item EXCEPT ![t.a] = [NoItem EXCEPT !.status = "queued", !.mode = t.val,
                                                         !.queuedAt = ItemCount]]
               ELSE item
  /\ Advance(p)
  /\ UNCHANGED <<action, attempts, notes, policy, reviewed, clean>>

\* Variant: saves leave the lock of the claim in place.
SaveItemKeepsLock(p) ==
  /\ At(p, "saveItem")
  /\ LET t == Head(todo[p]) IN
       item' = [item EXCEPT ![t.a].status = t.val, ![t.a].attemptCount = t.n,
                            ![t.a].waiting = (t.val = "retry_scheduled")]
  /\ Advance(p)
  /\ UNCHANGED <<action, attempts, notes, policy, reviewed, clean>>

\* Every save of an item clears the lock; only a scheduled retry waits.
DoSaveItem(p) ==
  /\ At(p, "saveItem")
  /\ LET t == Head(todo[p]) IN
       item' = [item EXCEPT ![t.a].status = t.val, ![t.a].attemptCount = t.n,
                            ![t.a].lock = "none",
                            ![t.a].waiting = (t.val = "retry_scheduled")]
  /\ Advance(p)
  /\ UNCHANGED <<action, attempts, notes, policy, reviewed, clean>>

\* cancel() lists the items after it saved the action.
DoCancelItems(p) ==
  /\ At(p, "cancelItems")
  /\ LET a == Head(todo[p]).a IN
       IF item[a].status \in {"queued", "processing", "retry_scheduled"}
       THEN Continue(p, <<SaveItem(a, "cancelled", item[a].attemptCount)>>)
       ELSE Continue(p, <<>>)
  /\ UNCHANGED <<action, item, attempts, notes, policy, reviewed, clean>>

\* (tenantId, outboxItemId, attemptNumber) is unique.  A violation ends the
\* request, except that the save that follows a written note sits in the
\* try block whose catch treats it as a failed delivery.
DoSaveAttempt(p) ==
  /\ At(p, "saveAttempt")
  /\ LET t == Head(todo[p]) IN
       IF attempts[t.a][t.n] = "none"
       THEN /\ attempts' = [attempts EXCEPT ![t.a][t.n] = t.val]
            /\ Advance(p)
       ELSE /\ Continue(p, IF t.val = "sandbox_delivered"
                           THEN FailureTasks(t.a, t.n - 1, TRUE) ELSE <<>>)
            /\ UNCHANGED attempts
  /\ UNCHANGED <<action, item, notes, policy, reviewed, clean>>

\* The database fails the same save for another reason: the catch again.
AttemptSaveFails(p) ==
  /\ "saveError" \in Faults
  /\ At(p, "saveAttempt")
  /\ LET t == Head(todo[p]) IN
       /\ t.val = "sandbox_delivered"
       /\ Continue(p, FailureTasks(t.a, t.n - 1, TRUE))
       /\ Disturb(t.a, TRUE)
  /\ UNCHANGED <<action, item, attempts, notes, policy, reviewed>>

-----------------------------------------------------------------------------
(* Time and failures *)

\* The process dies, or a call throws where nothing catches: the calls not
\* yet made are never made.
Abort(p) ==
  /\ "abort" \in Faults
  /\ ~Idle(p)
  /\ Disturb(Head(todo[p]).a, TRUE)
  /\ Continue(p, <<>>)
  /\ UNCHANGED <<action, item, attempts, notes, policy, reviewed>>

\* 60 s after the claim; "stall": a request may take longer than that.
LockExpires(a) ==
  /\ item[a].lock = "live"
  /\ InFlight(a) # {} => "stall" \in Faults
  /\ item' = [item EXCEPT ![a].lock = "expired"]
  /\ Disturb(a, InFlight(a) # {})
  /\ UNCHANGED <<action, attempts, notes, policy, todo, reviewed>>

\* At least 5 s after the retry was scheduled.
BackoffElapses(a) ==
  /\ item[a].waiting
  /\ InFlight(a) # {} => "stall" \in Faults
  /\ item' = [item EXCEPT ![a].waiting = FALSE]
  /\ Disturb(a, InFlight(a) # {})
  /\ UNCHANGED <<action, attempts, notes, policy, todo, reviewed>>

-----------------------------------------------------------------------------
(* Specification *)

OperatorStep ==
  \/ \E a \in Actions : CreateAction(a)
  \/ \E p \in Operators, a \in Actions :
       \/ SubmitForReview(p, a) \/ Approve(p, a) \/ Reject(p, a)
       \/ Queue(p, a) \/ Cancel(p, a)
       \/ RetryOutbox(p, a) \/ CancelOutbox(p, a) \/ DeadLetterOutbox(p, a)

PolicyStep == \E pol \in PolicySettings : SetPolicy(pol)

ClaimStep(p) ==
  \E option \in Options :
    \/ ProcessOnce(p, option)
    \/ \E a \in Actions : ProcessItem(p, a, option)

\* The next call of an in-flight request.
RequestStep(p) ==
  \/ DoClaimRow(p)
  \/ ProcessClaimed(p)
  \/ NoteWritten(p) \/ NoteRefused(p) \/ NoteReplyLost(p)
  \/ DoSaveAction(p) \/ DoCreateItem(p) \/ DoSaveItem(p) \/ DoCancelItems(p)
  \/ DoSaveAttempt(p) \/ AttemptSaveFails(p)

TimeStep == \E a \in Actions : LockExpires(a) \/ BackoffElapses(a)

Next ==
  \/ OperatorStep
  \/ PolicyStep
  \/ \E p \in Workers : ClaimStep(p) \/ \E a \in Actions : MockDeliver(p, a)
  \/ \E p \in Procs : RequestStep(p) \/ Abort(p)
  \/ TimeStep

Spec == Init /\ [][Next]_vars

\* A request that has begun goes on, time passes, and the worker's loop
\* polls process-once (apps/worker/src/index.ts).
Fairness ==
  /\ \A p \in Procs : WF_vars(RequestStep(p))
  /\ \A a \in Actions : WF_vars(LockExpires(a)) /\ WF_vars(BackoffElapses(a))
  /\ \A p \in Workers : WF_vars(ProcessOnce(p, "plain"))

FairSpec == Spec /\ Fairness
-----------------------------------------------------------------------------
(* Properties *)

\* The stored rows and the pending calls have their types.
TypeOK ==
  /\ action \in [Actions -> ActionStatus]
  /\ item \in [Actions -> Item]
  /\ attempts \in [Actions -> [1 .. AttemptCap -> AttemptState]]
  /\ notes \in [Actions -> 0 .. NoteCap]
  /\ policy \in PolicySettings
  /\ todo \in [Procs -> Seq(Task)]
  /\ reviewed \subseteq Actions
  /\ clean \subseteq Actions

\* Approval gate: whatever races, dies or is retried, no note reaches the
\* external ticket, and no outbox row exists, for an action that no
\* administrator has approved (approve, queue, processClaimedOutbox).
ReviewedBeforeDelivery ==
  \A a \in Actions : notes[a] > 0 \/ item[a].status # "absent" => a \in reviewed

\* The calls that a request may have to make when only the actions of rev are
\* reviewed: before an approval is stored the status of the action alone is
\* written, and no status that an approval leads to.
PermittedTask(rev) ==
  {t \in Task : IF t.op = "saveAction"
                THEN t.val \in {"review_required", "approved", "rejected", "cancelled"}
                       \/ t.a \in rev
                ELSE t.op = "cancelItems" \/ t.a \in rev}

\* Why the approval gate holds: an approval is stored before the action's
\* status shows it, and a request plans a delivery, a retry or an outbox row
\* only for an action whose rows show it, so approval precedes every such
\* call, however late the call is made.
ApprovalComesFirst ==
  /\ ReviewedBeforeDelivery
  /\ \A a \in Actions :
       action[a] \in {"none", "draft", "review_required", "rejected", "cancelled"}
         \/ a \in reviewed
  /\ \A p \in Procs : todo[p] \in Seq(PermittedTask(reviewed))

\* A row that says delivered has the attempt that says so, and a sandbox
\* delivery has its note: the attempt is saved first, in every interleaving.
DeliveredHasAttempt ==
  \A a \in Actions :
    item[a].status \in Delivered =>
      /\ \E n \in 1 .. AttemptCap : attempts[a][n] = item[a].status
      /\ item[a].status = "sandbox_delivered" => notes[a] > 0

\* A claimed row always carries a lock, whose expiry lets another worker
\* recover it, and no other row is locked; undisturbed, it has an attempt left
\* (claimNextActionOutboxItem against every save that clears the lock).
ClaimIsRecoverable ==
  \A a \in Actions :
    /\ item[a].status = "processing" <=> item[a].lock # "none"
    /\ item[a].status = "processing" /\ a \in clean => item[a].attemptCount < MaxAttempts

\* Two workers never process one item at once, unless its lock expired
\* under the first or another disturbance hit it (claimNextActionOutboxItem).
OneWorkerPerItem ==
  \A a \in clean : Cardinality(InFlight(a) \cap Workers) <= 1

\* Undisturbed, an action gets at most one note on the external ticket,
\* through every failure, retry and dead-letter.
AtMostOneNote == \A a \in clean : notes[a] <= 1

\* Undisturbed and with no request in flight, the two rows of an action
\* agree, and its attempts are numbered 1 .. attemptCount without gaps.
RowsAgree ==
  \A a \in clean :
    InFlight(a) = {} =>
      /\ \/ /\ item[a].status = "absent"
            /\ action[a] \in {"none", "draft", "review_required", "approved",
                              "rejected", "cancelled"}
         \/ action[a] = item[a].status
         \/ action[a] = "cancelled" /\ item[a].status = "dead_lettered"
      /\ {n \in 1 .. AttemptCap : attempts[a][n] # "none"} = 1 .. item[a].attemptCount

\* Undisturbed, a delivered or cancelled item keeps its status for good.
FinalStatusKept ==
  [][\A a \in clean' : item[a].status \in Delivered \cup {"cancelled"}
                         => item'[a].status = item[a].status]_vars

Settled(a) == item[a].status \in Delivered \cup {"absent", "dead_lettered", "cancelled"}

Exhausted(a) == a \in Matching /\ item[a].attemptCount >= MaxAttempts

\* The polling worker settles every item that has attempts left: it is
\* delivered, dead-lettered or cancelled, unless a disturbance hit it or an
\* item ahead of it in the queue, or one of these is exhausted (the poll
\* always comes back to the oldest row).
ItemsSettle ==
  \A a \in Actions :
    ~Settled(a) ~> Settled(a) \/ \E b \in Actions : b \notin clean \/ Exhausted(b)

-----------------------------------------------------------------------------
(* What the documentation says of the outbox and the code does not keep *)

\* "Kill switch enabled: no writeback network call occurs."
KillSwitchStopsWrites ==
  [][policy.killSwitch => \A a \in Actions : notes'[a] <= notes[a]]_vars

\* "All delivery is mock-only": judged when the item is processed, no note
\* is planned under a policy that enforces mock-only delivery.
MockOnlyPlansNoNote ==
  [][policy.mockOnlyEnforced =>
       \A p \in Workers : At(p, "writeNote")' => At(p, "writeNote")]_vars

\* "Duplicate processing blocked by idempotency key": one note per action.
OneNote == \A a \in Actions : notes[a] <= 1

\* No line of the documented lifecycle leaves "cancelled".
CancelledIsFinal ==
  [][\A a \in Actions : item[a].status = "cancelled" => item'[a].status = "cancelled"]_vars

\* "Dead-letter after max attempts": no further retry is scheduled.
ExhaustedIsDeadLettered ==
  \A a \in Actions : item[a].status = "retry_scheduled" => item[a].attemptCount < MaxAttempts

\* "claims and processes one eligible outbox item": polling for ever, no
\* item stays eligible for ever.
EligibleIsProcessed == \A a \in Actions : Eligible(a) ~> ~Eligible(a)

=============================================================================
