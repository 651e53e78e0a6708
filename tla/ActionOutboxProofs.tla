------------------------- MODULE ActionOutboxProofs -------------------------
(***************************************************************************)
(* Theorems of ActionOutbox, for every set of actions, operators, workers, *)
(* policies and faults: the rows keep their types, and the approval gate   *)
(* and the claim locks hold in every interleaving.                         *)
(*                                                                         *)
(* The inductive invariant is TypeOK /\ ApprovalComesFirst: the gate alone *)
(* is not inductive, since a call that a request planned long ago is made  *)
(* without another look at the action.  What is inductive is that every    *)
(* call still planned is permitted by the approvals stored so far.         *)
(***************************************************************************)
EXTENDS ActionOutbox, SequenceTheorems, FiniteSetTheorems, TLAPS

USE DEF Procs, AttemptCap, Modes, DeliveryOptions

-----------------------------------------------------------------------------
(* Plans *)

\* More approvals permit more calls.
LEMMA PermittedGrows ==
  ASSUME NEW r1, NEW r2, r1 \subseteq r2
  PROVE  PermittedTask(r1) \subseteq PermittedTask(r2)
BY DEF PermittedTask

\* Permitted calls are well-typed calls.
LEMMA PermittedTyped == ASSUME NEW r PROVE PermittedTask(r) \subseteq Task
BY DEF PermittedTask

LEMMA SeqGrows ==
  ASSUME NEW S, NEW T, S \subseteq T, NEW s \in Seq(S)
  PROVE  s \in Seq(T)
OBVIOUS

\* Every call on a reviewed action is permitted.
LEMMA ReviewedCalls ==
  ASSUME NEW r, NEW a \in Actions, a \in r
  PROVE  /\ \A s \in ActionStatus \ {"none"} : SaveAction(a, s) \in PermittedTask(r)
         /\ \A m \in Modes : CreateItem(a, m) \in PermittedTask(r)
         /\ \A s \in ItemStatus \ {"absent", "processing"}, n \in 0 .. AttemptCap :
              SaveItem(a, s, n) \in PermittedTask(r)
         /\ \A s \in AttemptState \ {"none"}, n \in 1 .. AttemptCap :
              SaveAttempt(a, s, n) \in PermittedTask(r)
         /\ \A o \in DeliveryOptions, n \in 0 .. MaxAttempts :
              Deliver(a, o, n) \in PermittedTask(r)
         /\ \A n \in 0 .. MaxAttempts : WriteNote(a, n) \in PermittedTask(r)
         /\ \A o \in DeliveryOptions, n \in 0 .. MaxAttempts - 1, s \in ItemStatus :
              ClaimRow(a, o, n, s) \in PermittedTask(r)
BY DEF PermittedTask, Task, Call, SaveAction, CreateItem, SaveItem, SaveAttempt,
       Deliver, WriteNote, ClaimRow

\* The calls that need no approval.
LEMMA UnreviewedCalls ==
  ASSUME NEW r, NEW a \in Actions
  PROVE  /\ \A s \in {"review_required", "approved", "rejected", "cancelled"} :
              SaveAction(a, s) \in PermittedTask(r)
         /\ CancelItems(a) \in PermittedTask(r)
BY DEF PermittedTask, Task, Call, SaveAction, CancelItems, ActionStatus

\* Whatever the outcome of a delivery, the calls planned to record it are
\* permitted for a reviewed action.
LEMMA OutcomePlans ==
  ASSUME NEW r, NEW a \in Actions, a \in r, NEW n \in 0 .. MaxAttempts
  PROVE  /\ \A s \in {"failed", "policy_blocked"} :
              BlockTasks(a, s, n) \in Seq(PermittedTask(r))
         /\ \A s \in Delivered : SuccessTasks(a, s, n) \in Seq(PermittedTask(r))
         /\ RetryTasks(a, n) \in Seq(PermittedTask(r))
         /\ \A b \in BOOLEAN : FailureTasks(a, n, b) \in Seq(PermittedTask(r))
         /\ DryRunTasks(a, n) \in Seq(PermittedTask(r))
<1> USE OutboxAssumption
<1> DEFINE P == PermittedTask(r)
<1>1. n + 1 \in 0 .. AttemptCap /\ n + 1 \in 1 .. AttemptCap
  OBVIOUS
<1>2. /\ \A s \in ActionStatus \ {"none"} : SaveAction(a, s) \in P
      /\ \A s \in ItemStatus \ {"absent", "processing"} : SaveItem(a, s, n + 1) \in P
      /\ \A s \in AttemptState \ {"none"} : SaveAttempt(a, s, n + 1) \in P
  BY <1>1, ReviewedCalls
<1> HIDE DEF P
<1>3. ASSUME NEW s \in {"failed", "policy_blocked"}
      PROVE  BlockTasks(a, s, n) \in Seq(P)
  <2>1. /\ SaveAttempt(a, s, n + 1) \in P
        /\ SaveItem(a, "dead_lettered", n + 1) \in P
        /\ SaveAction(a, "dead_lettered") \in P
    BY <1>2 DEF ActionStatus, ItemStatus, AttemptState
  <2> QED BY <2>1 DEF BlockTasks
<1>4. ASSUME NEW s \in Delivered
      PROVE  SuccessTasks(a, s, n) \in Seq(P)
  <2>1. SaveAttempt(a, s, n + 1) \in P /\ SaveItem(a, s, n + 1) \in P /\ SaveAction(a, s) \in P
    BY <1>2 DEF Delivered, ActionStatus, ItemStatus, AttemptState
  <2> QED BY <2>1 DEF SuccessTasks
<1>5. SaveAttempt(a, "failed", n + 1) \in P
  BY <1>2 DEF AttemptState
<1>6. RetryTasks(a, n) \in Seq(P)
  <2>1. /\ SaveItem(a, "retry_scheduled", n + 1) \in P
        /\ SaveAction(a, "retry_scheduled") \in P
    BY <1>2 DEF ActionStatus, ItemStatus
  <2> QED BY <1>5, <2>1 DEF RetryTasks
<1>7. <<SaveAttempt(a, "failed", n + 1)>> \o DeadLetterTasks(a, n + 1) \in Seq(P)
  <2>1. /\ SaveItem(a, "dead_lettered", n + 1) \in P
        /\ SaveAction(a, "dead_lettered") \in P
    BY <1>2 DEF ActionStatus, ItemStatus
  <2>2. DeadLetterTasks(a, n + 1) \in Seq(P)
    BY <2>1 DEF DeadLetterTasks
  <2>3. <<SaveAttempt(a, "failed", n + 1)>> \in Seq(P)
    BY <1>5
  <2> QED BY <2>2, <2>3, ConcatProperties
<1>8. \A b \in BOOLEAN : FailureTasks(a, n, b) \in Seq(P)
  BY <1>6, <1>7 DEF FailureTasks
<1>9. DryRunTasks(a, n) \in Seq(P)
  <2>1. SaveAttempt(a, "mock_delivered", n + 1) \in P
    BY <1>2 DEF AttemptState
  <2> QED BY <2>1 DEF DryRunTasks
<1> QED BY <1>3, <1>4, <1>6, <1>8, <1>9 DEF P

\* processClaimedOutbox plans permitted calls only.
LEMMA ProcessingPlans ==
  ASSUME NEW r, NEW a \in Actions, a \in r, NEW n \in 0 .. MaxAttempts,
         NEW o \in DeliveryOptions, NEW plan \in DeliveryPlans(a, o, n)
  PROVE  plan \in Seq(PermittedTask(r))
<1>1. BlockTasks(a, "policy_blocked", n) \in Seq(PermittedTask(r))
  BY OutcomePlans
<1>2. ASSUME NEW pl \in SandboxPlans(a, o, n)
      PROVE  pl \in Seq(PermittedTask(r))
  <2>1. <<WriteNote(a, n)>> \in Seq(PermittedTask(r))
    BY ReviewedCalls
  <2> QED BY <2>1, OutcomePlans DEF SandboxPlans, CredentialPlans
<1>3. MockTasks(a, o, n) \in Seq(PermittedTask(r))
  BY OutcomePlans DEF MockTasks, Delivered
<1> QED BY <1>1, <1>2, <1>3 DEF DeliveryPlans

-----------------------------------------------------------------------------
(* The inductive invariant, in the form the proof uses: TypeOK and          *)
(* ApprovalComesFirst with the two statements about todo made one.          *)

Plans(r) == [Procs -> Seq(PermittedTask(r))]

RowsTyped ==
  /\ action \in [Actions -> ActionStatus]
  /\ item \in [Actions -> Item]
  /\ attempts \in [Actions -> [1 .. AttemptCap -> AttemptState]]
  /\ notes \in [Actions -> 0 .. NoteCap]
  /\ policy \in PolicySettings
  /\ reviewed \subseteq Actions
  /\ clean \subseteq Actions

RowsReviewed ==
  /\ ReviewedBeforeDelivery
  /\ \A a \in Actions :
       action[a] \in {"none", "draft", "review_required", "rejected", "cancelled"}
         \/ a \in reviewed

GateInv == RowsTyped /\ RowsReviewed /\ todo \in Plans(reviewed)

\* The inductive invariant implies the two that the runs check.
LEMMA GateInvImplies == GateInv => TypeOK /\ ApprovalComesFirst
<1> SUFFICES ASSUME GateInv PROVE TypeOK /\ ApprovalComesFirst
  OBVIOUS
<1>1. \A p \in Procs : todo[p] \in Seq(PermittedTask(reviewed))
  BY DEF GateInv, Plans
<1>2. \A p \in Procs : todo[p] \in Seq(Task)
  BY <1>1, PermittedTyped, SeqGrows
<1>3. todo \in [Procs -> Seq(Task)]
  BY <1>2 DEF GateInv, Plans
<1> QED BY <1>1, <1>3 DEF GateInv, RowsTyped, RowsReviewed, TypeOK, ApprovalComesFirst

LEMMA GateInvInit == ASSUME Init PROVE GateInv
<1> USE OutboxAssumption
<1>1. RowsTyped
  BY DEF Init, RowsTyped, Item, NoItem, ActionStatus, ItemStatus, AttemptState
<1>2. RowsReviewed
  BY DEF Init, RowsReviewed, ReviewedBeforeDelivery, NoItem
<1>3. todo \in Plans(reviewed)
  BY DEF Init, Plans
<1> QED BY <1>1, <1>2, <1>3 DEF GateInv

\* The next call of a busy request, and what is left after it.
LEMMA NextCall ==
  ASSUME NEW r, todo \in Plans(r), NEW p \in Procs, ~Idle(p)
  PROVE  /\ Head(todo[p]) \in PermittedTask(r)
         /\ Tail(todo[p]) \in Seq(PermittedTask(r))
<1>1. todo[p] \in Seq(PermittedTask(r)) /\ todo[p] # <<>>
  BY DEF Plans, Idle
<1> QED BY <1>1, HeadTailProperties

\* Replacing the plan of one request by a permitted one.
LEMMA PlanReplaced ==
  ASSUME NEW r, todo \in Plans(r), NEW p \in Procs,
         NEW plan \in Seq(PermittedTask(r)),
         todo' = [todo EXCEPT ![p] = plan]
  PROVE  todo' \in Plans(r)
BY DEF Plans

LEMMA Advanced ==
  ASSUME NEW r, todo \in Plans(r), NEW p \in Procs, ~Idle(p), Advance(p)
  PROVE  todo' \in Plans(r)
<1>1. todo' = [todo EXCEPT ![p] = Tail(todo[p])]
  BY DEF Advance
<1> QED BY <1>1, NextCall, PlanReplaced

\* Steps that leave the rows alone keep what is said of them.
LEMMA RowsUnchanged ==
  ASSUME RowsTyped, RowsReviewed, clean' \subseteq Actions,
         UNCHANGED <<action, item, attempts, notes, policy, reviewed>>
  PROVE  RowsTyped' /\ RowsReviewed'
BY DEF RowsTyped, RowsReviewed, ReviewedBeforeDelivery

LEMMA Disturbed ==
  ASSUME clean \subseteq Actions, NEW a, NEW b, Disturb(a, b)
  PROVE  clean' \subseteq Actions
BY DEF Disturb

\* A request that begins with a permitted plan.
LEMMA OperateKeeps ==
  ASSUME GateInv, NEW p \in Operators, NEW a \in Actions,
         NEW plan \in Seq(PermittedTask(reviewed)), Operate(p, a, plan)
  PROVE  GateInv'
<1>1. clean' \subseteq Actions
  BY Disturbed DEF GateInv, RowsTyped, Operate
<1>2. RowsTyped' /\ RowsReviewed'
  BY <1>1, RowsUnchanged DEF GateInv, Operate
<1>3. todo' = [todo EXCEPT ![p] = plan] /\ reviewed' = reviewed
  BY DEF Operate, Begin
<1>4. todo' \in Plans(reviewed')
  BY <1>3, PlanReplaced DEF GateInv
<1> QED BY <1>2, <1>4 DEF GateInv

-----------------------------------------------------------------------------
(* Every operation keeps the invariant *)

LEMMA CreateActionKeeps ==
  ASSUME GateInv, NEW a \in Actions, CreateAction(a)
  PROVE  GateInv'
<1>1. RowsTyped'
  BY DEF GateInv, RowsTyped, CreateAction, ActionStatus
<1>2. RowsReviewed'
  BY DEF GateInv, RowsTyped, RowsReviewed, ReviewedBeforeDelivery, CreateAction
<1>3. todo' \in Plans(reviewed')
  BY DEF GateInv, CreateAction
<1> QED BY <1>1, <1>2, <1>3 DEF GateInv

\* What an operator may do to a reviewed or an unreviewed action.
LEMMA OperatorKeeps ==
  ASSUME GateInv, NEW p \in Operators, NEW a \in Actions,
         \/ SubmitForReview(p, a) \/ Approve(p, a) \/ Reject(p, a)
         \/ Queue(p, a) \/ Cancel(p, a)
         \/ RetryOutbox(p, a) \/ CancelOutbox(p, a) \/ DeadLetterOutbox(p, a)
  PROVE  GateInv'
<1> DEFINE P == PermittedTask(reviewed)
<1>1. /\ SaveAction(a, "review_required") \in P
      /\ SaveAction(a, "approved") \in P
      /\ SaveAction(a, "rejected") \in P
      /\ SaveAction(a, "cancelled") \in P
      /\ CancelItems(a) \in P
  BY UnreviewedCalls
<1>2. item[a].status # "absent" => a \in reviewed
  BY DEF GateInv, RowsReviewed, ReviewedBeforeDelivery
<1>3. action[a] = "approved" => a \in reviewed
  BY DEF GateInv, RowsReviewed
<1>4. item[a].attemptCount \in 0 .. AttemptCap
  BY DEF GateInv, RowsTyped, Item
<1> HIDE DEF P
<1>5. CASE SubmitForReview(p, a)
  <2>1. <<SaveAction(a, "review_required")>> \in Seq(P)
    BY <1>1
  <2> QED BY <1>5, <2>1, OperateKeeps DEF SubmitForReview, P
<1>6. CASE Approve(p, a)
  <2>1. <<SaveAction(a, "approved")>> \in Seq(P)
    BY <1>1
  <2> QED BY <1>6, <2>1, OperateKeeps DEF Approve, P
<1>7. CASE Reject(p, a)
  <2>1. <<SaveAction(a, "rejected")>> \in Seq(P)
    BY <1>1
  <2> QED BY <1>7, <2>1, OperateKeeps DEF Reject, P
<1>8. CASE Cancel(p, a)
  <2>1. <<SaveAction(a, "cancelled"), CancelItems(a)>> \in Seq(P)
    BY <1>1
  <2> QED BY <1>8, <2>1, OperateKeeps DEF Cancel, P
<1>9. CASE Queue(p, a)
  <2>1. a \in reviewed
    BY <1>3, <1>9 DEF Queue
  <2>2. SaveAction(a, "queued") \in P /\ CreateItem(a, DeliveryMode(QueueDecision)) \in P
    BY <2>1, ReviewedCalls DEF P, ActionStatus, DeliveryMode
  <2>3. <<SaveAction(a, "queued"), CreateItem(a, DeliveryMode(QueueDecision))>> \in Seq(P)
    BY <2>2
  <2> QED BY <1>9, <2>3, OperateKeeps DEF Queue, P
<1>10. CASE RetryOutbox(p, a)
  <2>1. a \in reviewed
    BY <1>2, <1>10 DEF RetryOutbox
  <2>2. SaveItem(a, "queued", item[a].attemptCount) \in P /\ SaveAction(a, "queued") \in P
    BY <1>4, <2>1, ReviewedCalls DEF P, ActionStatus, ItemStatus
  <2>3. <<SaveItem(a, "queued", item[a].attemptCount), SaveAction(a, "queued")>> \in Seq(P)
    BY <2>2
  <2> QED BY <1>10, <2>3, OperateKeeps DEF RetryOutbox, P
<1>11. CASE CancelOutbox(p, a)
  <2>1. a \in reviewed
    BY <1>2, <1>11 DEF CancelOutbox
  <2>2. SaveItem(a, "cancelled", item[a].attemptCount) \in P
    BY <1>4, <2>1, ReviewedCalls DEF P, ItemStatus
  <2>3. <<SaveItem(a, "cancelled", item[a].attemptCount), SaveAction(a, "cancelled")>> \in Seq(P)
    BY <1>1, <2>2
  <2> QED BY <1>11, <2>3, OperateKeeps DEF CancelOutbox, P
<1>12. CASE DeadLetterOutbox(p, a)
  <2>1. a \in reviewed
    BY <1>2, <1>12 DEF DeadLetterOutbox
  <2>2. /\ SaveItem(a, "dead_lettered", item[a].attemptCount) \in P
        /\ SaveAction(a, "dead_lettered") \in P
    BY <1>4, <2>1, ReviewedCalls DEF P, ActionStatus, ItemStatus
  <2>3. DeadLetterTasks(a, item[a].attemptCount) \in Seq(P)
    BY <2>2 DEF DeadLetterTasks
  <2> QED BY <1>12, <2>3, OperateKeeps DEF DeadLetterOutbox, P
<1> QED BY <1>5, <1>6, <1>7, <1>8, <1>9, <1>10, <1>11, <1>12

LEMMA SetPolicyKeeps ==
  ASSUME GateInv, NEW pol \in PolicySettings, SetPolicy(pol)
  PROVE  GateInv'
BY DEF GateInv, RowsTyped, RowsReviewed, ReviewedBeforeDelivery, SetPolicy

\* Finding a candidate: it has a row, so it is reviewed.
LEMMA FindKeeps ==
  ASSUME GateInv, NEW p \in Workers, NEW a \in Actions, NEW o \in DeliveryOptions,
         FindCandidate(p, a, o)
  PROVE  GateInv'
<1> USE OutboxAssumption
<1>1. item[a] \in Item
  BY DEF GateInv, RowsTyped
<1>2. item[a].attemptCount \in 0 .. MaxAttempts - 1 /\ item[a].status \in ItemStatus
  BY <1>1 DEF FindCandidate, Eligible, Item
<1>3. a \in reviewed
  BY DEF GateInv, RowsReviewed, ReviewedBeforeDelivery, FindCandidate, Eligible, Matching
<1>4. ClaimRow(a, o, item[a].attemptCount, item[a].status) \in PermittedTask(reviewed)
  BY <1>2, <1>3, ReviewedCalls
<1>5. <<ClaimRow(a, o, item[a].attemptCount, item[a].status)>> \in Seq(PermittedTask(reviewed))
  BY <1>4
<1>6. todo' \in Plans(reviewed)
  BY <1>5, PlanReplaced DEF GateInv, FindCandidate, Begin
<1>7. RowsTyped' /\ RowsReviewed'
  BY RowsUnchanged DEF GateInv, RowsTyped, FindCandidate
<1> QED BY <1>6, <1>7 DEF GateInv, FindCandidate

\* What the type of a call says of its arguments.
LEMMA CallArguments ==
  ASSUME NEW r, NEW t \in PermittedTask(r)
  PROVE  /\ t.a \in Actions
         /\ t.op = "saveAction" =>
              /\ t.val \in ActionStatus
              /\ t.val \in {"review_required", "approved", "rejected", "cancelled"} \/ t.a \in r
         /\ t.op \notin {"saveAction", "cancelItems"} => t.a \in r
         /\ t.op = "createItem" => t.val \in Modes
         /\ t.op = "saveItem" =>
              t.val \in ItemStatus \ {"absent", "processing"} /\ t.n \in 0 .. AttemptCap
         /\ t.op = "saveAttempt" =>
              t.val \in AttemptState \ {"none"} /\ t.n \in 1 .. AttemptCap
         /\ t.op = "deliver" => t.val \in DeliveryOptions /\ t.n \in 0 .. MaxAttempts
         /\ t.op = "writeNote" => t.n \in 0 .. MaxAttempts
         /\ t.op = "claimRow" => t.val \in DeliveryOptions /\ t.n \in 0 .. MaxAttempts - 1
BY DEF PermittedTask, Task, Call

LEMMA ClaimKeeps ==
  ASSUME GateInv, NEW p \in Procs, DoClaimRow(p)
  PROVE  GateInv'
<1> USE OutboxAssumption
<1> DEFINE t == Head(todo[p])
           row == item[t.a]
<1>1. t \in PermittedTask(reviewed) /\ t.op = "claimRow"
  BY NextCall DEF GateInv, DoClaimRow, At
<1>2. t.a \in Actions /\ t.a \in reviewed /\ t.val \in DeliveryOptions
  BY <1>1, CallArguments
<1>3. row \in Item /\ row.attemptCount < AttemptCap
  BY <1>2 DEF GateInv, RowsTyped, DoClaimRow
<1>4. row.attemptCount \in 0 .. MaxAttempts
  BY <1>3 DEF Item
<1>5. reviewed' = reviewed /\ UNCHANGED <<action, attempts, notes, policy>>
  BY DEF DoClaimRow
<1>6. CASE row.status = t.read /\ (t.read = "processing" => row.lock # "live")
  <2>1. /\ item' = [item EXCEPT ![t.a].status = "processing", ![t.a].lock = "live"]
        /\ todo' = [todo EXCEPT ![p] = <<Deliver(t.a, t.val, row.attemptCount)>>]
        /\ Disturb(t.a, row.attemptCount # t.n \/ InFlight(t.a) \cap Operators # {})
    BY <1>6 DEF DoClaimRow, Continue
  <2>2. Deliver(t.a, t.val, row.attemptCount) \in PermittedTask(reviewed)
    BY <1>2, <1>4, ReviewedCalls
  <2>3. <<Deliver(t.a, t.val, row.attemptCount)>> \in Seq(PermittedTask(reviewed))
    BY <2>2
  <2>4. todo' \in Plans(reviewed)
    BY <2>1, <2>3, PlanReplaced DEF GateInv
  <2> HIDE DEF t
  <2>5. clean' \subseteq Actions
    BY <2>1, Disturbed DEF GateInv, RowsTyped
  <2>6. item' \in [Actions -> Item]
    <3>1. [row EXCEPT !.status = "processing", !.lock = "live"] \in Item
      BY <1>3 DEF Item, ItemStatus
    <3>2. item' = [item EXCEPT ![t.a] = [row EXCEPT !.status = "processing", !.lock = "live"]]
      BY <1>2, <2>1 DEF GateInv, RowsTyped
    <3> QED BY <1>2, <3>1, <3>2 DEF GateInv, RowsTyped
  <2>7. RowsTyped'
    BY <1>5, <2>5, <2>6 DEF GateInv, RowsTyped
  <2>8. RowsReviewed'
    BY <1>2, <1>5, <2>1 DEF GateInv, RowsTyped, RowsReviewed, ReviewedBeforeDelivery
  <2> QED BY <1>5, <2>4, <2>7, <2>8 DEF GateInv
<1>7. CASE ~(row.status = t.read /\ (t.read = "processing" => row.lock # "live"))
  <2>1. UNCHANGED <<item, clean>> /\ todo' = [todo EXCEPT ![p] = <<>>]
    BY <1>7 DEF DoClaimRow, Continue
  <2>2. todo' \in Plans(reviewed)
    BY <2>1, EmptySeq, PlanReplaced DEF GateInv
  <2>3. RowsTyped' /\ RowsReviewed'
    BY <1>5, <2>1, RowsUnchanged DEF GateInv, RowsTyped
  <2> QED BY <1>5, <2>2, <2>3 DEF GateInv
<1> QED BY <1>6, <1>7

LEMMA ProcessKeeps ==
  ASSUME GateInv, NEW p \in Procs, ProcessClaimed(p)
  PROVE  GateInv'
<1> DEFINE t == Head(todo[p])
<1>1. t \in PermittedTask(reviewed) /\ t.op = "deliver"
  BY NextCall DEF GateInv, ProcessClaimed, At
<1>2. /\ t.a \in Actions /\ t.a \in reviewed
      /\ t.val \in DeliveryOptions /\ t.n \in 0 .. MaxAttempts
  BY <1>1, CallArguments
<1>3. PICK plan \in DeliveryPlans(t.a, t.val, t.n) :
         Continue(p, plan) /\ Disturb(t.a, plan = DryRunTasks(t.a, t.n))
  BY DEF ProcessClaimed
<1>4. UNCHANGED <<action, item, attempts, notes, policy, reviewed>>
  BY DEF ProcessClaimed
<1> HIDE DEF t
<1>5. plan \in Seq(PermittedTask(reviewed))
  BY <1>2, ProcessingPlans
<1>6. todo' \in Plans(reviewed)
  BY <1>3, <1>5, PlanReplaced DEF GateInv, Continue
<1>7. clean' \subseteq Actions
  BY <1>3, Disturbed DEF GateInv, RowsTyped
<1>8. RowsTyped' /\ RowsReviewed'
  BY <1>4, <1>7, RowsUnchanged DEF GateInv
<1> QED BY <1>4, <1>6, <1>8 DEF GateInv

\* The three answers of the external system.
LEMMA NoteKeeps ==
  ASSUME GateInv, NEW p \in Procs, NoteWritten(p) \/ NoteRefused(p) \/ NoteReplyLost(p)
  PROVE  GateInv'
<1> USE OutboxAssumption
<1> DEFINE t == Head(todo[p])
<1>1. t \in PermittedTask(reviewed) /\ t.op = "writeNote"
  BY NextCall DEF GateInv, NoteWritten, NoteRefused, NoteReplyLost, At
<1>2. t.a \in Actions /\ t.a \in reviewed /\ t.n \in 0 .. MaxAttempts
  BY <1>1, CallArguments
<1>3. /\ reviewed' = reviewed
      /\ UNCHANGED <<action, item, attempts, policy>>
      /\ notes' = notes \/ notes' = [notes EXCEPT ![t.a] = Counted(notes[t.a])]
      /\ \/ Continue(p, SuccessTasks(t.a, "sandbox_delivered", t.n))
         \/ Continue(p, FailureTasks(t.a, t.n, TRUE))
      /\ clean' = clean \/ Disturb(t.a, TRUE)
  BY DEF NoteWritten, NoteRefused, NoteReplyLost
<1> HIDE DEF t
<1>4. /\ SuccessTasks(t.a, "sandbox_delivered", t.n) \in Seq(PermittedTask(reviewed))
      /\ FailureTasks(t.a, t.n, TRUE) \in Seq(PermittedTask(reviewed))
  BY <1>2, OutcomePlans DEF Delivered
<1>5. todo' \in Plans(reviewed)
  BY <1>3, <1>4, PlanReplaced DEF GateInv, Continue
<1>6. notes' \in [Actions -> 0 .. NoteCap]
  <2>1. notes \in [Actions -> 0 .. NoteCap]
    BY DEF GateInv, RowsTyped
  <2>2. Counted(notes[t.a]) \in 0 .. NoteCap
    BY <1>2, <2>1 DEF Counted
  <2> QED BY <1>3, <2>1, <2>2
<1>7. clean' \subseteq Actions
  BY <1>3, Disturbed DEF GateInv, RowsTyped
<1>8. RowsTyped'
  BY <1>3, <1>6, <1>7 DEF GateInv, RowsTyped
<1>9. RowsReviewed'
  BY <1>2, <1>3 DEF GateInv, RowsTyped, RowsReviewed, ReviewedBeforeDelivery
<1> QED BY <1>3, <1>5, <1>8, <1>9 DEF GateInv

\* Storing an approval is what makes an action reviewed.
LEMMA SaveActionKeeps ==
  ASSUME GateInv, NEW p \in Procs, DoSaveAction(p)
  PROVE  GateInv'
<1> DEFINE t == Head(todo[p])
<1>1. t \in PermittedTask(reviewed) /\ t.op = "saveAction" /\ ~Idle(p)
  BY NextCall DEF GateInv, DoSaveAction, At
<1>2. /\ t.a \in Actions /\ t.val \in ActionStatus
      /\ t.val \in {"review_required", "approved", "rejected", "cancelled"} \/ t.a \in reviewed
  BY <1>1, CallArguments
<1>3. /\ action' = [action EXCEPT ![t.a] = t.val]
      /\ reviewed' = IF t.val = "approved" THEN reviewed \cup {t.a} ELSE reviewed
      /\ UNCHANGED <<item, attempts, notes, policy, clean>>
      /\ Advance(p)
  BY DEF DoSaveAction
<1> HIDE DEF t
<1>4. reviewed \subseteq reviewed' /\ reviewed' \subseteq Actions
  BY <1>2, <1>3 DEF GateInv, RowsTyped
<1>5. todo' \in Plans(reviewed')
  <2>1. todo' \in Plans(reviewed)
    BY <1>1, <1>3, Advanced DEF GateInv
  <2>2. \A q \in Procs : todo'[q] \in Seq(PermittedTask(reviewed'))
    BY <1>4, <2>1, PermittedGrows, SeqGrows DEF Plans
  <2> QED BY <2>1, <2>2 DEF Plans
<1>6. RowsTyped'
  BY <1>2, <1>3, <1>4 DEF GateInv, RowsTyped
<1>7. RowsReviewed'
  BY <1>2, <1>3, <1>4 DEF GateInv, RowsTyped, RowsReviewed, ReviewedBeforeDelivery
<1> QED BY <1>5, <1>6, <1>7 DEF GateInv

LEMMA CreateItemKeeps ==
  ASSUME GateInv, NEW p \in Procs, DoCreateItem(p)
  PROVE  GateInv'
<1> USE OutboxAssumption
<1> DEFINE t == Head(todo[p])
           new == [NoItem EXCEPT !.status = "queued", !.mode = t.val, !.queuedAt = ItemCount]
<1>1. t \in PermittedTask(reviewed) /\ t.op = "createItem" /\ ~Idle(p)
  BY NextCall DEF GateInv, DoCreateItem, At
<1>2. t.a \in Actions /\ t.a \in reviewed /\ t.val \in Modes
  BY <1>1, CallArguments
<1>3. /\ item' = item \/ item' = [item EXCEPT ![t.a] = new]
      /\ UNCHANGED <<action, attempts, notes, policy, reviewed, clean>>
      /\ Advance(p)
  BY DEF DoCreateItem
<1>4. ItemCount \in Nat
  BY FS_Subset, FS_CardinalityType DEF ItemCount
<1>5. new \in Item
  <2>1. NoItem \in Item
    BY DEF NoItem, Item, ItemStatus
  <2> HIDE DEF t
  <2>2. t.val \in Modes /\ "queued" \in ItemStatus
    BY <1>2 DEF ItemStatus
  <2> QED BY <1>4, <2>1, <2>2 DEF Item
<1> HIDE DEF t, new
<1>6. RowsTyped'
  BY <1>2, <1>3, <1>5 DEF GateInv, RowsTyped
<1>7. RowsReviewed'
  BY <1>2, <1>3 DEF GateInv, RowsTyped, RowsReviewed, ReviewedBeforeDelivery
<1>8. todo' \in Plans(reviewed')
  BY <1>1, <1>3, Advanced DEF GateInv
<1> QED BY <1>6, <1>7, <1>8 DEF GateInv

LEMMA SaveItemKeeps ==
  ASSUME GateInv, NEW p \in Procs, DoSaveItem(p)
  PROVE  GateInv'
<1> DEFINE t == Head(todo[p])
           new == [item[t.a] EXCEPT !.status = t.val, !.attemptCount = t.n, !.lock = "none",
                                    !.waiting = (t.val = "retry_scheduled")]
<1>1. t \in PermittedTask(reviewed) /\ t.op = "saveItem" /\ ~Idle(p)
  BY NextCall DEF GateInv, DoSaveItem, At
<1>2. /\ t.a \in Actions /\ t.a \in reviewed
      /\ t.val \in ItemStatus \ {"absent", "processing"} /\ t.n \in 0 .. AttemptCap
  BY <1>1, CallArguments
<1>3. item[t.a] \in Item
  BY <1>2 DEF GateInv, RowsTyped
<1>4. /\ item' = [item EXCEPT ![t.a] = new]
      /\ UNCHANGED <<action, attempts, notes, policy, reviewed, clean>>
      /\ Advance(p)
  BY <1>2 DEF DoSaveItem, GateInv, RowsTyped
<1>5. new \in Item
  BY <1>2, <1>3 DEF Item
<1> HIDE DEF t, new
<1>6. RowsTyped'
  BY <1>2, <1>4, <1>5 DEF GateInv, RowsTyped
<1>7. RowsReviewed'
  BY <1>2, <1>4 DEF GateInv, RowsTyped, RowsReviewed, ReviewedBeforeDelivery
<1>8. todo' \in Plans(reviewed')
  BY <1>1, <1>4, Advanced DEF GateInv
<1> QED BY <1>6, <1>7, <1>8 DEF GateInv

LEMMA CancelItemsKeeps ==
  ASSUME GateInv, NEW p \in Procs, DoCancelItems(p)
  PROVE  GateInv'
<1> DEFINE a == Head(todo[p]).a
<1>1. Head(todo[p]) \in PermittedTask(reviewed)
  BY NextCall DEF GateInv, DoCancelItems, At
<1>2. a \in Actions
  BY <1>1, CallArguments
<1>3. item[a].attemptCount \in 0 .. AttemptCap
  BY <1>2 DEF GateInv, RowsTyped, Item
<1>4. UNCHANGED <<action, item, attempts, notes, policy, reviewed, clean>>
  BY DEF DoCancelItems
<1>5. CASE item[a].status \in {"queued", "processing", "retry_scheduled"}
  <2>1. todo' = [todo EXCEPT ![p] = <<SaveItem(a, "cancelled", item[a].attemptCount)>>]
    BY <1>5 DEF DoCancelItems, Continue
  <2>2. a \in reviewed
    BY <1>2, <1>5 DEF GateInv, RowsReviewed, ReviewedBeforeDelivery
  <2> HIDE DEF a
  <2>3. SaveItem(a, "cancelled", item[a].attemptCount) \in PermittedTask(reviewed)
    BY <1>2, <1>3, <2>2, ReviewedCalls DEF ItemStatus
  <2>4. <<SaveItem(a, "cancelled", item[a].attemptCount)>> \in Seq(PermittedTask(reviewed))
    BY <2>3
  <2> QED BY <1>4, <2>1, <2>4, PlanReplaced, RowsUnchanged DEF GateInv, RowsTyped
<1>6. CASE item[a].status \notin {"queued", "processing", "retry_scheduled"}
  <2>1. todo' = [todo EXCEPT ![p] = <<>>]
    BY <1>6 DEF DoCancelItems, Continue
  <2>2. todo' \in Plans(reviewed)
    BY <2>1, EmptySeq, PlanReplaced DEF GateInv
  <2> QED BY <1>4, <2>2, RowsUnchanged DEF GateInv, RowsTyped
<1> QED BY <1>5, <1>6

LEMMA SaveAttemptKeeps ==
  ASSUME GateInv, NEW p \in Procs, DoSaveAttempt(p) \/ AttemptSaveFails(p)
  PROVE  GateInv'
<1> USE OutboxAssumption
<1> DEFINE t == Head(todo[p])
<1>1. t \in PermittedTask(reviewed) /\ t.op = "saveAttempt" /\ ~Idle(p)
  BY NextCall DEF GateInv, DoSaveAttempt, AttemptSaveFails, At
<1>2. /\ t.a \in Actions /\ t.a \in reviewed
      /\ t.val \in AttemptState \ {"none"} /\ t.n \in 1 .. AttemptCap
  BY <1>1, CallArguments
<1>3. UNCHANGED <<action, item, notes, policy, reviewed>>
  BY DEF DoSaveAttempt, AttemptSaveFails
<1>4. attempts' = attempts \/ attempts' = [attempts EXCEPT ![t.a][t.n] = t.val]
  BY DEF DoSaveAttempt, AttemptSaveFails
<1>5. \/ Advance(p)
      \/ Continue(p, <<>>)
      \/ Continue(p, FailureTasks(t.a, t.n - 1, TRUE))
  BY DEF DoSaveAttempt, AttemptSaveFails
<1>6. clean' \subseteq Actions
  BY Disturbed DEF GateInv, RowsTyped, DoSaveAttempt, AttemptSaveFails
<1> HIDE DEF t
<1>7. attempts' \in [Actions -> [1 .. AttemptCap -> AttemptState]]
  <2>1. attempts \in [Actions -> [1 .. AttemptCap -> AttemptState]]
    BY DEF GateInv, RowsTyped
  <2>2. [attempts[t.a] EXCEPT ![t.n] = t.val] \in [1 .. AttemptCap -> AttemptState]
    BY <1>2, <2>1
  <2>3. [attempts EXCEPT ![t.a][t.n] = t.val]
          = [attempts EXCEPT ![t.a] = [attempts[t.a] EXCEPT ![t.n] = t.val]]
    BY <1>2, <2>1
  <2> QED BY <1>2, <1>4, <2>1, <2>2, <2>3
<1>8. RowsTyped'
  BY <1>3, <1>6, <1>7 DEF GateInv, RowsTyped
<1>9. RowsReviewed'
  BY <1>3 DEF GateInv, RowsReviewed, ReviewedBeforeDelivery
<1>10. FailureTasks(t.a, t.n - 1, TRUE) \in Seq(PermittedTask(reviewed))
  <2>1. t.n - 1 \in 0 .. MaxAttempts
    BY <1>2
  <2> QED BY <1>2, <2>1, OutcomePlans
<1>11. todo' \in Plans(reviewed)
  BY <1>1, <1>5, <1>10, Advanced, EmptySeq, PlanReplaced DEF GateInv, Continue
<1> QED BY <1>3, <1>8, <1>9, <1>11 DEF GateInv

LEMMA AbortKeeps ==
  ASSUME GateInv, NEW p \in Procs, Abort(p)
  PROVE  GateInv'
<1>1. todo' \in Plans(reviewed)
  BY EmptySeq, PlanReplaced DEF GateInv, Abort, Continue
<1>2. clean' \subseteq Actions
  BY Disturbed DEF GateInv, RowsTyped, Abort
<1>3. RowsTyped' /\ RowsReviewed'
  BY <1>2, RowsUnchanged DEF GateInv, Abort
<1> QED BY <1>1, <1>3 DEF GateInv, Abort

LEMMA TimeKeeps ==
  ASSUME GateInv, NEW a \in Actions, LockExpires(a) \/ BackoffElapses(a)
  PROVE  GateInv'
<1>1. UNCHANGED <<action, attempts, notes, policy, todo, reviewed>>
  BY DEF LockExpires, BackoffElapses
<1>2. clean' \subseteq Actions
  BY Disturbed DEF GateInv, RowsTyped, LockExpires, BackoffElapses
<1>3. item[a] \in Item
  BY DEF GateInv, RowsTyped
<1>4. \/ item' = [item EXCEPT ![a] = [item[a] EXCEPT !.lock = "expired"]]
      \/ item' = [item EXCEPT ![a] = [item[a] EXCEPT !.waiting = FALSE]]
  BY DEF GateInv, RowsTyped, LockExpires, BackoffElapses
<1>5. /\ [item[a] EXCEPT !.lock = "expired"] \in Item
      /\ [item[a] EXCEPT !.waiting = FALSE] \in Item
  BY <1>3 DEF Item
<1>6. item' \in [Actions -> Item]
  BY <1>4, <1>5 DEF GateInv, RowsTyped
<1>7. \A b \in Actions : item'[b].status = item[b].status
  <2>1. /\ [item[a] EXCEPT !.lock = "expired"].status = item[a].status
        /\ [item[a] EXCEPT !.waiting = FALSE].status = item[a].status
    BY <1>3 DEF Item
  <2> QED BY <1>4, <2>1 DEF GateInv, RowsTyped
<1>8. RowsTyped'
  BY <1>1, <1>2, <1>6 DEF GateInv, RowsTyped
<1>9. RowsReviewed'
  BY <1>1, <1>7 DEF GateInv, RowsReviewed, ReviewedBeforeDelivery
<1> QED BY <1>1, <1>8, <1>9 DEF GateInv

-----------------------------------------------------------------------------
(* The theorems *)

LEMMA GateInvStep == ASSUME GateInv, [Next]_vars PROVE GateInv'
<1>1. CASE OperatorStep
  BY <1>1, CreateActionKeeps, OperatorKeeps DEF OperatorStep
<1>2. CASE PolicyStep
  BY <1>2, SetPolicyKeeps DEF PolicyStep
<1>3. ASSUME NEW p \in Workers, ClaimStep(p) \/ \E a \in Actions : MockDeliver(p, a)
      PROVE  GateInv'
  <2>1. Options \subseteq DeliveryOptions
    BY DEF Options
  <2>2. \E a \in Actions, o \in DeliveryOptions : FindCandidate(p, a, o)
    BY <1>3, <2>1 DEF ClaimStep, ProcessOnce, ProcessItem, MockDeliver
  <2> QED BY <2>2, FindKeeps
<1>4. ASSUME NEW p \in Procs, RequestStep(p) \/ Abort(p)
      PROVE  GateInv'
  BY <1>4, ClaimKeeps, ProcessKeeps, NoteKeeps, SaveActionKeeps, CreateItemKeeps, SaveItemKeeps,
     CancelItemsKeeps, SaveAttemptKeeps, AbortKeeps DEF RequestStep
<1>5. CASE TimeStep
  BY <1>5, TimeKeeps DEF TimeStep
<1>6. CASE UNCHANGED vars
  BY <1>6 DEF vars, GateInv, RowsTyped, RowsReviewed, ReviewedBeforeDelivery
<1> QED BY <1>1, <1>2, <1>3, <1>4, <1>5, <1>6 DEF Next

LEMMA GateInvAlways == Spec => []GateInv
BY GateInvInit, GateInvStep, PTL DEF Spec

\* The rows and the planned calls keep their types in every behaviour of the
\* outbox, with any number of concurrent requests and any fault.
THEOREM TypesKept == Spec => []TypeOK
BY GateInvAlways, GateInvImplies, PTL

\* The approval gate: no outbox row and no external note exists for an action
\* that no administrator approved, however many requests run, in whatever
\* order their saves are made and wherever they die.
THEOREM ApprovalGate == Spec => []ReviewedBeforeDelivery
<1>1. GateInv => ReviewedBeforeDelivery
  BY DEF GateInv, RowsReviewed
<1> QED BY <1>1, GateInvAlways, PTL

\* The invariant behind it: the calls that requests have still to make are
\* permitted by the approvals stored so far.
THEOREM ApprovalOrder == Spec => []ApprovalComesFirst
BY GateInvAlways, GateInvImplies, PTL

-----------------------------------------------------------------------------
(* Claims: inductive given the types, because a save never writes          *)
(* "processing" and a claim is the only step that does.                    *)

LEMMA ClaimInit == ASSUME Init PROVE ClaimIsRecoverable
BY DEF Init, ClaimIsRecoverable, NoItem

\* Steps that write no item and disturb at most more actions.
LEMMA ItemsUnchanged ==
  ASSUME ClaimIsRecoverable, item' = item, clean' \subseteq clean
  PROVE  ClaimIsRecoverable'
BY DEF ClaimIsRecoverable

LEMMA DisturbShrinks ==
  ASSUME NEW a, NEW b, Disturb(a, b)
  PROVE  clean' \subseteq clean
BY DEF Disturb

LEMMA ClaimRowRecoverable ==
  ASSUME GateInv, ClaimIsRecoverable, NEW p \in Procs, DoClaimRow(p)
  PROVE  ClaimIsRecoverable'
<1> USE OutboxAssumption
<1> DEFINE t == Head(todo[p])
           row == item[t.a]
<1>1. t \in PermittedTask(reviewed) /\ t.op = "claimRow"
  BY NextCall DEF GateInv, DoClaimRow, At
<1>2. t.a \in Actions /\ t.n \in 0 .. MaxAttempts - 1
  BY <1>1, CallArguments
<1>3. row \in Item
  BY <1>2 DEF GateInv, RowsTyped
<1>4. CASE UNCHANGED <<item, clean>>
  BY <1>4, ItemsUnchanged
<1>5. CASE /\ item' = [item EXCEPT ![t.a].status = "processing", ![t.a].lock = "live"]
           /\ Disturb(t.a, row.attemptCount # t.n \/ InFlight(t.a) \cap Operators # {})
  <2> DEFINE new == [row EXCEPT !.status = "processing", !.lock = "live"]
  <2>1. item' = [item EXCEPT ![t.a] = new]
    BY <1>2, <1>5 DEF GateInv, RowsTyped
  <2>2. new.status = "processing" /\ new.lock = "live" /\ new.attemptCount = row.attemptCount
    BY <1>3 DEF Item
  <2>3. clean' \subseteq clean /\ (t.a \in clean' => row.attemptCount = t.n)
    BY <1>5 DEF Disturb
  <2>4. t.a \in clean' => new.attemptCount < MaxAttempts
    BY <1>2, <2>2, <2>3
  <2> HIDE DEF new, t
  <2> QED BY <1>2, <2>1, <2>2, <2>3, <2>4 DEF ClaimIsRecoverable, GateInv, RowsTyped
<1> QED BY <1>4, <1>5 DEF DoClaimRow

LEMMA CreateItemRecoverable ==
  ASSUME GateInv, ClaimIsRecoverable, NEW p \in Procs, DoCreateItem(p)
  PROVE  ClaimIsRecoverable'
<1> DEFINE t == Head(todo[p])
           new == [NoItem EXCEPT !.status = "queued", !.mode = t.val, !.queuedAt = ItemCount]
<1>1. item' = item \/ item' = [item EXCEPT ![t.a] = new]
  BY DEF DoCreateItem
<1>2. new.status = "queued" /\ new.lock = "none"
  BY DEF NoItem
<1>3. clean' = clean
  BY DEF DoCreateItem
<1> HIDE DEF t, new
<1> QED BY <1>1, <1>2, <1>3 DEF ClaimIsRecoverable, GateInv, RowsTyped

LEMMA SaveItemRecoverable ==
  ASSUME GateInv, ClaimIsRecoverable, NEW p \in Procs, DoSaveItem(p)
  PROVE  ClaimIsRecoverable'
<1> DEFINE t == Head(todo[p])
           new == [item[t.a] EXCEPT !.status = t.val, !.attemptCount = t.n, !.lock = "none",
                                    !.waiting = (t.val = "retry_scheduled")]
<1>1. t \in PermittedTask(reviewed) /\ t.op = "saveItem"
  BY NextCall DEF GateInv, DoSaveItem, At
<1>2. t.a \in Actions /\ t.val # "processing"
  BY <1>1, CallArguments
<1>3. item[t.a] \in Item
  BY <1>2 DEF GateInv, RowsTyped
<1>4. item' = [item EXCEPT ![t.a] = new] /\ clean' = clean
  BY <1>2 DEF DoSaveItem, GateInv, RowsTyped
<1>5. new.status = t.val /\ new.lock = "none"
  BY <1>3 DEF Item
<1> HIDE DEF t, new
<1> QED BY <1>2, <1>4, <1>5 DEF ClaimIsRecoverable, GateInv, RowsTyped

LEMMA TimeRecoverable ==
  ASSUME GateInv, ClaimIsRecoverable, NEW a \in Actions, LockExpires(a) \/ BackoffElapses(a)
  PROVE  ClaimIsRecoverable'
<1> DEFINE expired == [item[a] EXCEPT !.lock = "expired"]
           due == [item[a] EXCEPT !.waiting = FALSE]
<1>1. item[a] \in Item
  BY DEF GateInv, RowsTyped
<1>2. \/ item' = [item EXCEPT ![a] = expired] /\ item[a].lock = "live"
      \/ item' = [item EXCEPT ![a] = due]
  BY DEF LockExpires, BackoffElapses, GateInv, RowsTyped
<1>3. /\ expired.status = item[a].status /\ expired.lock = "expired"
      /\ expired.attemptCount = item[a].attemptCount
      /\ due.status = item[a].status /\ due.lock = item[a].lock
      /\ due.attemptCount = item[a].attemptCount
  BY <1>1 DEF Item
<1>4. clean' \subseteq clean
  BY DisturbShrinks DEF LockExpires, BackoffElapses
<1> HIDE DEF expired, due
<1> QED BY <1>2, <1>3, <1>4 DEF ClaimIsRecoverable, GateInv, RowsTyped

LEMMA ClaimStepKeeps ==
  ASSUME GateInv, ClaimIsRecoverable, [Next]_vars
  PROVE  ClaimIsRecoverable'
<1>1. CASE OperatorStep
  <2>1. item' = item /\ clean' \subseteq clean
    BY <1>1, DisturbShrinks DEF OperatorStep, CreateAction, SubmitForReview, Approve, Reject,
       Queue, Cancel, RetryOutbox, CancelOutbox, DeadLetterOutbox, Operate
  <2> QED BY <2>1, ItemsUnchanged
<1>2. CASE PolicyStep
  BY <1>2, ItemsUnchanged DEF PolicyStep, SetPolicy
<1>3. ASSUME NEW p \in Workers, ClaimStep(p) \/ \E a \in Actions : MockDeliver(p, a)
      PROVE  ClaimIsRecoverable'
  <2>1. UNCHANGED <<item, clean>>
    BY <1>3 DEF ClaimStep, ProcessOnce, ProcessItem, MockDeliver, FindCandidate
  <2> QED BY <2>1, ItemsUnchanged
<1>4. ASSUME NEW p \in Procs, RequestStep(p) \/ Abort(p)
      PROVE  ClaimIsRecoverable'
  <2>1. CASE DoClaimRow(p) \/ DoCreateItem(p) \/ DoSaveItem(p)
    BY <2>1, ClaimRowRecoverable, CreateItemRecoverable, SaveItemRecoverable
  <2>2. CASE ProcessClaimed(p)
    BY <2>2, ItemsUnchanged, DisturbShrinks DEF ProcessClaimed
  <2>3. CASE NoteWritten(p) \/ NoteRefused(p) \/ NoteReplyLost(p)
    BY <2>3, ItemsUnchanged, DisturbShrinks DEF NoteWritten, NoteRefused, NoteReplyLost
  <2>4. CASE DoSaveAction(p) \/ DoCancelItems(p) \/ DoSaveAttempt(p)
    BY <2>4, ItemsUnchanged DEF DoSaveAction, DoCancelItems, DoSaveAttempt
  <2>5. CASE AttemptSaveFails(p) \/ Abort(p)
    BY <2>5, ItemsUnchanged, DisturbShrinks DEF AttemptSaveFails, Abort
  <2> QED BY <1>4, <2>1, <2>2, <2>3, <2>4, <2>5 DEF RequestStep
<1>5. CASE TimeStep
  BY <1>5, TimeRecoverable DEF TimeStep
<1>6. CASE UNCHANGED vars
  BY <1>6, ItemsUnchanged DEF vars
<1> QED BY <1>1, <1>2, <1>3, <1>4, <1>5, <1>6 DEF Next

\* A claimed row is locked until the lock expires, every save releases it, and
\* it has an attempt left, whichever requests race (claimNextActionOutboxItem).
THEOREM ClaimsRecoverable == Spec => []ClaimIsRecoverable
BY GateInvAlways, ClaimInit, ClaimStepKeeps, PTL DEF Spec

=============================================================================
