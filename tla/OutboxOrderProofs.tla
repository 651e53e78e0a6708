------------------------- MODULE OutboxOrderProofs -------------------------
(***************************************************************************)
(* Theorems of ActionOutbox about the order in which a request makes its   *)
(* calls, and that it implements OutboxPromise.                            *)
(*                                                                         *)
(* Two inductive invariants, over the gate of ActionOutboxProofs.  PlanInv *)
(* holds of every action: what is left of a plan is the rest of one the    *)
(* code makes, and the row that reports a delivery is saved after the      *)
(* attempt and the note it reports.  CalmInv holds of the undisturbed      *)
(* ones: one request at a time writes to the rows, and they stand where    *)
(* the calls it has made have left them.                                   *)
(***************************************************************************)
EXTENDS ActionOutboxProofs, OutboxRefinement, OutboxReports

USE DEF Procs, AttemptCap, Modes, DeliveryOptions

-----------------------------------------------------------------------------
(* The invariants *)

\* What the attempts and the ticket show when a row says s at attempt n.
Evidence(a, s, n) ==
  s \in Delivered => attempts[a][n] = s /\ (s = "sandbox_delivered" => notes[a] > 0)

Present(a) == item[a].status # "absent"

OpenStatus == {"queued", "processing", "retry_scheduled"}

SavedStatus == ItemStatus \ {"absent", "processing"}

\* The plans on action a, and what is left of them after some calls: those
\* that touch no evidence, and those that save a row under some attempt.
RowPlan(s, a) ==
  \/ \E v \in ActionStatus \ {"none"} : s = <<SaveAction(a, v)>>
  \/ \E m \in Modes :
       \/ s = <<SaveAction(a, "queued"), CreateItem(a, m)>>
       \/ s = <<CreateItem(a, m)>>
  \/ s = <<SaveAction(a, "cancelled"), CancelItems(a)>>
  \/ s = <<CancelItems(a)>>
  \/ \E n \in 0 .. AttemptCap : s = <<SaveItem(a, "cancelled", n)>>

ItemPlan(s, a) ==
  \E v \in SavedStatus, n \in 0 .. AttemptCap :
    /\ v \in Delivered => n > 0
    /\ Evidence(a, v, n)
    /\ s = <<SaveItem(a, v, n), SaveAction(a, v)>>

\* Those of a worker: it claims and delivers a row that exists, and saves an
\* attempt before the row, with the note it reports already written.
ClaimPlan(s, a) ==
  /\ Present(a)
  /\ \/ \E o \in DeliveryOptions, n \in 0 .. MaxAttempts - 1, r \in OpenStatus :
          s = <<ClaimRow(a, o, n, r)>>
     \/ \E o \in DeliveryOptions, n \in 0 .. MaxAttempts : s = <<Deliver(a, o, n)>>
     \/ \E n \in 0 .. MaxAttempts : s = <<WriteNote(a, n)>>

AttemptPlan(s, a) ==
  \E v \in AttemptState \ {"none"}, n \in 1 .. AttemptCap :
    /\ v = "sandbox_delivered" => notes[a] > 0
    /\ \/ s = <<SaveAttempt(a, v, n)>>
       \/ \E st \in SavedStatus :
            /\ st \in Delivered => st = v
            /\ s = <<SaveAttempt(a, v, n), SaveItem(a, st, n), SaveAction(a, st)>>

MayRun(p, s) ==
  \/ s = <<>>
  \/ \E a \in Actions :
       \/ RowPlan(s, a) \/ ItemPlan(s, a)
       \/ p \in Workers /\ (ClaimPlan(s, a) \/ AttemptPlan(s, a))

PlanInv ==
  /\ DeliveredHasAttempt
  /\ \A p \in Procs : MayRun(p, todo[p])

\* The attempts of a are numbered 1 .. k without gaps.
Numbered(a, k) == \A n \in 1 .. AttemptCap : attempts[a][n] # "none" <=> n <= k

NotesOf(s) == IF s = "sandbox_delivered" THEN 1 ELSE 0

\* The rows of a agree with each other about what was delivered.
Kept(a) ==
  /\ Numbered(a, item[a].attemptCount)
  /\ notes[a] = NotesOf(item[a].status)
  /\ item[a].status = "absent" => item[a].attemptCount = 0

\* No request is about to write to the rows of a.
AtRest(a) ==
  /\ Kept(a)
  /\ \/ /\ item[a].status = "absent"
        /\ action[a] \in {"none", "draft", "review_required", "approved",
                          "rejected", "cancelled"}
     \/ action[a] = item[a].status
     \/ action[a] = "cancelled" /\ item[a].status = "dead_lettered"

\* A person's request with the calls s still to make.
OperatorAt(s, a) ==
  LET st == item[a].status
      n  == item[a].attemptCount
  IN /\ Kept(a)
     /\ \/ /\ st = "absent"
           /\ \/ \E v \in {"review_required", "approved", "rejected"} : s = <<SaveAction(a, v)>>
              \/ \E m \in Modes : s = <<SaveAction(a, "queued"), CreateItem(a, m)>>
              \/ \E m \in Modes : s = <<CreateItem(a, m)>> /\ action[a] = "queued"
        \/ /\ st \in {"absent", "queued", "retry_scheduled", "dead_lettered"}
           /\ \/ s = <<SaveAction(a, "cancelled"), CancelItems(a)>>
              \/ s = <<CancelItems(a)>> /\ action[a] = "cancelled"
        \/ /\ st \in {"queued", "retry_scheduled"}
           /\ \/ s = <<SaveItem(a, "cancelled", n)>> /\ action[a] = "cancelled"
              \/ s = <<SaveItem(a, "cancelled", n), SaveAction(a, "cancelled")>>
        \/ /\ st \in {"retry_scheduled", "dead_lettered"}
           /\ s = <<SaveItem(a, "queued", n), SaveAction(a, "queued")>>
        \/ st = "retry_scheduled" /\ s = DeadLetterTasks(a, n)
        \/ st \in {"queued", "cancelled", "dead_lettered"} /\ s = <<SaveAction(a, st)>>

\* The statuses in which a worker leaves a row.
Outcome == Delivered \cup {"dead_lettered", "retry_scheduled"}

\* A worker's request that holds the claim.
Holding(s, a) ==
  LET n == item[a].attemptCount
  IN /\ item[a].status = "processing" /\ item[a].lock = "live" /\ n < MaxAttempts
     /\ \/ /\ Numbered(a, n) /\ notes[a] = 0
           /\ \/ \E o \in DeliveryOptions : s = <<Deliver(a, o, n)>>
              \/ s = <<WriteNote(a, n)>>
        \/ \E v \in AttemptState \ {"none"}, st \in Outcome :
             /\ v \in Delivered \/ st \in Delivered => v = st
             /\ notes[a] = NotesOf(st)
             /\ Numbered(a, n)
             /\ s = <<SaveAttempt(a, v, n + 1), SaveItem(a, st, n + 1), SaveAction(a, st)>>
        \/ \E st \in Outcome :
             /\ notes[a] = NotesOf(st)
             /\ Numbered(a, n + 1)
             /\ s = <<SaveItem(a, st, n + 1), SaveAction(a, st)>>

WorkerAt(s, a) ==
  \/ Holding(s, a)
  \/ /\ Kept(a)
     /\ item[a].status \in Outcome
     /\ item[a].status = "retry_scheduled" => item[a].waiting
     /\ s = <<SaveAction(a, item[a].status)>>

\* A worker that found a as a candidate saw no later attempt than the last,
\* and an earlier one if a retry has been scheduled since.
FoundBefore(a) ==
  \A p \in Procs :
    At(p, "claimRow") /\ Head(todo[p]).a = a =>
      /\ Head(todo[p]).n <= item[a].attemptCount
      /\ item[a].waiting => Head(todo[p]).n < item[a].attemptCount

Calm(a) ==
  /\ \A p, q \in InFlight(a) : p = q
  /\ \A p \in InFlight(a) \cap Operators : OperatorAt(todo[p], a)
  /\ \A p \in InFlight(a) \cap Workers : WorkerAt(todo[p], a)
  /\ InFlight(a) = {} => AtRest(a)
  /\ FoundBefore(a)

CalmInv == \A a \in clean : Calm(a)

-----------------------------------------------------------------------------
(* PlanInv *)

LEMMA Tuples ==
  ASSUME NEW x, NEW y, NEW z
  PROVE  /\ Head(<<x>>) = x /\ Tail(<<x>>) = <<>> /\ <<x>> # <<>>
         /\ Head(<<x, y>>) = x /\ Tail(<<x, y>>) = <<y>> /\ <<x, y>> # <<>>
         /\ Head(<<x, y, z>>) = x /\ Tail(<<x, y, z>>) = <<y, z>> /\ <<x, y, z>> # <<>>
OBVIOUS

LEMMA Joined ==
  ASSUME NEW x, NEW y, NEW z
  PROVE  <<x>> \o <<y, z>> = <<x, y, z>>
<1> DEFINE S == {x, y, z}
<1>1. <<x>> \in Seq(S) /\ <<y, z>> \in Seq(S) /\ <<x, y, z>> \in Seq(S)
  OBVIOUS
<1>2. /\ Len(<<x>>) = 1 /\ Len(<<y, z>>) = 2 /\ Len(<<x, y, z>>) = 3
      /\ <<x>>[1] = x /\ <<y, z>>[1] = y /\ <<y, z>>[2] = z
      /\ <<x, y, z>>[1] = x /\ <<x, y, z>>[2] = y /\ <<x, y, z>>[3] = z
  OBVIOUS
<1> HIDE DEF S
<1>3. PICK s : s = <<x>> \o <<y, z>>
  OBVIOUS
<1>4. /\ s \in Seq(S) /\ Len(s) = 3
      /\ s[1] = x /\ s[2] = y /\ s[3] = z
  BY <1>1, <1>2, <1>3, ConcatProperties
<1>5. PICK u : u = <<x, y, z>>
  OBVIOUS
<1>6. \A i \in 1 .. 3 : s[i] = u[i]
  BY <1>2, <1>4, <1>5
<1> QED BY <1>1, <1>2, <1>3, <1>4, <1>5, <1>6, SeqEqual

\* A failure is retried or given up like a blocked delivery.
LEMMA FailurePlans ==
  ASSUME NEW a, NEW n, NEW b
  PROVE  FailureTasks(a, n, b) \in {BlockTasks(a, "failed", n), RetryTasks(a, n)}
BY Joined DEF FailureTasks, DeadLetterTasks, BlockTasks

\* What the next call of a request, its arguments and what is left tell.
LEMMA NextOfPlan ==
  ASSUME NEW p, NEW s, MayRun(p, s), s # <<>>, NEW t, t = Head(s)
  PROVE  /\ t.a \in Actions
         /\ t.op = "saveAction" =>
              \/ Tail(s) \in {<<>>, <<CancelItems(t.a)>>}
              \/ \E m \in Modes : Tail(s) = <<CreateItem(t.a, m)>>
         /\ t.op \in {"createItem", "cancelItems"} => Tail(s) = <<>>
         /\ t.op = "saveItem" =>
              /\ t.val \in SavedStatus /\ t.n \in 0 .. AttemptCap
              /\ t.val \in Delivered => t.n > 0
              /\ Evidence(t.a, t.val, t.n)
              /\ Tail(s) \in {<<>>, <<SaveAction(t.a, t.val)>>}
         /\ t.op = "saveAttempt" =>
              /\ p \in Workers
              /\ t.val \in AttemptState \ {"none"} /\ t.n \in 1 .. AttemptCap
              /\ t.val = "sandbox_delivered" => notes[t.a] > 0
              /\ \/ Tail(s) = <<>>
                 \/ \E st \in SavedStatus :
                      /\ st \in Delivered => st = t.val
                      /\ Tail(s) = <<SaveItem(t.a, st, t.n), SaveAction(t.a, st)>>
         /\ t.op \in {"claimRow", "deliver", "writeNote"} => p \in Workers /\ Present(t.a)
         /\ t.op = "claimRow" => t.read \in OpenStatus
<1> USE DEF SaveAction, CreateItem, SaveItem, SaveAttempt, CancelItems, ClaimRow, Deliver, WriteNote
<1>1. PICK a \in Actions :
         \/ RowPlan(s, a) \/ ItemPlan(s, a)
         \/ p \in Workers /\ (ClaimPlan(s, a) \/ AttemptPlan(s, a))
  BY DEF MayRun
<1>2. CASE RowPlan(s, a)
  <2>1. CASE \E v \in ActionStatus \ {"none"} : s = <<SaveAction(a, v)>>
    <3>1. PICK v \in ActionStatus \ {"none"} : s = <<SaveAction(a, v)>>
      BY <2>1
    <3>2. t = SaveAction(a, v) /\ Tail(s) = <<>>
      BY <3>1, Tuples
    <3> QED BY <3>2
  <2>2. ASSUME NEW m \in Modes, s = <<SaveAction(a, "queued"), CreateItem(a, m)>>
        PROVE  /\ t.a = a /\ t.op = "saveAction"
               /\ \E k \in Modes : Tail(s) = <<CreateItem(t.a, k)>>
    <3>1. t = SaveAction(a, "queued") /\ Tail(s) = <<CreateItem(a, m)>>
      BY <2>2, Tuples
    <3> QED BY <3>1
  <2>3. ASSUME NEW m \in Modes, s = <<CreateItem(a, m)>>
        PROVE  t.a = a /\ t.op = "createItem" /\ Tail(s) = <<>>
    BY <2>3, Tuples
  <2>4. ASSUME s = <<SaveAction(a, "cancelled"), CancelItems(a)>>
        PROVE  t.a = a /\ t.op = "saveAction" /\ Tail(s) = <<CancelItems(t.a)>>
    BY <2>4, Tuples
  <2>5. ASSUME s = <<CancelItems(a)>>
        PROVE  t.a = a /\ t.op = "cancelItems" /\ Tail(s) = <<>>
    BY <2>5, Tuples
  <2>6. ASSUME NEW n \in 0 .. AttemptCap, s = <<SaveItem(a, "cancelled", n)>>
        PROVE  /\ t.a = a /\ t.op = "saveItem" /\ t.val = "cancelled" /\ t.n = n
               /\ Tail(s) = <<>>
    BY <2>6, Tuples
  <2> QED BY <1>2, <2>1, <2>2, <2>3, <2>4, <2>5, <2>6
          DEF RowPlan, Evidence, SavedStatus, ItemStatus, Delivered
<1>3. CASE ItemPlan(s, a)
  BY <1>3, Tuples DEF ItemPlan
<1>4. CASE p \in Workers /\ ClaimPlan(s, a)
  BY <1>4, Tuples DEF ClaimPlan
<1>5. CASE p \in Workers /\ AttemptPlan(s, a)
  <2>1. PICK v \in AttemptState \ {"none"}, n \in 1 .. AttemptCap :
           /\ v = "sandbox_delivered" => notes[a] > 0
           /\ \/ s = <<SaveAttempt(a, v, n)>>
              \/ \E st \in SavedStatus :
                   /\ st \in Delivered => st = v
                   /\ s = <<SaveAttempt(a, v, n), SaveItem(a, st, n), SaveAction(a, st)>>
    BY <1>5 DEF AttemptPlan
  <2>2. CASE s = <<SaveAttempt(a, v, n)>>
    <3>1. t = SaveAttempt(a, v, n) /\ Tail(s) = <<>>
      BY <2>2, Tuples
    <3> QED BY <1>5, <2>1, <3>1
  <2>3. ASSUME NEW st \in SavedStatus, st \in Delivered => st = v,
               s = <<SaveAttempt(a, v, n), SaveItem(a, st, n), SaveAction(a, st)>>
        PROVE  /\ t = SaveAttempt(a, v, n)
               /\ \E x \in SavedStatus :
                    /\ x \in Delivered => x = v
                    /\ Tail(s) = <<SaveItem(a, x, n), SaveAction(a, x)>>
    BY <2>3, Tuples
  <2> QED BY <1>5, <2>1, <2>2, <2>3
<1> QED BY <1>1, <1>2, <1>3, <1>4, <1>5

\* Rows stay, notes stay, and a stored attempt is never written again.
Grows ==
  \A a \in Actions :
    /\ Present(a) => Present(a)'
    /\ notes[a] > 0 => notes'[a] > 0
    /\ \A n \in 1 .. AttemptCap :
         attempts[a][n] # "none" => attempts'[a][n] = attempts[a][n]

\* So a plan that may run may still run later.
LEMMA MayRunLater ==
  ASSUME Grows, NEW p, NEW s, MayRun(p, s)
  PROVE  MayRun(p, s)'
<1>1. CASE s = <<>>
  BY <1>1 DEF MayRun
<1>2. ASSUME NEW a \in Actions,
             \/ RowPlan(s, a) \/ ItemPlan(s, a)
             \/ p \in Workers /\ (ClaimPlan(s, a) \/ AttemptPlan(s, a))
      PROVE  MayRun(p, s)'
  <2>1. CASE RowPlan(s, a)
    <3>1. RowPlan(s, a)'
      BY <2>1 DEF RowPlan
    <3> QED BY <3>1 DEF MayRun
  <2>2. CASE ItemPlan(s, a)
    <3>1. ItemPlan(s, a)'
      BY <2>2 DEF ItemPlan, Evidence, Grows, Delivered
    <3> QED BY <3>1 DEF MayRun
  <2>3. CASE p \in Workers /\ ClaimPlan(s, a)
    <3>1. ClaimPlan(s, a)'
      BY <2>3 DEF ClaimPlan, Grows
    <3> QED BY <2>3, <3>1 DEF MayRun
  <2>4. CASE p \in Workers /\ AttemptPlan(s, a)
    <3>1. AttemptPlan(s, a)'
      BY <2>4 DEF AttemptPlan, Grows
    <3> QED BY <2>4, <3>1 DEF MayRun
  <2> QED BY <1>2, <2>1, <2>2, <2>3, <2>4
<1> QED BY <1>1, <1>2 DEF MayRun

\* A step that replaces the plan of one request.
LEMMA OthersMayRun ==
  ASSUME GateInv, PlanInv, Grows, NEW p \in Procs, NEW plan,
         todo' = [todo EXCEPT ![p] = plan], MayRun(p, plan)'
  PROVE  (\A q \in Procs : MayRun(q, todo[q]))'
<1>1. todo \in [Procs -> Seq(PermittedTask(reviewed))]
  BY DEF GateInv, Plans
<1>2. ASSUME NEW q \in Procs
      PROVE  MayRun(q, todo[q])'
  <2>1. CASE q = p
    BY <1>1, <2>1
  <2>2. CASE q # p
    <3>1. MayRun(q, todo[q])
      BY DEF PlanInv
    <3>2. PICK s : s = todo[q]
      OBVIOUS
    <3>3. MayRun(q, s)'
      BY <3>1, <3>2, MayRunLater
    <3>4. todo'[q] = s
      BY <1>1, <2>2, <3>2
    <3> QED BY <3>3, <3>4
  <2> QED BY <2>1, <2>2
<1> QED BY <1>2

LEMMA PlanReplacedOk ==
  ASSUME GateInv, PlanInv, Grows, DeliveredHasAttempt', NEW p \in Procs, NEW plan,
         todo' = [todo EXCEPT ![p] = plan], MayRun(p, plan)'
  PROVE  PlanInv'
BY OthersMayRun DEF PlanInv

LEMMA NothingWritten ==
  ASSUME PlanInv, UNCHANGED <<item, attempts, notes>>
  PROVE  Grows /\ DeliveredHasAttempt'
BY DEF PlanInv, DeliveredHasAttempt, Grows, Present

\* A step that writes no row and leaves a plan that may run.
LEMMA PlanChosen ==
  ASSUME GateInv, PlanInv, UNCHANGED <<item, attempts, notes>>, NEW p \in Procs, NEW plan,
         todo' = [todo EXCEPT ![p] = plan], MayRun(p, plan)
  PROVE  PlanInv'
BY NothingWritten, MayRunLater, PlanReplacedOk

LEMMA PlansStill ==
  ASSUME PlanInv, UNCHANGED <<item, attempts, notes, todo>>
  PROVE  PlanInv'
<1>1. Grows /\ DeliveredHasAttempt'
  BY NothingWritten
<1>2. ASSUME NEW p \in Procs
      PROVE  MayRun(p, todo[p])'
  <2>1. PICK s : s = todo[p]
    OBVIOUS
  <2>2. MayRun(p, s)'
    BY <1>1, <2>1, MayRunLater DEF PlanInv
  <2> QED BY <2>1, <2>2
<1> QED BY <1>1, <1>2 DEF PlanInv

\* The plans of people.
LEMMA OperatorPlans ==
  ASSUME GateInv, PlanInv, NEW p \in Operators, NEW a \in Actions,
         \/ SubmitForReview(p, a) \/ Approve(p, a) \/ Reject(p, a)
         \/ Queue(p, a) \/ Cancel(p, a)
         \/ RetryOutbox(p, a) \/ CancelOutbox(p, a) \/ DeadLetterOutbox(p, a)
  PROVE  PlanInv'
<1>1. PICK n \in 0 .. AttemptCap : n = item[a].attemptCount
  BY DEF GateInv, RowsTyped, Item
<1>2. PICK m \in Modes : m = DeliveryMode(QueueDecision)
  BY DEF DeliveryMode
<1> DEFINE plans == { <<SaveAction(a, "review_required")>>, <<SaveAction(a, "approved")>>,
                      <<SaveAction(a, "rejected")>>,
                      <<SaveAction(a, "queued"), CreateItem(a, m)>>,
                      <<SaveAction(a, "cancelled"), CancelItems(a)>>,
                      <<SaveItem(a, "queued", n), SaveAction(a, "queued")>>,
                      <<SaveItem(a, "cancelled", n), SaveAction(a, "cancelled")>>,
                      <<SaveItem(a, "dead_lettered", n), SaveAction(a, "dead_lettered")>> }
<1>3. \E plan \in plans : Operate(p, a, plan)
  BY <1>1, <1>2 DEF SubmitForReview, Approve, Reject, Queue, Cancel, RetryOutbox, CancelOutbox,
     DeadLetterOutbox, DeadLetterTasks
<1>4. PICK plan \in plans : Operate(p, a, plan)
  BY <1>3
<1>5. RowPlan(plan, a) \/ ItemPlan(plan, a)
  BY <1>1, <1>2 DEF RowPlan, ItemPlan, Evidence, SavedStatus, ItemStatus, ActionStatus, Delivered
<1>6. MayRun(p, plan)
  BY <1>5 DEF MayRun
<1>7. UNCHANGED <<item, attempts, notes>> /\ todo' = [todo EXCEPT ![p] = plan]
  BY <1>4 DEF Operate, Begin
<1> QED BY <1>6, <1>7, PlanChosen

LEMMA FindPlans ==
  ASSUME GateInv, PlanInv, NEW p \in Workers, NEW a \in Actions, NEW o \in DeliveryOptions,
         FindCandidate(p, a, o)
  PROVE  PlanInv'
<1> USE OutboxAssumption
<1>1. item[a] \in Item /\ item[a].attemptCount < MaxAttempts /\ item[a].status \in OpenStatus
  BY DEF GateInv, RowsTyped, FindCandidate, Eligible, Matching, OpenStatus
<1>2. PICK n \in 0 .. MaxAttempts - 1 : n = item[a].attemptCount
  BY <1>1 DEF Item
<1>3. PICK r \in OpenStatus : r = item[a].status
  BY <1>1
<1>4. PICK plan : plan = <<ClaimRow(a, o, n, r)>>
  OBVIOUS
<1>5. MayRun(p, plan)
  BY <1>1, <1>4 DEF MayRun, ClaimPlan, Present, OpenStatus
<1>6. UNCHANGED <<item, attempts, notes>> /\ todo' = [todo EXCEPT ![p] = plan]
  BY <1>2, <1>3, <1>4 DEF FindCandidate, Begin
<1> QED BY <1>5, <1>6, PlanChosen

\* An idle request may do nothing.
LEMMA IdleMayRun == ASSUME NEW p PROVE MayRun(p, <<>>)
BY DEF MayRun

LEMMA ClaimPlans ==
  ASSUME GateInv, PlanInv, NEW p \in Procs, DoClaimRow(p)
  PROVE  PlanInv'
<1> USE OutboxAssumption
<1>1. PICK s : s = todo[p]
  OBVIOUS
<1>2. PICK t : t = Head(s)
  OBVIOUS
<1>3. s # <<>> /\ t.op = "claimRow" /\ MayRun(p, s) /\ t \in PermittedTask(reviewed)
  BY <1>1, <1>2, NextCall DEF GateInv, PlanInv, DoClaimRow, At, Idle
<1>4. t.a \in Actions /\ p \in Workers /\ Present(t.a) /\ t.val \in DeliveryOptions
  BY <1>2, <1>3, NextOfPlan, CallArguments
<1>5. PICK n \in 0 .. MaxAttempts : n = item[t.a].attemptCount
  BY <1>1, <1>2, <1>4 DEF GateInv, RowsTyped, Item, DoClaimRow
<1>6. CASE UNCHANGED <<item, clean>> /\ Continue(p, <<>>)
  BY <1>6, IdleMayRun, PlanChosen DEF Continue, DoClaimRow
<1>7. CASE /\ item' = [item EXCEPT ![t.a].status = "processing", ![t.a].lock = "live"]
           /\ Continue(p, <<Deliver(t.a, t.val, n)>>)
  <2>1. PICK plan : plan = <<Deliver(t.a, t.val, n)>>
    OBVIOUS
  <2>2. /\ \A a \in Actions : a # t.a => item'[a] = item[a]
        /\ item'[t.a].status = "processing"
    BY <1>4, <1>7 DEF GateInv, RowsTyped, Item
  <2>3. UNCHANGED <<attempts, notes>>
    BY DEF DoClaimRow
  <2>4. Grows /\ DeliveredHasAttempt'
    BY <2>2, <2>3 DEF PlanInv, Grows, Present, DeliveredHasAttempt, Delivered
  <2>5. MayRun(p, plan)
    BY <1>4, <2>1 DEF MayRun, ClaimPlan
  <2> QED BY <1>7, <2>1, <2>4, <2>5, MayRunLater, PlanReplacedOk DEF Continue
<1> QED BY <1>1, <1>2, <1>5, <1>6, <1>7 DEF DoClaimRow

\* Whatever becomes of a delivery, its plan saves the attempt first.
LEMMA OutcomesMayRun ==
  ASSUME NEW p \in Workers, NEW a \in Actions, NEW n \in 0 .. MaxAttempts
  PROVE  /\ \A v \in {"failed", "policy_blocked"} : MayRun(p, BlockTasks(a, v, n))
         /\ MayRun(p, SuccessTasks(a, "mock_delivered", n))
         /\ notes[a] > 0 => MayRun(p, SuccessTasks(a, "sandbox_delivered", n))
         /\ MayRun(p, RetryTasks(a, n))
         /\ \A b \in BOOLEAN : MayRun(p, FailureTasks(a, n, b))
         /\ MayRun(p, DryRunTasks(a, n))
<1> USE OutboxAssumption
<1>1. n + 1 \in 1 .. AttemptCap
  OBVIOUS
<1>2. ASSUME NEW v \in AttemptState \ {"none"}, v = "sandbox_delivered" => notes[a] > 0,
             NEW st \in SavedStatus, st \in Delivered => st = v, NEW s,
             s = <<SaveAttempt(a, v, n + 1), SaveItem(a, st, n + 1), SaveAction(a, st)>>
      PROVE  MayRun(p, s)
  <2>1. AttemptPlan(s, a)
    BY <1>1, <1>2 DEF AttemptPlan
  <2> QED BY <2>1 DEF MayRun
<1>3. \A v \in {"failed", "policy_blocked"} : MayRun(p, BlockTasks(a, v, n))
  BY <1>2 DEF BlockTasks, AttemptState, SavedStatus, ItemStatus, Delivered
<1>4. /\ MayRun(p, SuccessTasks(a, "mock_delivered", n))
      /\ notes[a] > 0 => MayRun(p, SuccessTasks(a, "sandbox_delivered", n))
  BY <1>2 DEF SuccessTasks, AttemptState, SavedStatus, ItemStatus, Delivered
<1>5. MayRun(p, RetryTasks(a, n))
  BY <1>2 DEF RetryTasks, AttemptState, SavedStatus, ItemStatus, Delivered
<1>6. \A b \in BOOLEAN : MayRun(p, FailureTasks(a, n, b))
  BY <1>3, <1>5, FailurePlans
<1>7. MayRun(p, DryRunTasks(a, n))
  <2>1. AttemptPlan(DryRunTasks(a, n), a)
    BY <1>1 DEF AttemptPlan, DryRunTasks, AttemptState
  <2> QED BY <2>1 DEF MayRun
<1> QED BY <1>3, <1>4, <1>5, <1>6, <1>7

LEMMA ProcessPlans ==
  ASSUME GateInv, PlanInv, NEW p \in Procs, ProcessClaimed(p)
  PROVE  PlanInv'
<1>1. PICK s : s = todo[p]
  OBVIOUS
<1>2. PICK t : t = Head(s)
  OBVIOUS
<1>3. s # <<>> /\ t.op = "deliver" /\ MayRun(p, s) /\ t \in PermittedTask(reviewed)
  BY <1>1, <1>2, NextCall DEF GateInv, PlanInv, ProcessClaimed, At, Idle
<1>4. /\ t.a \in Actions /\ p \in Workers /\ Present(t.a)
      /\ t.val \in DeliveryOptions /\ t.n \in 0 .. MaxAttempts
  BY <1>2, <1>3, NextOfPlan, CallArguments
<1>5. PICK plan \in DeliveryPlans(t.a, t.val, t.n) : Continue(p, plan)
  BY <1>1, <1>2 DEF ProcessClaimed
<1>6. MayRun(p, plan)
  <2>1. MayRun(p, <<WriteNote(t.a, t.n)>>)
    BY <1>4 DEF MayRun, ClaimPlan
  <2>2. MayRun(p, MockTasks(t.a, t.val, t.n))
    BY <1>4, OutcomesMayRun DEF MockTasks
  <2> QED BY <1>4, <1>5, <2>1, <2>2, OutcomesMayRun DEF DeliveryPlans, SandboxPlans, CredentialPlans
<1> QED BY <1>5, <1>6, PlanChosen DEF ProcessClaimed, Continue

LEMMA NotePlans ==
  ASSUME GateInv, PlanInv, NEW p \in Procs, NoteWritten(p) \/ NoteRefused(p) \/ NoteReplyLost(p)
  PROVE  PlanInv'
<1> USE OutboxAssumption
<1>1. PICK s : s = todo[p]
  OBVIOUS
<1>2. PICK t : t = Head(s)
  OBVIOUS
<1>3. s # <<>> /\ t.op = "writeNote" /\ MayRun(p, s) /\ t \in PermittedTask(reviewed)
  BY <1>1, <1>2, NextCall DEF GateInv, PlanInv, NoteWritten, NoteRefused, NoteReplyLost, At, Idle
<1>4. t.a \in Actions /\ p \in Workers /\ t.n \in 0 .. MaxAttempts
  BY <1>2, <1>3, NextOfPlan, CallArguments
<1>5. /\ UNCHANGED <<item, attempts>>
      /\ \/ notes' = [notes EXCEPT ![t.a] = Counted(notes[t.a])]
         \/ notes' = notes /\ ~NoteWritten(p)
  BY <1>1, <1>2 DEF NoteWritten, NoteRefused, NoteReplyLost
<1>6. notes[t.a] \in 0 .. NoteCap /\ Counted(notes[t.a]) > 0
  BY <1>4 DEF GateInv, RowsTyped, Counted
<1>7. Grows /\ DeliveredHasAttempt'
  BY <1>4, <1>5, <1>6 DEF GateInv, RowsTyped, PlanInv, Grows, Present, DeliveredHasAttempt
<1>8. CASE NoteWritten(p)
  <2>1. PICK plan : plan = SuccessTasks(t.a, "sandbox_delivered", t.n)
    OBVIOUS
  <2>2. notes'[t.a] > 0
    BY <1>1, <1>2, <1>4, <1>6, <1>8 DEF NoteWritten, GateInv, RowsTyped
  <2>3. t.n + 1 \in 1 .. AttemptCap
    BY <1>4
  <2>4. AttemptPlan(plan, t.a)'
    BY <2>1, <2>2, <2>3
       DEF AttemptPlan, SuccessTasks, AttemptState, SavedStatus, ItemStatus, Delivered
  <2>5. MayRun(p, plan)'
    BY <1>4, <2>4 DEF MayRun
  <2>6. todo' = [todo EXCEPT ![p] = plan]
    BY <1>1, <1>2, <1>8, <2>1 DEF NoteWritten, Continue
  <2> QED BY <1>7, <2>5, <2>6, PlanReplacedOk
<1>9. CASE NoteRefused(p) \/ NoteReplyLost(p)
  <2>1. PICK plan : plan = FailureTasks(t.a, t.n, TRUE)
    OBVIOUS
  <2>2. MayRun(p, plan)'
    BY <1>4, <1>7, <2>1, OutcomesMayRun, MayRunLater
  <2>3. todo' = [todo EXCEPT ![p] = plan]
    BY <1>1, <1>2, <1>9, <2>1 DEF NoteRefused, NoteReplyLost, Continue
  <2> QED BY <1>7, <2>2, <2>3, PlanReplacedOk
<1> QED BY <1>8, <1>9

LEMMA SaveActionPlans ==
  ASSUME GateInv, PlanInv, NEW p \in Procs, DoSaveAction(p)
  PROVE  PlanInv'
<1>1. PICK s : s = todo[p]
  OBVIOUS
<1>2. PICK t : t = Head(s)
  OBVIOUS
<1>3. PICK plan : plan = Tail(s)
  OBVIOUS
<1>4. s # <<>> /\ t.op = "saveAction" /\ MayRun(p, s)
  BY <1>1, <1>2 DEF PlanInv, DoSaveAction, At, Idle
<1>5. t.a \in Actions /\ MayRun(p, plan)
  BY <1>2, <1>3, <1>4, NextOfPlan DEF MayRun, RowPlan
<1> QED BY <1>1, <1>3, <1>5, PlanChosen DEF DoSaveAction, Advance

LEMMA CreateItemPlans ==
  ASSUME GateInv, PlanInv, NEW p \in Procs, DoCreateItem(p)
  PROVE  PlanInv'
<1>1. PICK s : s = todo[p]
  OBVIOUS
<1>2. PICK t : t = Head(s)
  OBVIOUS
<1>3. s # <<>> /\ t.op = "createItem" /\ MayRun(p, s)
  BY <1>1, <1>2 DEF PlanInv, DoCreateItem, At, Idle
<1>4. t.a \in Actions /\ Tail(s) = <<>>
  BY <1>2, <1>3, NextOfPlan
<1>5. \A a \in Actions : item'[a] = item[a] \/ item'[a].status = "queued"
  BY <1>1, <1>2, <1>4 DEF DoCreateItem, GateInv, RowsTyped, NoItem
<1>6. UNCHANGED <<attempts, notes>> /\ todo' = [todo EXCEPT ![p] = <<>>]
  BY <1>1, <1>4 DEF DoCreateItem, Advance
<1>7. Grows /\ DeliveredHasAttempt'
  BY <1>5, <1>6 DEF PlanInv, Grows, Present, DeliveredHasAttempt, Delivered
<1> QED BY <1>6, <1>7, IdleMayRun, MayRunLater, PlanReplacedOk

\* The row that says delivered is saved over the evidence its plan has.
LEMMA SaveItemPlans ==
  ASSUME GateInv, PlanInv, NEW p \in Procs, DoSaveItem(p)
  PROVE  PlanInv'
<1>1. PICK s : s = todo[p]
  OBVIOUS
<1>2. PICK t : t = Head(s)
  OBVIOUS
<1>3. PICK plan : plan = Tail(s)
  OBVIOUS
<1>4. s # <<>> /\ t.op = "saveItem" /\ MayRun(p, s)
  BY <1>1, <1>2 DEF PlanInv, DoSaveItem, At, Idle
<1>5. /\ t.a \in Actions /\ t.val \in SavedStatus /\ t.n \in 0 .. AttemptCap
      /\ t.val \in Delivered => t.n > 0
      /\ Evidence(t.a, t.val, t.n)
      /\ plan \in {<<>>, <<SaveAction(t.a, t.val)>>}
  BY <1>2, <1>3, <1>4, NextOfPlan
<1>6. MayRun(p, plan)
  BY <1>5 DEF MayRun, RowPlan, SavedStatus, ItemStatus, ActionStatus
<1>7. /\ \A a \in Actions : a # t.a => item'[a] = item[a]
      /\ item'[t.a].status = t.val
  BY <1>1, <1>2, <1>5 DEF DoSaveItem, GateInv, RowsTyped, Item
<1>8. UNCHANGED <<attempts, notes>> /\ todo' = [todo EXCEPT ![p] = plan]
  BY <1>1, <1>3 DEF DoSaveItem, Advance
<1>9. Grows
  BY <1>5, <1>7, <1>8 DEF Grows, Present, SavedStatus
<1>10. DeliveredHasAttempt'
  <2>1. t.val \in Delivered =>
          /\ \E n \in 1 .. AttemptCap : attempts[t.a][n] = t.val
          /\ t.val = "sandbox_delivered" => notes[t.a] > 0
    BY <1>5 DEF Evidence
  <2> QED BY <1>7, <1>8, <2>1 DEF PlanInv, DeliveredHasAttempt
<1> QED BY <1>6, <1>8, <1>9, <1>10, MayRunLater, PlanReplacedOk

LEMMA CancelItemsPlans ==
  ASSUME GateInv, PlanInv, NEW p \in Procs, DoCancelItems(p)
  PROVE  PlanInv'
<1>1. PICK a : a = Head(todo[p]).a
  OBVIOUS
<1>2. a \in Actions
  BY <1>1, NextCall, CallArguments DEF GateInv, DoCancelItems, At
<1>3. PICK n \in 0 .. AttemptCap : n = item[a].attemptCount
  BY <1>2 DEF GateInv, RowsTyped, Item
<1>4. PICK plan \in {<<>>, <<SaveItem(a, "cancelled", n)>>} : Continue(p, plan)
  BY <1>1, <1>3 DEF DoCancelItems
<1>5. MayRun(p, plan)
  BY <1>2, <1>4 DEF MayRun, RowPlan
<1> QED BY <1>4, <1>5, PlanChosen DEF DoCancelItems, Continue

\* A stored attempt is the evidence of the row saved next; when its number is
\* taken, nothing of the plan is left that reports the delivery.
LEMMA SaveAttemptPlans ==
  ASSUME GateInv, PlanInv, NEW p \in Procs, DoSaveAttempt(p) \/ AttemptSaveFails(p)
  PROVE  PlanInv'
<1> USE OutboxAssumption
<1>1. PICK s : s = todo[p]
  OBVIOUS
<1>2. PICK t : t = Head(s)
  OBVIOUS
<1>3. s # <<>> /\ t.op = "saveAttempt" /\ MayRun(p, s)
  BY <1>1, <1>2 DEF PlanInv, DoSaveAttempt, AttemptSaveFails, At, Idle
<1>4. /\ t.a \in Actions /\ p \in Workers
      /\ t.val \in AttemptState \ {"none"} /\ t.n \in 1 .. AttemptCap
      /\ t.val = "sandbox_delivered" => notes[t.a] > 0
      /\ \/ Tail(s) = <<>>
         \/ \E st \in SavedStatus :
              /\ st \in Delivered => st = t.val
              /\ Tail(s) = <<SaveItem(t.a, st, t.n), SaveAction(t.a, st)>>
  BY <1>2, <1>3, NextOfPlan
<1>5. CASE UNCHANGED <<item, attempts, notes>>
           /\ (Continue(p, <<>>) \/ Continue(p, FailureTasks(t.a, t.n - 1, TRUE)))
  <2>1. PICK k \in 0 .. MaxAttempts : k = t.n - 1
    BY <1>4
  <2>2. PICK plan \in {<<>>, FailureTasks(t.a, k, TRUE)} : todo' = [todo EXCEPT ![p] = plan]
    BY <1>5, <2>1 DEF Continue
  <2>3. MayRun(p, plan)
    BY <1>4, <2>2, IdleMayRun, OutcomesMayRun
  <2> QED BY <1>5, <2>2, <2>3, PlanChosen
<1>6. CASE /\ attempts[t.a][t.n] = "none"
           /\ attempts' = [attempts EXCEPT ![t.a][t.n] = t.val]
           /\ UNCHANGED <<item, notes>> /\ Advance(p)
  <2>1. PICK plan : plan = Tail(s)
    OBVIOUS
  <2>2. /\ attempts'[t.a][t.n] = t.val
        /\ \A a \in Actions, n \in 1 .. AttemptCap :
             attempts[a][n] # "none" => attempts'[a][n] = attempts[a][n]
    BY <1>4, <1>6 DEF GateInv, RowsTyped
  <2>3. Grows
    BY <1>6, <2>2 DEF Grows, Present
  <2>4. DeliveredHasAttempt'
    BY <1>6, <2>2 DEF PlanInv, DeliveredHasAttempt, Delivered
  <2>5. MayRun(p, plan)'
    <3>1. ASSUME NEW st \in SavedStatus, st \in Delivered => st = t.val,
                 plan = <<SaveItem(t.a, st, t.n), SaveAction(t.a, st)>>
          PROVE  ItemPlan(plan, t.a)'
      BY <1>4, <1>6, <2>2, <3>1 DEF ItemPlan, Evidence, Delivered
    <3> QED BY <1>4, <2>1, <3>1 DEF MayRun
  <2>6. todo' = [todo EXCEPT ![p] = plan]
    BY <1>1, <1>6, <2>1 DEF Advance
  <2> QED BY <2>3, <2>4, <2>5, <2>6, PlanReplacedOk
<1> QED BY <1>1, <1>2, <1>5, <1>6 DEF DoSaveAttempt, AttemptSaveFails

LEMMA TimePlans ==
  ASSUME GateInv, PlanInv, NEW a \in Actions, LockExpires(a) \/ BackoffElapses(a)
  PROVE  PlanInv'
<1>1. UNCHANGED <<attempts, notes, todo>>
  BY DEF LockExpires, BackoffElapses
<1>2. \A b \in Actions : item'[b].status = item[b].status
  <2>1. item[a] \in Item /\ item \in [Actions -> Item]
    BY DEF GateInv, RowsTyped
  <2>2. \/ item' = [item EXCEPT ![a] = [item[a] EXCEPT !.lock = "expired"]]
        \/ item' = [item EXCEPT ![a] = [item[a] EXCEPT !.waiting = FALSE]]
    BY <2>1 DEF LockExpires, BackoffElapses
  <2>3. /\ [item[a] EXCEPT !.lock = "expired"].status = item[a].status
        /\ [item[a] EXCEPT !.waiting = FALSE].status = item[a].status
    BY <2>1 DEF Item
  <2> QED BY <2>1, <2>2, <2>3
<1>3. Grows /\ DeliveredHasAttempt'
  BY <1>1, <1>2 DEF PlanInv, Grows, Present, DeliveredHasAttempt
<1>4. ASSUME NEW p \in Procs
      PROVE  MayRun(p, todo[p])'
  <2>1. PICK s : s = todo[p]
    OBVIOUS
  <2> QED BY <1>1, <1>3, <2>1, MayRunLater DEF PlanInv
<1> QED BY <1>3, <1>4 DEF PlanInv

LEMMA PlanInit == ASSUME Init PROVE PlanInv
BY DEF Init, PlanInv, DeliveredHasAttempt, Delivered, NoItem, MayRun

LEMMA PlanStep == ASSUME GateInv, PlanInv, [Next]_vars PROVE PlanInv'
<1>1. CASE OperatorStep
  <2>1. ASSUME NEW a \in Actions, CreateAction(a)
        PROVE  PlanInv'
    BY <2>1, PlansStill DEF CreateAction
  <2> QED BY <1>1, <2>1, OperatorPlans DEF OperatorStep
<1>2. CASE PolicyStep
  BY <1>2, PlansStill DEF PolicyStep, SetPolicy
<1>3. ASSUME NEW p \in Workers, ClaimStep(p) \/ \E a \in Actions : MockDeliver(p, a)
      PROVE  PlanInv'
  <2>1. \E a \in Actions, o \in DeliveryOptions : FindCandidate(p, a, o)
    BY <1>3 DEF ClaimStep, ProcessOnce, ProcessItem, MockDeliver, Options
  <2> QED BY <2>1, FindPlans
<1>4. ASSUME NEW p \in Procs, RequestStep(p)
      PROVE  PlanInv'
  BY <1>4, ClaimPlans, ProcessPlans, NotePlans, SaveActionPlans, CreateItemPlans, SaveItemPlans,
     CancelItemsPlans, SaveAttemptPlans DEF RequestStep
<1>5. ASSUME NEW p \in Procs, Abort(p)
      PROVE  PlanInv'
  BY <1>5, IdleMayRun, PlanChosen DEF Abort, Continue
<1>6. CASE TimeStep
  BY <1>6, TimePlans DEF TimeStep
<1>7. CASE UNCHANGED vars
  BY <1>7, PlansStill DEF vars
<1> QED BY <1>1, <1>2, <1>3, <1>4, <1>5, <1>6, <1>7 DEF Next

\* A row that says delivered has the attempt that says so, and a sandbox
\* delivery its note, however requests interleave, die or are retried: every
\* plan saves the attempt before the row, and no stored attempt is rewritten.
THEOREM DeliveryIsEvidenced == Spec => []DeliveredHasAttempt
<1>1. Spec => []PlanInv
  BY GateInvAlways, PlanInit, PlanStep, PTL DEF Spec
<1>2. PlanInv => DeliveredHasAttempt
  BY DEF PlanInv
<1> QED BY <1>1, <1>2, PTL

-----------------------------------------------------------------------------
(* CalmInv: what a step leaves alone *)

SameRows(b) ==
  /\ action'[b] = action[b] /\ item'[b] = item[b]
  /\ attempts'[b] = attempts[b] /\ notes'[b] = notes[b]

\* Where a request or a row stands depends on the rows of its action only.
LEMMA StandsStill ==
  ASSUME NEW b \in Actions, SameRows(b), NEW u
  PROVE  /\ OperatorAt(u, b) => OperatorAt(u, b)'
         /\ WorkerAt(u, b) => WorkerAt(u, b)'
         /\ AtRest(b) => AtRest(b)'
<1>1. Kept(b)' <=> Kept(b)
  BY DEF SameRows, Kept, Numbered
<1>2. \A k \in Nat : Numbered(b, k)' <=> Numbered(b, k)
  BY DEF SameRows, Numbered
<1>3. OperatorAt(u, b) => OperatorAt(u, b)'
  BY <1>1 DEF OperatorAt, SameRows
<1>4. WorkerAt(u, b) => WorkerAt(u, b)'
  <2>1. Holding(u, b) => Holding(u, b)'
    BY DEF Holding, SameRows, Numbered
  <2> QED BY <1>1, <2>1 DEF WorkerAt, SameRows
<1>5. AtRest(b) => AtRest(b)'
  BY <1>1 DEF AtRest, SameRows
<1> QED BY <1>3, <1>4, <1>5

\* The same requests are on their way to b, and no new claim has found it.
LEMMA CalmIfSame ==
  ASSUME NEW b \in Actions, Calm(b), SameRows(b),
         InFlight(b)' = InFlight(b),
         \A q \in InFlight(b) : todo'[q] = todo[q],
         \A q \in Procs : (At(q, "claimRow") /\ Head(todo[q]).a = b)' => todo'[q] = todo[q]
  PROVE  Calm(b)'
<1>1. ASSUME NEW q \in InFlight(b)
      PROVE  /\ OperatorAt(todo[q], b) => OperatorAt(todo[q], b)'
             /\ WorkerAt(todo[q], b) => WorkerAt(todo[q], b)'
  <2>1. PICK u : u = todo[q]
    OBVIOUS
  <2>2. todo'[q] = u
    BY <2>1
  <2> QED BY <2>1, <2>2, StandsStill
<1>2. (\A q \in InFlight(b) \cap Operators : OperatorAt(todo[q], b))'
  BY <1>1 DEF Calm
<1>3. (\A q \in InFlight(b) \cap Workers : WorkerAt(todo[q], b))'
  BY <1>1 DEF Calm
<1>4. (InFlight(b) = {} => AtRest(b))'
  BY StandsStill DEF Calm
<1>5. FoundBefore(b)'
  <2>1. ASSUME NEW q \in Procs, (At(q, "claimRow") /\ Head(todo[q]).a = b)'
        PROVE  /\ At(q, "claimRow") /\ Head(todo[q]).a = b
               /\ Head(todo'[q]) = Head(todo[q])
    BY <2>1 DEF At, Idle
  <2> QED BY <2>1 DEF FoundBefore, Calm, SameRows
<1> QED BY <1>2, <1>3, <1>4, <1>5 DEF Calm

\* The plan of one request on a changes: nothing happens to other actions.
LEMMA CalmElsewhere ==
  ASSUME GateInv, NEW p \in Procs, NEW a, NEW plan,
         Idle(p) \/ Head(todo[p]).a = a,
         plan = <<>> \/ Head(plan).a = a,
         todo' = [todo EXCEPT ![p] = plan],
         NEW b \in Actions, b # a, SameRows(b), Calm(b)
  PROVE  Calm(b)'
<1>1. /\ todo'[p] = plan
      /\ \A q \in Procs : q # p => todo'[q] = todo[q]
  BY DEF GateInv, Plans
<1>2. p \notin InFlight(b) /\ p \notin InFlight(b)'
  BY <1>1 DEF InFlight, Idle
<1>3. \A q \in Procs : q # p => (q \in InFlight(b)' <=> q \in InFlight(b))
  BY <1>1 DEF InFlight, At, Idle
<1>4. InFlight(b)' = InFlight(b)
  BY <1>2, <1>3 DEF InFlight
<1>5. \A q \in InFlight(b) : todo'[q] = todo[q]
  BY <1>1, <1>2 DEF InFlight
<1>6. \A q \in Procs : (At(q, "claimRow") /\ Head(todo[q]).a = b)' => todo'[q] = todo[q]
  BY <1>1 DEF At, Idle
<1> QED BY <1>4, <1>5, <1>6, CalmIfSame

\* A row is never taken back to an earlier attempt, and a retry that is newly
\* scheduled is a new attempt.
Onward(a) ==
  /\ item'[a].attemptCount >= item[a].attemptCount
  /\ item'[a].waiting => item[a].waiting \/ item'[a].attemptCount > item[a].attemptCount

\* So every claim still found the row before.
LEMMA StillFoundBefore ==
  ASSUME GateInv, NEW a \in Actions, FoundBefore(a), Onward(a),
         item'[a].attemptCount \in Nat,
         \A q \in Procs : (At(q, "claimRow") /\ Head(todo[q]).a = a)' => todo'[q] = todo[q]
  PROVE  FoundBefore(a)'
<1> USE OutboxAssumption
<1> SUFFICES ASSUME NEW q \in Procs, (At(q, "claimRow") /\ Head(todo[q]).a = a)'
             PROVE  /\ Head(todo'[q]).n <= item'[a].attemptCount
                    /\ item'[a].waiting => Head(todo'[q]).n < item'[a].attemptCount
  BY DEF FoundBefore
<1>1. At(q, "claimRow") /\ Head(todo[q]).a = a /\ Head(todo'[q]) = Head(todo[q])
  BY DEF At, Idle
<1>2. Head(todo[q]).n \in Nat
  BY <1>1, NextCall, CallArguments DEF GateInv, At
<1>3. item[a].attemptCount \in Nat
  BY DEF GateInv, RowsTyped, Item
<1> QED BY <1>1, <1>2, <1>3 DEF FoundBefore, Onward

\* The one request on its way to a makes its call and goes on with plan.
LEMMA CalmGoesOn ==
  ASSUME GateInv, GateInv', CalmInv, NEW p \in Procs, NEW a \in Actions, NEW plan,
         ~Idle(p), Head(todo[p]).a = a, ~At(p, "claimRow"),
         plan = <<>> \/ (Head(plan).a = a /\ Head(plan).op # "claimRow"),
         todo' = [todo EXCEPT ![p] = plan],
         \A b \in Actions : b # a => SameRows(b),
         clean' \subseteq clean,
         a \in clean' =>
           /\ Onward(a)
           /\ plan = <<>> => AtRest(a)'
           /\ plan # <<>> /\ p \in Operators => OperatorAt(plan, a)'
           /\ plan # <<>> /\ p \in Workers => WorkerAt(plan, a)'
  PROVE  CalmInv'
<1> SUFFICES ASSUME NEW b \in Actions, b \in clean' PROVE Calm(b)'
  BY DEF CalmInv, GateInv, RowsTyped
<1>1. Calm(b)
  BY DEF CalmInv
<1>2. CASE b # a
  BY <1>1, <1>2, CalmElsewhere
<1>3. CASE b = a
  <2>1. /\ todo'[p] = plan
        /\ \A q \in Procs : q # p => todo'[q] = todo[q]
    BY DEF GateInv, Plans
  <2>2. p \in InFlight(a)
    BY DEF InFlight
  <2>3. InFlight(a) = {p}
    BY <1>1, <1>3, <2>2 DEF Calm, InFlight
  <2>4. \A q \in Procs : q # p => q \notin InFlight(a)'
    BY <2>1, <2>3 DEF InFlight, At, Idle
  <2>5. p \in InFlight(a)' <=> plan # <<>>
    BY <2>1 DEF InFlight, At, Idle
  <2>6. InFlight(a)' \subseteq {p}
    BY <2>4 DEF InFlight
  <2>7. \A q \in Procs : (At(q, "claimRow") /\ Head(todo[q]).a = a)' => todo'[q] = todo[q]
    BY <2>1 DEF At, Idle
  <2>8. item'[a].attemptCount \in Nat
    BY DEF GateInv, RowsTyped, Item
  <2>9. FoundBefore(a)'
    BY <1>1, <1>3, <2>7, <2>8, StillFoundBefore DEF Calm
  <2>10. /\ plan # <<>> /\ p \in Operators => OperatorAt(todo[p], a)'
         /\ plan # <<>> /\ p \in Workers => WorkerAt(todo[p], a)'
    BY <1>3, <2>1
  <2> QED BY <1>3, <2>5, <2>6, <2>9, <2>10 DEF Calm
<1> QED BY <1>2, <1>3

-----------------------------------------------------------------------------
(* CalmInv: what the next call of an undisturbed request tells *)

LEMMA OperatorNext ==
  ASSUME NEW a, NEW s, OperatorAt(s, a), NEW t, t = Head(s)
  PROVE  /\ Kept(a) /\ t.a = a /\ s # <<>>
         /\ t.op \in {"saveAction", "createItem", "cancelItems", "saveItem"}
         /\ t.op = "saveAction" =>
              \/ /\ Tail(s) = <<>>
                 /\ \/ /\ item[a].status = "absent"
                       /\ t.val \in {"review_required", "approved", "rejected"}
                    \/ t.val = item[a].status
              \/ /\ \E m \in Modes : Tail(s) = <<CreateItem(a, m)>>
                 /\ t.val = "queued" /\ item[a].status = "absent"
              \/ /\ Tail(s) = <<CancelItems(a)>> /\ t.val = "cancelled"
                 /\ item[a].status \in {"absent", "queued", "retry_scheduled", "dead_lettered"}
         /\ t.op = "createItem" =>
              /\ Tail(s) = <<>> /\ item[a].status = "absent" /\ action[a] = "queued"
              /\ t.val \in Modes
         /\ t.op = "cancelItems" =>
              /\ Tail(s) = <<>> /\ action[a] = "cancelled"
              /\ item[a].status \in {"absent", "queued", "retry_scheduled", "dead_lettered"}
         /\ t.op = "saveItem" =>
              /\ t.n = item[a].attemptCount
              /\ \/ /\ t.val = "cancelled" /\ item[a].status \in {"queued", "retry_scheduled"}
                    /\ \/ Tail(s) = <<>> /\ action[a] = "cancelled"
                       \/ Tail(s) = <<SaveAction(a, "cancelled")>>
                 \/ /\ t.val = "queued" /\ item[a].status \in {"retry_scheduled", "dead_lettered"}
                    /\ Tail(s) = <<SaveAction(a, "queued")>>
                 \/ /\ t.val = "dead_lettered" /\ item[a].status = "retry_scheduled"
                    /\ Tail(s) = <<SaveAction(a, "dead_lettered")>>
<1> USE DEF SaveAction, CreateItem, SaveItem, CancelItems
<1>1. PICK st : st = item[a].status
  OBVIOUS
<1>2. PICK n : n = item[a].attemptCount
  OBVIOUS
<1>3. CASE /\ st = "absent"
           /\ \/ \E v \in {"review_required", "approved", "rejected"} : s = <<SaveAction(a, v)>>
              \/ \E m \in Modes : s = <<SaveAction(a, "queued"), CreateItem(a, m)>>
              \/ \E m \in Modes : s = <<CreateItem(a, m)>> /\ action[a] = "queued"
  <2>1. ASSUME NEW v \in {"review_required", "approved", "rejected"}, s = <<SaveAction(a, v)>>
        PROVE  t.a = a /\ t.op = "saveAction" /\ t.val = v /\ Tail(s) = <<>> /\ s # <<>>
    BY <2>1, Tuples
  <2>2. ASSUME NEW m \in Modes, s = <<SaveAction(a, "queued"), CreateItem(a, m)>>
        PROVE  /\ t.a = a /\ t.op = "saveAction" /\ t.val = "queued" /\ s # <<>>
               /\ \E k \in Modes : Tail(s) = <<CreateItem(a, k)>>
    BY <2>2, Tuples
  <2>3. ASSUME NEW m \in Modes, s = <<CreateItem(a, m)>>
        PROVE  t.a = a /\ t.op = "createItem" /\ t.val = m /\ Tail(s) = <<>> /\ s # <<>>
    BY <2>3, Tuples
  <2> QED BY <1>1, <1>3, <2>1, <2>2, <2>3 DEF OperatorAt
<1>4. CASE /\ st \in {"absent", "queued", "retry_scheduled", "dead_lettered"}
           /\ \/ s = <<SaveAction(a, "cancelled"), CancelItems(a)>>
              \/ s = <<CancelItems(a)>> /\ action[a] = "cancelled"
  <2>1. ASSUME s = <<SaveAction(a, "cancelled"), CancelItems(a)>>
        PROVE  /\ t.a = a /\ t.op = "saveAction" /\ t.val = "cancelled" /\ s # <<>>
               /\ Tail(s) = <<CancelItems(a)>>
    BY <2>1, Tuples
  <2>2. ASSUME s = <<CancelItems(a)>>
        PROVE  t.a = a /\ t.op = "cancelItems" /\ Tail(s) = <<>> /\ s # <<>>
    BY <2>2, Tuples
  <2> QED BY <1>1, <1>4, <2>1, <2>2 DEF OperatorAt
<1>5. CASE /\ st \in {"queued", "retry_scheduled"}
           /\ \/ s = <<SaveItem(a, "cancelled", n)>> /\ action[a] = "cancelled"
              \/ s = <<SaveItem(a, "cancelled", n), SaveAction(a, "cancelled")>>
  <2>1. ASSUME s = <<SaveItem(a, "cancelled", n)>>
        PROVE  /\ t.a = a /\ t.op = "saveItem" /\ t.val = "cancelled" /\ t.n = n
               /\ s # <<>> /\ Tail(s) = <<>>
    BY <2>1, Tuples
  <2>2. ASSUME s = <<SaveItem(a, "cancelled", n), SaveAction(a, "cancelled")>>
        PROVE  /\ t.a = a /\ t.op = "saveItem" /\ t.val = "cancelled" /\ t.n = n
               /\ s # <<>> /\ Tail(s) = <<SaveAction(a, "cancelled")>>
    BY <2>2, Tuples
  <2> QED BY <1>1, <1>2, <1>5, <2>1, <2>2 DEF OperatorAt
<1>6. CASE /\ st \in {"retry_scheduled", "dead_lettered"}
           /\ s = <<SaveItem(a, "queued", n), SaveAction(a, "queued")>>
  BY <1>1, <1>2, <1>6, Tuples DEF OperatorAt
<1>7. CASE st = "retry_scheduled" /\ s = DeadLetterTasks(a, n)
  BY <1>1, <1>2, <1>7, Tuples DEF OperatorAt, DeadLetterTasks
<1>8. CASE st \in {"queued", "cancelled", "dead_lettered"} /\ s = <<SaveAction(a, st)>>
  BY <1>1, <1>8, Tuples DEF OperatorAt
<1> QED BY <1>1, <1>2, <1>3, <1>4, <1>5, <1>6, <1>7, <1>8 DEF OperatorAt

HoldsRow(a) ==
  item[a].status = "processing" /\ item[a].lock = "live" /\ item[a].attemptCount < MaxAttempts

LEMMA WorkerNext ==
  ASSUME NEW a, NEW s, WorkerAt(s, a), NEW t, t = Head(s)
  PROVE  /\ t.a = a /\ s # <<>>
         /\ t.op \in {"deliver", "writeNote", "saveAttempt", "saveItem", "saveAction"}
         /\ t.op # "saveAction" => HoldsRow(a)
         /\ t.op \in {"deliver", "writeNote"} =>
              t.n = item[a].attemptCount /\ Numbered(a, t.n) /\ notes[a] = 0
         /\ t.op = "saveAttempt" =>
              /\ t.n = item[a].attemptCount + 1 /\ Numbered(a, item[a].attemptCount)
              /\ \E st \in Outcome :
                   /\ t.val \in Delivered \/ st \in Delivered => t.val = st
                   /\ notes[a] = NotesOf(st)
                   /\ Tail(s) = <<SaveItem(a, st, t.n), SaveAction(a, st)>>
         /\ t.op = "saveItem" =>
              /\ t.n = item[a].attemptCount + 1 /\ Numbered(a, t.n)
              /\ t.val \in Outcome /\ notes[a] = NotesOf(t.val)
              /\ Tail(s) = <<SaveAction(a, t.val)>>
         /\ t.op = "saveAction" =>
              /\ Kept(a) /\ item[a].status \in Outcome /\ t.val = item[a].status
              /\ item[a].status = "retry_scheduled" => item[a].waiting
              /\ Tail(s) = <<>>
<1> USE DEF SaveAction, SaveItem, SaveAttempt, Deliver, WriteNote
<1>1. PICK n : n = item[a].attemptCount
  OBVIOUS
<1>2. CASE /\ Kept(a) /\ item[a].status \in Outcome
           /\ item[a].status = "retry_scheduled" => item[a].waiting
           /\ s = <<SaveAction(a, item[a].status)>>
  BY <1>2, Tuples
<1>3. ASSUME HoldsRow(a), Numbered(a, n), notes[a] = 0,
             \/ \E o \in DeliveryOptions : s = <<Deliver(a, o, n)>>
             \/ s = <<WriteNote(a, n)>>
      PROVE  t.a = a /\ s # <<>> /\ t.op \in {"deliver", "writeNote"} /\ t.n = n
  BY <1>3, Tuples
<1>4. ASSUME HoldsRow(a), NEW v \in AttemptState \ {"none"}, NEW st \in Outcome,
             v \in Delivered \/ st \in Delivered => v = st,
             notes[a] = NotesOf(st), Numbered(a, n),
             s = <<SaveAttempt(a, v, n + 1), SaveItem(a, st, n + 1), SaveAction(a, st)>>
      PROVE  /\ t.a = a /\ s # <<>> /\ t.op = "saveAttempt" /\ t.val = v /\ t.n = n + 1
             /\ \E x \in Outcome :
                  /\ t.val \in Delivered \/ x \in Delivered => t.val = x
                  /\ notes[a] = NotesOf(x)
                  /\ Tail(s) = <<SaveItem(a, x, t.n), SaveAction(a, x)>>
  BY <1>4, Tuples
<1>5. ASSUME HoldsRow(a), NEW st \in Outcome, notes[a] = NotesOf(st), Numbered(a, n + 1),
             s = <<SaveItem(a, st, n + 1), SaveAction(a, st)>>
      PROVE  /\ t.a = a /\ s # <<>> /\ t.op = "saveItem" /\ t.val = st /\ t.n = n + 1
             /\ Tail(s) = <<SaveAction(a, t.val)>>
  BY <1>5, Tuples
<1>6. Holding(s, a) => HoldsRow(a)
  BY DEF Holding, HoldsRow
<1> QED BY <1>1, <1>2, <1>3, <1>4, <1>5, <1>6 DEF WorkerAt, Holding

-----------------------------------------------------------------------------
(* CalmInv: every step keeps it *)

LEMMA Shrinks == ASSUME NEW a, NEW b, Disturb(a, b) PROVE clean' \subseteq clean /\ (b => a \notin clean')
BY DEF Disturb

\* A request that begins on rows at rest is the only one on its way.
LEMMA CalmBegins ==
  ASSUME GateInv, CalmInv, NEW p \in Operators, NEW a \in Actions, NEW plan,
         plan # <<>>, Head(plan).a = a, Head(plan).op # "claimRow",
         Operate(p, a, plan),
         a \in clean /\ AtRest(a) => OperatorAt(plan, a)
  PROVE  CalmInv'
<1> SUFFICES ASSUME NEW b \in Actions, b \in clean' PROVE Calm(b)'
  BY DEF CalmInv, GateInv, RowsTyped, Operate, Disturb
<1>1. /\ clean' \subseteq clean /\ (InFlight(a) # {} => a \notin clean')
      /\ \A c \in Actions : SameRows(c)
      /\ Idle(p) /\ todo' = [todo EXCEPT ![p] = plan]
  BY Shrinks DEF Operate, Begin, SameRows
<1>2. Calm(b)
  BY <1>1 DEF CalmInv
<1>3. CASE b # a
  BY <1>1, <1>2, <1>3, CalmElsewhere
<1>4. CASE b = a
  <2>1. InFlight(a) = {} /\ AtRest(a)
    BY <1>1, <1>2, <1>4 DEF Calm
  <2>2. OperatorAt(plan, a)'
    BY <1>1, <1>4, <2>1, StandsStill
  <2>3. /\ todo'[p] = plan
        /\ \A q \in Procs : q # p => todo'[q] = todo[q]
    BY <1>1 DEF GateInv, Plans
  <2>4. OperatorAt(todo[p], a)'
    BY <2>2, <2>3
  <2>5. \A q \in Procs : q # p => q \notin InFlight(a)'
    BY <2>1, <2>3 DEF InFlight, At, Idle
  <2>6. InFlight(a)' \subseteq {p}
    BY <2>5 DEF InFlight
  <2>7. p \in InFlight(a)'
    BY <2>3 DEF InFlight, At, Idle
  <2>8. \A q \in Procs : (At(q, "claimRow") /\ Head(todo[q]).a = a)' => todo'[q] = todo[q]
    BY <2>3 DEF At, Idle
  <2>9. Onward(a) /\ item'[a].attemptCount \in Nat
    BY <1>1 DEF Onward, SameRows, GateInv, RowsTyped, Item
  <2>10. FoundBefore(a)'
    BY <1>2, <1>4, <2>8, <2>9, StillFoundBefore DEF Calm
  <2>11. p \notin Workers
    BY OutboxAssumption
  <2> QED BY <1>4, <2>4, <2>6, <2>7, <2>10, <2>11 DEF Calm
<1> QED BY <1>3, <1>4

LEMMA OperatorCalm ==
  ASSUME GateInv, CalmInv, NEW p \in Operators, NEW a \in Actions,
         \/ SubmitForReview(p, a) \/ Approve(p, a) \/ Reject(p, a)
         \/ Queue(p, a) \/ Cancel(p, a)
         \/ RetryOutbox(p, a) \/ CancelOutbox(p, a) \/ DeadLetterOutbox(p, a)
  PROVE  CalmInv'
<1> USE DEF SaveAction, SaveItem
<1>1. action[a] \in ActionStatus /\ item[a].status \in ItemStatus
  BY DEF GateInv, RowsTyped, Item
<1>2. PICK n : n = item[a].attemptCount
  OBVIOUS
<1>3. AtRest(a) =>
        /\ Kept(a)
        /\ action[a] \in {"draft", "review_required", "approved"} => item[a].status = "absent"
        /\ item[a].status # "processing"
        /\ action[a] \notin Delivered \cup {"none", "rejected", "cancelled"} =>
             item[a].status \in {"absent", "queued", "retry_scheduled", "dead_lettered"}
  BY <1>1 DEF AtRest, ActionStatus, ItemStatus, Delivered
<1>4. CASE SubmitForReview(p, a)
  <2>1. PICK plan : plan = <<SaveAction(a, "review_required")>>
    OBVIOUS
  <2>2. AtRest(a) => OperatorAt(plan, a)
    BY <1>3, <1>4, <2>1 DEF OperatorAt, SubmitForReview
  <2> QED BY <1>4, <2>1, <2>2, Tuples, CalmBegins DEF SubmitForReview
<1>5. CASE Approve(p, a)
  <2>1. PICK plan : plan = <<SaveAction(a, "approved")>>
    OBVIOUS
  <2>2. AtRest(a) => OperatorAt(plan, a)
    BY <1>3, <1>5, <2>1 DEF OperatorAt, Approve
  <2> QED BY <1>5, <2>1, <2>2, Tuples, CalmBegins DEF Approve
<1>6. CASE Reject(p, a)
  <2>1. PICK plan : plan = <<SaveAction(a, "rejected")>>
    OBVIOUS
  <2>2. AtRest(a) => OperatorAt(plan, a)
    BY <1>3, <1>6, <2>1 DEF OperatorAt, Reject
  <2> QED BY <1>6, <2>1, <2>2, Tuples, CalmBegins DEF Reject
<1>7. CASE Queue(p, a)
  <2>1. PICK m \in Modes : m = DeliveryMode(QueueDecision)
    BY DEF DeliveryMode
  <2>2. PICK plan : plan = <<SaveAction(a, "queued"), CreateItem(a, m)>>
    OBVIOUS
  <2>3. AtRest(a) => OperatorAt(plan, a)
    BY <1>3, <1>7, <2>2 DEF OperatorAt, Queue
  <2> QED BY <1>7, <2>1, <2>2, <2>3, Tuples, CalmBegins DEF Queue
<1>8. CASE Cancel(p, a)
  <2>1. PICK plan : plan = <<SaveAction(a, "cancelled"), CancelItems(a)>>
    OBVIOUS
  <2>2. AtRest(a) => OperatorAt(plan, a)
    BY <1>3, <1>8, <2>1 DEF OperatorAt, Cancel
  <2> QED BY <1>8, <2>1, <2>2, Tuples, CalmBegins DEF Cancel
<1>9. CASE RetryOutbox(p, a)
  <2>1. PICK plan : plan = <<SaveItem(a, "queued", n), SaveAction(a, "queued")>>
    OBVIOUS
  <2>2. AtRest(a) => OperatorAt(plan, a)
    BY <1>2, <1>3, <1>9, <2>1 DEF OperatorAt, RetryOutbox
  <2> QED BY <1>2, <1>9, <2>1, <2>2, Tuples, CalmBegins DEF RetryOutbox
<1>10. CASE CancelOutbox(p, a)
  <2>1. PICK plan : plan = <<SaveItem(a, "cancelled", n), SaveAction(a, "cancelled")>>
    OBVIOUS
  <2>2. AtRest(a) => OperatorAt(plan, a)
    BY <1>2, <1>3, <1>10, <2>1 DEF OperatorAt, CancelOutbox
  <2> QED BY <1>2, <1>10, <2>1, <2>2, Tuples, CalmBegins DEF CancelOutbox
<1>11. CASE DeadLetterOutbox(p, a)
  <2>1. PICK plan : plan = DeadLetterTasks(a, n)
    OBVIOUS
  <2>2. AtRest(a) => OperatorAt(plan, a)
    BY <1>2, <1>3, <1>11, <2>1 DEF OperatorAt, DeadLetterOutbox
  <2>3. plan # <<>> /\ Head(plan) = SaveItem(a, "dead_lettered", n)
    BY <2>1, Tuples DEF DeadLetterTasks
  <2> QED BY <1>2, <1>11, <2>1, <2>2, <2>3, CalmBegins DEF DeadLetterOutbox
<1> QED BY <1>4, <1>5, <1>6, <1>7, <1>8, <1>9, <1>10, <1>11

\* An action is created before any request works on its rows.
LEMMA CreateCalm ==
  ASSUME GateInv, CalmInv, NEW a \in Actions, CreateAction(a)
  PROVE  CalmInv'
<1> SUFFICES ASSUME NEW b \in clean PROVE Calm(b)'
  BY DEF CalmInv, CreateAction
<1>1. b \in Actions /\ Calm(b)
  BY DEF CalmInv, GateInv, RowsTyped
<1>2. /\ UNCHANGED <<item, attempts, notes, todo>>
      /\ \A c \in Actions : action'[c] = action[c] \/ (action[c] = "none" /\ action'[c] = "draft")
  BY DEF CreateAction, GateInv, RowsTyped
<1>3. InFlight(b)' = InFlight(b) /\ (FoundBefore(b)' <=> FoundBefore(b))
      /\ (Kept(b)' <=> Kept(b))
  BY <1>2 DEF InFlight, At, Idle, FoundBefore, Kept, Numbered
<1>4. AtRest(b) => AtRest(b)'
  BY <1>1, <1>2, <1>3 DEF AtRest, GateInv, RowsTyped, Item, ItemStatus
<1>5. ASSUME NEW u
      PROVE  /\ OperatorAt(u, b) => OperatorAt(u, b)'
             /\ WorkerAt(u, b) => WorkerAt(u, b)'
  <2>1. OperatorAt(u, b) => OperatorAt(u, b)'
    BY <1>1, <1>2, <1>3 DEF OperatorAt
  <2>2. Holding(u, b) => Holding(u, b)'
    BY <1>2 DEF Holding, Numbered
  <2>3. WorkerAt(u, b) => WorkerAt(u, b)'
    BY <1>2, <1>3, <2>2 DEF WorkerAt
  <2> QED BY <2>1, <2>3
<1>6. ASSUME NEW q \in InFlight(b)
      PROVE  /\ q \in Operators => OperatorAt(todo[q], b)'
             /\ q \in Workers => WorkerAt(todo[q], b)'
  <2>1. PICK u : u = todo[q]
    OBVIOUS
  <2>2. todo'[q] = u
    BY <1>2, <2>1
  <2> QED BY <1>1, <1>5, <2>1, <2>2 DEF Calm
<1> QED BY <1>1, <1>3, <1>4, <1>6 DEF Calm

\* A claim that has found its row is not yet on its way to it.
LEMMA FindCalm ==
  ASSUME GateInv, CalmInv, NEW p \in Workers, NEW a \in Actions, NEW o \in DeliveryOptions,
         FindCandidate(p, a, o)
  PROVE  CalmInv'
<1> USE DEF ClaimRow
<1> SUFFICES ASSUME NEW b \in clean PROVE Calm(b)'
  BY DEF CalmInv, FindCandidate
<1>1. PICK plan : plan = <<ClaimRow(a, o, item[a].attemptCount, item[a].status)>>
  OBVIOUS
<1>2. /\ Head(plan).a = a /\ Head(plan).op = "claimRow" /\ plan # <<>>
      /\ Head(plan).n = item[a].attemptCount
  BY <1>1, Tuples
<1>3. /\ Idle(p) /\ todo' = [todo EXCEPT ![p] = plan] /\ ~item[a].waiting
      /\ \A c \in Actions : SameRows(c)
  BY <1>1 DEF FindCandidate, Begin, Eligible, Matching, SameRows
<1>4. b \in Actions /\ Calm(b)
  BY DEF CalmInv, GateInv, RowsTyped
<1>5. CASE b # a
  BY <1>2, <1>3, <1>4, <1>5, CalmElsewhere
<1>6. CASE b = a
  <2>1. /\ todo'[p] = plan
        /\ \A q \in Procs : q # p => todo'[q] = todo[q]
    BY <1>3 DEF GateInv, Plans
  <2>2. p \notin InFlight(a) /\ p \notin InFlight(a)'
    BY <1>2, <1>3, <2>1 DEF InFlight, At, Idle
  <2>3. \A q \in Procs : q # p => (q \in InFlight(a)' <=> q \in InFlight(a))
    BY <2>1 DEF InFlight, At, Idle
  <2>4. InFlight(a)' = InFlight(a)
    BY <2>2, <2>3 DEF InFlight
  <2>5. ASSUME NEW q \in InFlight(a)
        PROVE  /\ q \in Operators => OperatorAt(todo[q], a)'
               /\ q \in Workers => WorkerAt(todo[q], a)'
    <3>1. PICK u : u = todo[q]
      OBVIOUS
    <3>2. todo'[q] = u
      BY <2>1, <2>2, <3>1 DEF InFlight
    <3> QED BY <1>3, <1>4, <1>6, <3>1, <3>2, StandsStill DEF Calm
  <2>6. InFlight(a) = {} => AtRest(a)'
    BY <1>3, <1>4, <1>6, StandsStill DEF Calm
  <2>7. item'[a] = item[a] /\ item[a].attemptCount \in Nat
    BY <1>3 DEF SameRows, GateInv, RowsTyped, Item
  <2>8. ASSUME NEW q \in Procs, (At(q, "claimRow") /\ Head(todo[q]).a = a)'
        PROVE  /\ Head(todo'[q]).n <= item[a].attemptCount
               /\ item[a].waiting => Head(todo'[q]).n < item[a].attemptCount
    <3>1. CASE q = p
      BY <1>2, <1>3, <2>1, <2>7, <3>1
    <3>2. CASE q # p
      BY <1>4, <1>6, <2>1, <2>8, <3>2 DEF Calm, FoundBefore, At, Idle
    <3> QED BY <3>1, <3>2
  <2>9. FoundBefore(a)'
    BY <2>7, <2>8 DEF FoundBefore
  <2> QED BY <1>4, <1>6, <2>4, <2>5, <2>6, <2>9 DEF Calm
<1> QED BY <1>5, <1>6

\* A claim that succeeds undisturbed finds nobody on the way: a worker before
\* it would hold a live lock, or have scheduled a retry the claim had not seen.
LEMMA ClaimFindsNobody ==
  ASSUME GateInv, NEW a \in Actions, Calm(a), NEW p \in Procs,
         At(p, "claimRow"), Head(todo[p]).a = a,
         item[a].status = Head(todo[p]).read, Head(todo[p]).read \in OpenStatus,
         Head(todo[p]).read = "processing" => item[a].lock # "live",
         item[a].attemptCount = Head(todo[p]).n,
         InFlight(a) \cap Operators = {}
  PROVE  InFlight(a) = {}
<1>1. ~item[a].waiting
  <2>1. item[a].attemptCount \in Nat
    BY DEF GateInv, RowsTyped, Item
  <2> QED BY <2>1 DEF Calm, FoundBefore
<1>2. ASSUME NEW q \in InFlight(a)
      PROVE  FALSE
  <2>1. q \in Workers /\ WorkerAt(todo[q], a)
    BY DEF Calm, InFlight
  <2>2. ~Holding(todo[q], a)
    BY DEF Holding
  <2>3. item[a].status \in Outcome /\ item[a].status # "retry_scheduled"
    BY <1>1, <2>1, <2>2 DEF WorkerAt
  <2> QED BY <2>3 DEF Outcome, Delivered, OpenStatus
<1> QED BY <1>2

LEMMA ClaimCalm ==
  ASSUME GateInv, GateInv', PlanInv, CalmInv, NEW p \in Procs, DoClaimRow(p)
  PROVE  CalmInv'
<1> USE OutboxAssumption DEF Deliver
<1>1. PICK s : s = todo[p]
  OBVIOUS
<1>2. PICK t : t = Head(s)
  OBVIOUS
<1>3. /\ s # <<>> /\ ~Idle(p) /\ t.op = "claimRow" /\ MayRun(p, s)
      /\ t \in PermittedTask(reviewed)
  BY <1>1, <1>2, NextCall DEF GateInv, PlanInv, DoClaimRow, At, Idle
<1>4. PICK a \in Actions : a = t.a
  BY <1>2, <1>3, NextOfPlan
<1>5. /\ p \in Workers /\ t.val \in DeliveryOptions /\ t.read \in OpenStatus
      /\ t.n \in 0 .. MaxAttempts - 1 /\ item[a] \in Item
  BY <1>2, <1>3, <1>4, NextOfPlan, CallArguments DEF GateInv, RowsTyped
<1>6. p \notin InFlight(a)
  BY <1>1, <1>2, <1>3 DEF InFlight, At, Idle
<1>7. CASE UNCHANGED <<item, clean>> /\ Continue(p, <<>>)
  <2>1. \A c \in Actions : SameRows(c)
    BY <1>7 DEF SameRows, DoClaimRow
  <2>2. /\ todo'[p] = <<>>
        /\ \A q \in Procs : q # p => todo'[q] = todo[q]
    BY <1>7 DEF Continue, GateInv, Plans
  <2>3. ASSUME NEW b \in clean
        PROVE  Calm(b)'
    <3>1. b \in Actions /\ Calm(b)
      BY DEF CalmInv, GateInv, RowsTyped
    <3>2. p \notin InFlight(b) /\ p \notin InFlight(b)'
      BY <1>1, <1>2, <1>3, <2>2 DEF InFlight, At, Idle
    <3>3. \A q \in Procs : q # p => (q \in InFlight(b)' <=> q \in InFlight(b))
      BY <2>2 DEF InFlight, At, Idle
    <3>4. InFlight(b)' = InFlight(b)
      BY <3>2, <3>3 DEF InFlight
    <3>5. \A q \in InFlight(b) : todo'[q] = todo[q]
      BY <2>2, <3>2 DEF InFlight
    <3>6. \A q \in Procs : (At(q, "claimRow") /\ Head(todo[q]).a = b)' => todo'[q] = todo[q]
      BY <2>2 DEF At, Idle
    <3> QED BY <2>1, <3>1, <3>4, <3>5, <3>6, CalmIfSame
  <2> QED BY <1>7, <2>3 DEF CalmInv
<1>8. CASE /\ item[a].status = t.read /\ (t.read = "processing" => item[a].lock # "live")
           /\ item' = [item EXCEPT ![a].status = "processing", ![a].lock = "live"]
           /\ Continue(p, <<Deliver(a, t.val, item[a].attemptCount)>>)
           /\ Disturb(a, \/ item[a].attemptCount # t.n
                         \/ InFlight(a) \cap Operators # {})
  <2>1. PICK n : n = item[a].attemptCount
    OBVIOUS
  <2>2. PICK plan : plan = <<Deliver(a, t.val, n)>>
    OBVIOUS
  <2>3. plan # <<>> /\ Head(plan).a = a /\ Head(plan).op = "deliver"
    BY <2>2, Tuples
  <2>4. todo' = [todo EXCEPT ![p] = plan]
    BY <1>8, <2>1, <2>2 DEF Continue
  <2>5. \A c \in Actions : c # a => SameRows(c)
    BY <1>8 DEF SameRows, DoClaimRow, GateInv, RowsTyped
  <2>6. item'[a] = [item[a] EXCEPT !.status = "processing", !.lock = "live"]
    BY <1>8 DEF GateInv, RowsTyped
  <2>7. /\ item'[a].status = "processing" /\ item'[a].lock = "live"
        /\ item'[a].attemptCount = n /\ item'[a].waiting = item[a].waiting
    BY <1>5, <2>1, <2>6 DEF Item
  <2>8. UNCHANGED <<action, attempts, notes>>
    BY DEF DoClaimRow
  <2>9. clean' \subseteq clean
    BY <1>8, Shrinks
  <2>10. ASSUME NEW b \in Actions, b \in clean', b # a
         PROVE  Calm(b)'
    BY <1>1, <1>2, <1>4, <2>3, <2>4, <2>5, <2>9, <2>10, CalmElsewhere DEF CalmInv
  <2>11. ASSUME a \in clean'
         PROVE  Calm(a)'
    <3>1. n = t.n /\ InFlight(a) \cap Operators = {} /\ Calm(a)
      BY <1>8, <2>1, <2>9, <2>11, Shrinks DEF CalmInv
    <3>2. At(p, "claimRow")
      BY <1>1, <1>2, <1>3 DEF At
    <3>3. InFlight(a) = {}
      BY <1>1, <1>2, <1>4, <1>5, <1>8, <2>1, <3>1, <3>2, ClaimFindsNobody
    <3>4. Kept(a) /\ item[a].status \in OpenStatus
      BY <1>5, <1>8, <3>1, <3>3 DEF Calm, AtRest
    <3>5. Numbered(a, n)' /\ notes'[a] = 0
      BY <2>1, <2>8, <3>4 DEF Kept, Numbered, NotesOf, OpenStatus
    <3>6. Holding(plan, a)'
      BY <1>5, <2>2, <2>7, <3>1, <3>5 DEF Holding
    <3>7. /\ todo'[p] = plan
          /\ \A q \in Procs : q # p => todo'[q] = todo[q]
      BY <2>4 DEF GateInv, Plans
    <3>8. WorkerAt(todo[p], a)'
      BY <3>6, <3>7 DEF WorkerAt
    <3>9. \A q \in Procs : q # p => q \notin InFlight(a)'
      BY <3>3, <3>7 DEF InFlight, At, Idle
    <3>10. InFlight(a)' \subseteq {p}
      BY <3>9 DEF InFlight
    <3>11. p \in InFlight(a)' /\ p \notin Operators
      BY <1>5, <2>3, <3>7 DEF InFlight, At, Idle
    <3>12. \A q \in Procs : (At(q, "claimRow") /\ Head(todo[q]).a = a)' => todo'[q] = todo[q]
      BY <2>3, <3>7 DEF At, Idle
    <3>13. Onward(a) /\ item'[a].attemptCount \in Nat
      BY <1>5, <2>1, <2>7 DEF Onward, Item
    <3>14. FoundBefore(a)'
      BY <3>1, <3>12, <3>13, StillFoundBefore DEF Calm
    <3> QED BY <3>8, <3>10, <3>11, <3>14 DEF Calm
  <2> QED BY <2>10, <2>11 DEF CalmInv, GateInv, RowsTyped
<1> QED BY <1>1, <1>2, <1>4, <1>7, <1>8 DEF DoClaimRow

\* Where a request stands that is about to write to undisturbed rows.
LEMMA OnItsWay ==
  ASSUME GateInv, CalmInv, NEW p \in Procs, NEW s, s = todo[p], s # <<>>,
         NEW a, a = Head(s).a, Head(s).op # "claimRow", a \in clean
  PROVE  /\ Calm(a)
         /\ p \in Operators => OperatorAt(s, a)
         /\ p \in Workers => WorkerAt(s, a)
<1>1. p \in InFlight(a)
  BY DEF InFlight, At, Idle
<1> QED BY <1>1 DEF CalmInv, Calm

LEMMA ProcessCalm ==
  ASSUME GateInv, GateInv', PlanInv, CalmInv, NEW p \in Procs, ProcessClaimed(p)
  PROVE  CalmInv'
<1> USE OutboxAssumption DEF SaveAttempt, WriteNote
<1>1. PICK s : s = todo[p]
  OBVIOUS
<1>2. PICK t : t = Head(s)
  OBVIOUS
<1>3. s # <<>> /\ ~Idle(p) /\ t.op = "deliver" /\ MayRun(p, s)
  BY <1>1, <1>2 DEF PlanInv, ProcessClaimed, At, Idle
<1>4. PICK a \in Actions : a = t.a
  BY <1>2, <1>3, NextOfPlan
<1>5. PICK plan \in DeliveryPlans(a, t.val, t.n) :
         Continue(p, plan) /\ Disturb(a, plan = DryRunTasks(a, t.n))
  BY <1>1, <1>2, <1>4 DEF ProcessClaimed
<1>6. p \in Workers /\ p \notin Operators
  BY <1>2, <1>3, NextOfPlan
<1>7. \A c \in Actions : SameRows(c)
  BY DEF ProcessClaimed, SameRows
<1>8. clean' \subseteq clean /\ (plan = DryRunTasks(a, t.n) => a \notin clean')
  BY <1>5, Shrinks
<1>9. /\ plan # <<>> /\ Head(plan).a = a /\ Head(plan).op # "claimRow"
  <2>1. /\ \A v : BlockTasks(a, v, t.n) # <<>> /\ Head(BlockTasks(a, v, t.n)).a = a
               /\ Head(BlockTasks(a, v, t.n)).op = "saveAttempt"
        /\ \A v : SuccessTasks(a, v, t.n) # <<>> /\ Head(SuccessTasks(a, v, t.n)).a = a
               /\ Head(SuccessTasks(a, v, t.n)).op = "saveAttempt"
        /\ RetryTasks(a, t.n) # <<>> /\ Head(RetryTasks(a, t.n)).a = a
        /\ Head(RetryTasks(a, t.n)).op = "saveAttempt"
        /\ DryRunTasks(a, t.n) # <<>> /\ Head(DryRunTasks(a, t.n)).a = a
        /\ Head(DryRunTasks(a, t.n)).op = "saveAttempt"
        /\ <<WriteNote(a, t.n)>> # <<>> /\ Head(<<WriteNote(a, t.n)>>).a = a
        /\ Head(<<WriteNote(a, t.n)>>).op = "writeNote"
    BY Tuples DEF BlockTasks, SuccessTasks, RetryTasks, DryRunTasks
  <2> HIDE DEF SaveAttempt, WriteNote
  <2>2. plan \in {BlockTasks(a, "policy_blocked", t.n), BlockTasks(a, "failed", t.n),
                  SuccessTasks(a, "mock_delivered", t.n), RetryTasks(a, t.n),
                  DryRunTasks(a, t.n), <<WriteNote(a, t.n)>>}
    BY <1>5, FailurePlans DEF DeliveryPlans, SandboxPlans, CredentialPlans, MockTasks
  <2> QED BY <2>1, <2>2
<1>10. ASSUME a \in clean'
       PROVE  WorkerAt(plan, a)'
  <2>1. WorkerAt(s, a)
    BY <1>1, <1>2, <1>3, <1>4, <1>6, <1>8, <1>10, OnItsWay
  <2>2. /\ HoldsRow(a) /\ t.n = item[a].attemptCount
        /\ Numbered(a, t.n) /\ notes[a] = 0
    BY <1>2, <1>3, <2>1, WorkerNext
  <2>3. PICK n : n = t.n
    OBVIOUS
  <2> HIDE DEF SaveAttempt, WriteNote
  <2>4. plan \in {BlockTasks(a, "policy_blocked", n), BlockTasks(a, "failed", n),
                  SuccessTasks(a, "mock_delivered", n), RetryTasks(a, n), <<WriteNote(a, n)>>}
    BY <1>5, <1>8, <1>10, <2>3, FailurePlans DEF DeliveryPlans, SandboxPlans, CredentialPlans, MockTasks
  <2>5. ASSUME NEW v \in AttemptState \ {"none"}, NEW st \in Outcome,
               v \in Delivered \/ st \in Delivered => v = st, st # "sandbox_delivered",
               plan = <<SaveAttempt(a, v, n + 1), SaveItem(a, st, n + 1), SaveAction(a, st)>>
        PROVE  Holding(plan, a)
    BY <2>2, <2>3, <2>5 DEF Holding, HoldsRow, NotesOf
  <2>6. Holding(plan, a)
    <3>1. CASE plan = <<WriteNote(a, n)>>
      BY <2>2, <2>3, <3>1 DEF Holding, HoldsRow
    <3>2. CASE plan \in {BlockTasks(a, "policy_blocked", n), BlockTasks(a, "failed", n)}
      BY <2>5, <3>2 DEF BlockTasks, AttemptState, Outcome, Delivered
    <3>3. CASE plan = SuccessTasks(a, "mock_delivered", n)
      BY <2>5, <3>3 DEF SuccessTasks, AttemptState, Outcome, Delivered
    <3>4. CASE plan = RetryTasks(a, n)
      BY <2>5, <3>4 DEF RetryTasks, AttemptState, Outcome, Delivered
    <3> QED BY <2>4, <3>1, <3>2, <3>3, <3>4
  <2> QED BY <1>7, <2>6, StandsStill DEF WorkerAt
<1>11. Onward(a)
  BY <1>7 DEF Onward, SameRows, GateInv, RowsTyped, Item
<1>12. todo' = [todo EXCEPT ![p] = plan] /\ Head(todo[p]).a = a /\ ~At(p, "claimRow")
  BY <1>1, <1>2, <1>3, <1>4, <1>5 DEF Continue, At
<1> QED BY <1>3, <1>6, <1>7, <1>8, <1>9, <1>10, <1>11, <1>12, CalmGoesOn

\* The only note of an undisturbed action, or none.
LEMMA NoteCalm ==
  ASSUME GateInv, GateInv', PlanInv, CalmInv, NEW p \in Procs,
         NoteWritten(p) \/ NoteRefused(p) \/ NoteReplyLost(p)
  PROVE  CalmInv'
<1> USE OutboxAssumption
<1>1. PICK s : s = todo[p]
  OBVIOUS
<1>2. PICK t : t = Head(s)
  OBVIOUS
<1>3. s # <<>> /\ ~Idle(p) /\ t.op = "writeNote" /\ MayRun(p, s)
  BY <1>1, <1>2 DEF PlanInv, NoteWritten, NoteRefused, NoteReplyLost, At, Idle
<1>4. PICK a \in Actions : a = t.a
  BY <1>2, <1>3, NextOfPlan
<1>5. PICK n : n = t.n
  OBVIOUS
<1>6. p \in Workers /\ p \notin Operators
  BY <1>2, <1>3, NextOfPlan
<1>7. /\ UNCHANGED <<action, item, attempts>>
      /\ \/ /\ notes' = [notes EXCEPT ![a] = Counted(notes[a])]
            /\ Continue(p, SuccessTasks(a, "sandbox_delivered", n)) /\ clean' = clean
         \/ /\ notes' = notes /\ clean' = clean
            /\ Continue(p, FailureTasks(a, n, TRUE))
         \/ /\ notes' = [notes EXCEPT ![a] = Counted(notes[a])]
            /\ Continue(p, FailureTasks(a, n, TRUE)) /\ Disturb(a, TRUE)
  BY <1>1, <1>2, <1>4, <1>5 DEF NoteWritten, NoteRefused, NoteReplyLost
<1>8. PICK plan \in {SuccessTasks(a, "sandbox_delivered", n), BlockTasks(a, "failed", n),
                     RetryTasks(a, n)} :
        /\ Continue(p, plan)
        /\ \/ /\ plan = SuccessTasks(a, "sandbox_delivered", n) /\ clean' = clean
              /\ notes' = [notes EXCEPT ![a] = Counted(notes[a])]
           \/ /\ plan # SuccessTasks(a, "sandbox_delivered", n) /\ clean' = clean
              /\ notes' = notes
           \/ Disturb(a, TRUE)
  <2>1. /\ SuccessTasks(a, "sandbox_delivered", n) # BlockTasks(a, "failed", n)
        /\ SuccessTasks(a, "sandbox_delivered", n) # RetryTasks(a, n)
    BY Tuples DEF SuccessTasks, BlockTasks, RetryTasks, SaveAttempt
  <2> QED BY <1>7, <2>1, FailurePlans
<1>9. clean' \subseteq clean /\ (Disturb(a, TRUE) => a \notin clean')
  BY <1>8, Shrinks
<1>10. \A c \in Actions : c # a => SameRows(c)
  BY <1>7 DEF SameRows, GateInv, RowsTyped
<1>11. PICK st \in Outcome, v \in AttemptState \ {"none"} :
         /\ v \in Delivered \/ st \in Delivered => v = st
         /\ plan = <<SaveAttempt(a, v, n + 1), SaveItem(a, st, n + 1), SaveAction(a, st)>>
         /\ st = "sandbox_delivered" <=> plan = SuccessTasks(a, "sandbox_delivered", n)
  <2>1. CASE plan = SuccessTasks(a, "sandbox_delivered", n)
    BY <2>1 DEF SuccessTasks, AttemptState, Outcome, Delivered
  <2>2. CASE plan = BlockTasks(a, "failed", n)
    BY <2>2, Tuples DEF SuccessTasks, BlockTasks, AttemptState, Outcome, Delivered, SaveAttempt
  <2>3. CASE plan = RetryTasks(a, n)
    BY <2>3, Tuples DEF SuccessTasks, RetryTasks, AttemptState, Outcome, Delivered, SaveAttempt
  <2> QED BY <2>1, <2>2, <2>3
<1>12. plan # <<>> /\ Head(plan).a = a /\ Head(plan).op = "saveAttempt"
  BY <1>11, Tuples DEF SaveAttempt
<1>13. ASSUME a \in clean'
       PROVE  WorkerAt(plan, a)'
  <2>1. WorkerAt(s, a)
    BY <1>1, <1>2, <1>3, <1>4, <1>6, <1>9, <1>13, OnItsWay
  <2>2. /\ HoldsRow(a) /\ n = item[a].attemptCount
        /\ Numbered(a, n) /\ notes[a] = 0
    BY <1>2, <1>3, <1>5, <2>1, WorkerNext
  <2>3. notes'[a] = NotesOf(st)
    <3>1. notes \in [Actions -> 0 .. NoteCap] /\ Counted(0) = 1
      BY DEF Counted, GateInv, RowsTyped
    <3>2. CASE plan = SuccessTasks(a, "sandbox_delivered", n)
      BY <1>8, <1>9, <1>11, <1>13, <2>2, <3>1, <3>2 DEF NotesOf
    <3>3. CASE plan # SuccessTasks(a, "sandbox_delivered", n)
      BY <1>8, <1>9, <1>11, <1>13, <2>2, <3>3 DEF NotesOf
    <3> QED BY <3>2, <3>3
  <2>4. Numbered(a, n)' /\ HoldsRow(a)' /\ item'[a] = item[a]
    BY <1>7, <2>2 DEF Numbered, HoldsRow
  <2>5. Holding(plan, a)'
    BY <1>11, <2>2, <2>3, <2>4 DEF Holding, HoldsRow
  <2> QED BY <2>5 DEF WorkerAt
<1>14. Onward(a)
  BY <1>7 DEF Onward, GateInv, RowsTyped, Item
<1>15. todo' = [todo EXCEPT ![p] = plan] /\ Head(todo[p]).a = a /\ ~At(p, "claimRow")
  BY <1>1, <1>2, <1>3, <1>4, <1>8 DEF Continue, At
<1> QED BY <1>3, <1>6, <1>9, <1>10, <1>12, <1>13, <1>14, <1>15, CalmGoesOn

\* What the two requests may save on undisturbed rows.
LEMMA SaveActionCalm ==
  ASSUME GateInv, GateInv', PlanInv, CalmInv, NEW p \in Procs, DoSaveAction(p)
  PROVE  CalmInv'
<1> USE DEF CreateItem, CancelItems
<1>1. PICK s : s = todo[p]
  OBVIOUS
<1>2. PICK t : t = Head(s)
  OBVIOUS
<1>3. PICK plan : plan = Tail(s)
  OBVIOUS
<1>4. s # <<>> /\ ~Idle(p) /\ t.op = "saveAction" /\ MayRun(p, s)
  BY <1>1, <1>2 DEF PlanInv, DoSaveAction, At, Idle
<1>5. PICK a \in Actions : a = t.a
  BY <1>2, <1>4, NextOfPlan
<1>6. /\ action' = [action EXCEPT ![a] = t.val]
      /\ UNCHANGED <<item, attempts, notes, clean>>
      /\ todo' = [todo EXCEPT ![p] = plan]
  BY <1>1, <1>2, <1>3, <1>5 DEF DoSaveAction, Advance
<1>7. \A c \in Actions : c # a => SameRows(c)
  BY <1>6 DEF SameRows, GateInv, RowsTyped
<1>8. plan = <<>> \/ (Head(plan).a = a /\ Head(plan).op # "claimRow")
  <2>1. plan \in {<<>>, <<CancelItems(a)>>} \/ \E m \in Modes : plan = <<CreateItem(a, m)>>
    BY <1>2, <1>3, <1>4, <1>5, NextOfPlan
  <2>2. Head(<<CancelItems(a)>>).a = a /\ Head(<<CancelItems(a)>>).op = "cancelItems"
    BY Tuples
  <2>3. \A m : Head(<<CreateItem(a, m)>>).a = a /\ Head(<<CreateItem(a, m)>>).op = "createItem"
    BY Tuples
  <2> QED BY <2>1, <2>2, <2>3
<1>9. Onward(a)
  BY <1>6 DEF Onward, GateInv, RowsTyped, Item
<1>10. action'[a] = t.val /\ (Kept(a)' <=> Kept(a)) /\ item'[a].status = item[a].status
  BY <1>6 DEF GateInv, RowsTyped, Kept, Numbered
<1>11. ASSUME a \in clean, p \in Operators
       PROVE  /\ plan = <<>> => AtRest(a)'
              /\ plan # <<>> => OperatorAt(plan, a)'
  <2>1. OperatorAt(s, a)
    BY <1>1, <1>2, <1>4, <1>5, <1>11, OnItsWay
  <2>2. /\ Kept(a)
        /\ \/ /\ plan = <<>>
              /\ \/ /\ item[a].status = "absent"
                    /\ t.val \in {"review_required", "approved", "rejected"}
                 \/ t.val = item[a].status
           \/ /\ \E m \in Modes : plan = <<CreateItem(a, m)>>
              /\ t.val = "queued" /\ item[a].status = "absent"
           \/ /\ plan = <<CancelItems(a)>> /\ t.val = "cancelled"
              /\ item[a].status \in {"absent", "queued", "retry_scheduled", "dead_lettered"}
    BY <1>2, <1>3, <1>4, <2>1, OperatorNext
  <2>3. plan = <<>> => AtRest(a)'
    BY <1>10, <2>2, Tuples DEF AtRest
  <2>4. plan # <<>> => OperatorAt(plan, a)'
    BY <1>10, <2>2, Tuples DEF OperatorAt
  <2> QED BY <2>3, <2>4
<1>12. ASSUME a \in clean, p \in Workers
       PROVE  plan = <<>> /\ AtRest(a)'
  <2>1. WorkerAt(s, a)
    BY <1>1, <1>2, <1>4, <1>5, <1>12, OnItsWay
  <2>2. Kept(a) /\ t.val = item[a].status /\ plan = <<>>
    BY <1>2, <1>3, <1>4, <2>1, WorkerNext
  <2> QED BY <1>10, <2>2 DEF AtRest
<1>13. Head(todo[p]).a = a /\ ~At(p, "claimRow") /\ clean' = clean
  BY <1>1, <1>2, <1>4, <1>5, <1>6 DEF At
<1> QED BY <1>4, <1>6, <1>7, <1>8, <1>9, <1>11, <1>12, <1>13, CalmGoesOn

LEMMA CreateItemCalm ==
  ASSUME GateInv, GateInv', PlanInv, CalmInv, NEW p \in Procs, DoCreateItem(p)
  PROVE  CalmInv'
<1> USE OutboxAssumption
<1>1. PICK s : s = todo[p]
  OBVIOUS
<1>2. PICK t : t = Head(s)
  OBVIOUS
<1>3. s # <<>> /\ ~Idle(p) /\ t.op = "createItem" /\ MayRun(p, s)
  BY <1>1, <1>2 DEF PlanInv, DoCreateItem, At, Idle
<1>4. PICK a \in Actions : a = t.a
  BY <1>2, <1>3, NextOfPlan
<1>5. Tail(s) = <<>>
  BY <1>2, <1>3, NextOfPlan
<1>6. /\ UNCHANGED <<action, attempts, notes, clean>> /\ todo' = [todo EXCEPT ![p] = <<>>]
      /\ item' = IF item[a].status = "absent"
                 THEN [item EXCEPT ![a] = [NoItem EXCEPT !.status = "queued", !.mode = t.val,
                                                         !.queuedAt = ItemCount]]
                 ELSE item
  BY <1>1, <1>2, <1>4, <1>5 DEF DoCreateItem, Advance
<1>7. \A c \in Actions : c # a => SameRows(c)
  BY <1>6 DEF SameRows, GateInv, RowsTyped
<1>8. ASSUME a \in clean
      PROVE  Onward(a) /\ AtRest(a)'
  <2>1. Calm(a) /\ (p \in Operators => OperatorAt(s, a)) /\ (p \in Workers => WorkerAt(s, a))
    BY <1>1, <1>2, <1>3, <1>4, <1>8, OnItsWay
  <2>2. p \in Operators
    BY <1>2, <1>3, <2>1, WorkerNext
  <2>3. Kept(a) /\ item[a].status = "absent" /\ action[a] = "queued"
    BY <1>2, <1>3, <2>1, <2>2, OperatorNext
  <2>4. item'[a].status = "queued" /\ item'[a].attemptCount = 0 /\ item'[a].waiting = FALSE
    BY <1>6, <2>3 DEF NoItem, GateInv, RowsTyped
  <2>5. item[a].attemptCount = 0
    BY <2>3 DEF Kept
  <2>6. Onward(a)
    BY <2>4, <2>5 DEF Onward
  <2>7. AtRest(a)'
    BY <1>6, <2>3, <2>4, <2>5 DEF AtRest, Kept, Numbered, NotesOf
  <2> QED BY <2>6, <2>7
<1>9. Head(todo[p]).a = a /\ ~At(p, "claimRow")
  BY <1>1, <1>2, <1>3, <1>4 DEF At
<1> QED BY <1>3, <1>6, <1>7, <1>8, <1>9, CalmGoesOn

LEMMA SaveItemCalm ==
  ASSUME GateInv, GateInv', PlanInv, CalmInv, NEW p \in Procs, DoSaveItem(p)
  PROVE  CalmInv'
<1> USE OutboxAssumption DEF SaveAction
<1>1. PICK s : s = todo[p]
  OBVIOUS
<1>2. PICK t : t = Head(s)
  OBVIOUS
<1>3. PICK plan : plan = Tail(s)
  OBVIOUS
<1>4. s # <<>> /\ ~Idle(p) /\ t.op = "saveItem" /\ MayRun(p, s)
  BY <1>1, <1>2 DEF PlanInv, DoSaveItem, At, Idle
<1>5. PICK a \in Actions : a = t.a
  BY <1>2, <1>4, NextOfPlan
<1>6. /\ plan \in {<<>>, <<SaveAction(a, t.val)>>}
      /\ t.val \in SavedStatus /\ t.n \in 0 .. AttemptCap
  BY <1>2, <1>3, <1>4, <1>5, NextOfPlan
<1>7. /\ UNCHANGED <<action, attempts, notes, clean>> /\ todo' = [todo EXCEPT ![p] = plan]
      /\ item' = [item EXCEPT ![a] = [item[a] EXCEPT !.status = t.val, !.attemptCount = t.n,
                                                     !.lock = "none",
                                                     !.waiting = (t.val = "retry_scheduled")]]
  BY <1>1, <1>2, <1>3, <1>5 DEF DoSaveItem, Advance, GateInv, RowsTyped
<1>8. \A c \in Actions : c # a => SameRows(c)
  BY <1>7 DEF SameRows, GateInv, RowsTyped
<1>9. /\ item'[a].status = t.val /\ item'[a].attemptCount = t.n
      /\ item'[a].waiting = (t.val = "retry_scheduled")
  <2>1. item \in [Actions -> Item]
    BY DEF GateInv, RowsTyped
  <2> QED BY <1>7, <2>1 DEF Item
<1>10. plan = <<>> \/ (Head(plan).a = a /\ Head(plan).op # "claimRow")
  BY <1>6, Tuples
<1>11. item[a].attemptCount \in 0 .. AttemptCap
  BY DEF GateInv, RowsTyped, Item
<1>12. t.val # "absent"
  BY <1>6 DEF SavedStatus
<1>13. ASSUME a \in clean, p \in Operators
       PROVE  /\ Onward(a)
              /\ plan = <<>> => AtRest(a)'
              /\ plan # <<>> => OperatorAt(plan, a)'
  <2>1. OperatorAt(s, a)
    BY <1>1, <1>2, <1>4, <1>5, <1>13, OnItsWay
  <2>2. /\ Kept(a) /\ t.n = item[a].attemptCount
        /\ \/ /\ t.val = "cancelled" /\ item[a].status \in {"queued", "retry_scheduled"}
              /\ \/ plan = <<>> /\ action[a] = "cancelled"
                 \/ plan = <<SaveAction(a, "cancelled")>>
           \/ /\ t.val = "queued" /\ item[a].status \in {"retry_scheduled", "dead_lettered"}
              /\ plan = <<SaveAction(a, "queued")>>
           \/ /\ t.val = "dead_lettered" /\ item[a].status = "retry_scheduled"
              /\ plan = <<SaveAction(a, "dead_lettered")>>
    BY <1>2, <1>3, <1>4, <2>1, OperatorNext
  <2>3. Kept(a)'
    BY <1>7, <1>9, <2>2 DEF Kept, Numbered, NotesOf
  <2>4. plan = <<>> => AtRest(a)'
    BY <1>7, <1>9, <2>2, <2>3, Tuples DEF AtRest
  <2>5. plan # <<>> => OperatorAt(plan, a)'
    BY <1>9, <2>2, <2>3 DEF OperatorAt
  <2>6. item'[a].attemptCount = item[a].attemptCount /\ ~item'[a].waiting
    <3>1. t.val # "retry_scheduled" /\ t.n = item[a].attemptCount
      BY <2>2
    <3> QED BY <1>9, <3>1
  <2>7. Onward(a)
    BY <1>11, <2>6 DEF Onward
  <2> QED BY <2>4, <2>5, <2>7
<1>14. ASSUME a \in clean, p \in Workers
       PROVE  /\ Onward(a)
              /\ plan # <<>> /\ WorkerAt(plan, a)'
  <2>1. WorkerAt(s, a)
    BY <1>1, <1>2, <1>4, <1>5, <1>14, OnItsWay
  <2>2. /\ t.n = item[a].attemptCount + 1 /\ Numbered(a, t.n)
        /\ t.val \in Outcome /\ notes[a] = NotesOf(t.val)
        /\ plan = <<SaveAction(a, t.val)>>
    BY <1>2, <1>3, <1>4, <2>1, WorkerNext
  <2>3. Kept(a)'
    BY <1>7, <1>9, <1>12, <2>2 DEF Kept, Numbered, NotesOf
  <2>4. WorkerAt(plan, a)'
    BY <1>9, <2>2, <2>3 DEF WorkerAt
  <2>5. Onward(a)
    BY <1>9, <1>11, <2>2 DEF Onward
  <2> QED BY <2>2, <2>4, <2>5, Tuples
<1>15. Head(todo[p]).a = a /\ ~At(p, "claimRow") /\ clean' = clean
  BY <1>1, <1>2, <1>4, <1>5, <1>7 DEF At
<1> QED BY <1>4, <1>7, <1>8, <1>10, <1>13, <1>14, <1>15, CalmGoesOn

LEMMA CancelItemsCalm ==
  ASSUME GateInv, GateInv', PlanInv, CalmInv, NEW p \in Procs, DoCancelItems(p)
  PROVE  CalmInv'
<1> USE OutboxAssumption DEF SaveItem
<1>1. PICK s : s = todo[p]
  OBVIOUS
<1>2. PICK t : t = Head(s)
  OBVIOUS
<1>3. s # <<>> /\ ~Idle(p) /\ t.op = "cancelItems" /\ MayRun(p, s)
  BY <1>1, <1>2 DEF PlanInv, DoCancelItems, At, Idle
<1>4. PICK a \in Actions : a = t.a
  BY <1>2, <1>3, NextOfPlan
<1>5. PICK n : n = item[a].attemptCount
  OBVIOUS
<1>6. PICK plan : plan = IF item[a].status \in {"queued", "processing", "retry_scheduled"}
                         THEN <<SaveItem(a, "cancelled", n)>> ELSE <<>>
  OBVIOUS
<1>7. /\ todo' = [todo EXCEPT ![p] = plan] /\ clean' = clean
      /\ \A c \in Actions : SameRows(c)
  BY <1>1, <1>2, <1>4, <1>5, <1>6 DEF DoCancelItems, Continue, SameRows
<1>8. plan = <<>> \/ (Head(plan).a = a /\ Head(plan).op # "claimRow")
  BY <1>6, Tuples
<1>9. ASSUME a \in clean
      PROVE  /\ p \in Operators
             /\ plan = <<>> => AtRest(a)
             /\ plan # <<>> => OperatorAt(plan, a)
  <2>1. Calm(a) /\ (p \in Operators => OperatorAt(s, a)) /\ (p \in Workers => WorkerAt(s, a))
    BY <1>1, <1>2, <1>3, <1>4, <1>9, OnItsWay
  <2>2. p \in Operators
    BY <1>2, <1>3, <2>1, WorkerNext
  <2>3. /\ Kept(a) /\ action[a] = "cancelled"
        /\ item[a].status \in {"absent", "queued", "retry_scheduled", "dead_lettered"}
    BY <1>2, <1>3, <2>1, <2>2, OperatorNext
  <2>4. plan = <<>> => AtRest(a)
    BY <1>6, <2>3, Tuples DEF AtRest
  <2>5. plan # <<>> => OperatorAt(plan, a)
    BY <1>5, <1>6, <2>3 DEF OperatorAt
  <2> QED BY <2>2, <2>4, <2>5
<1>10. ASSUME a \in clean
       PROVE  /\ Onward(a) /\ p \notin Workers
              /\ plan = <<>> => AtRest(a)'
              /\ plan # <<>> => OperatorAt(plan, a)'
  <2>1. Onward(a)
    BY <1>7 DEF Onward, SameRows, GateInv, RowsTyped, Item
  <2> QED BY <1>7, <1>9, <1>10, <2>1, StandsStill
<1>11. Head(todo[p]).a = a /\ ~At(p, "claimRow")
  BY <1>1, <1>2, <1>3, <1>4 DEF At
<1> QED BY <1>3, <1>7, <1>8, <1>10, <1>11, CalmGoesOn

\* Undisturbed, the number of an attempt is never taken.
LEMMA SaveAttemptCalm ==
  ASSUME GateInv, GateInv', PlanInv, CalmInv, NEW p \in Procs,
         DoSaveAttempt(p) \/ AttemptSaveFails(p)
  PROVE  CalmInv'
<1> USE OutboxAssumption
<1>1. PICK s : s = todo[p]
  OBVIOUS
<1>2. PICK t : t = Head(s)
  OBVIOUS
<1>3. s # <<>> /\ ~Idle(p) /\ t.op = "saveAttempt" /\ MayRun(p, s)
  BY <1>1, <1>2 DEF PlanInv, DoSaveAttempt, AttemptSaveFails, At, Idle
<1>4. PICK a \in Actions : a = t.a
  BY <1>2, <1>3, NextOfPlan
<1>5. /\ p \in Workers /\ p \notin Operators
      /\ t.val \in AttemptState \ {"none"} /\ t.n \in 1 .. AttemptCap
      /\ \/ Tail(s) = <<>>
         \/ \E st \in SavedStatus : Tail(s) = <<SaveItem(a, st, t.n), SaveAction(a, st)>>
  BY <1>2, <1>3, <1>4, NextOfPlan
<1>6. PICK k : k = t.n - 1
  OBVIOUS
<1>7. PICK plan \in {Tail(s), <<>>, BlockTasks(a, "failed", k), RetryTasks(a, k)} :
        /\ todo' = [todo EXCEPT ![p] = plan]
        /\ \/ /\ attempts[a][t.n] = "none" /\ plan = Tail(s)
              /\ attempts' = [attempts EXCEPT ![a][t.n] = t.val] /\ clean' = clean
           \/ attempts[a][t.n] # "none" /\ UNCHANGED <<attempts, clean>>
           \/ Disturb(a, TRUE) /\ UNCHANGED attempts
  BY <1>1, <1>2, <1>4, <1>6, FailurePlans
     DEF DoSaveAttempt, AttemptSaveFails, Advance, Continue
<1>8. clean' \subseteq clean /\ (Disturb(a, TRUE) => a \notin clean')
  BY <1>7, Shrinks
<1>9. UNCHANGED <<action, item, notes>> /\ \A c \in Actions : c # a => SameRows(c)
  BY <1>7 DEF SameRows, DoSaveAttempt, AttemptSaveFails, GateInv, RowsTyped
<1>10. plan = <<>> \/ (Head(plan).a = a /\ Head(plan).op # "claimRow")
  <2>1. /\ Head(BlockTasks(a, "failed", k)).a = a
        /\ Head(BlockTasks(a, "failed", k)).op = "saveAttempt"
        /\ Head(RetryTasks(a, k)).a = a /\ Head(RetryTasks(a, k)).op = "saveAttempt"
    BY Tuples DEF BlockTasks, RetryTasks, SaveAttempt
  <2>2. \A st : /\ Head(<<SaveItem(a, st, t.n), SaveAction(a, st)>>).a = a
                /\ Head(<<SaveItem(a, st, t.n), SaveAction(a, st)>>).op = "saveItem"
    BY Tuples DEF SaveItem
  <2> QED BY <1>5, <1>7, <2>1, <2>2
<1>11. ASSUME a \in clean'
       PROVE  plan # <<>> /\ WorkerAt(plan, a)'
  <2>1. WorkerAt(s, a)
    BY <1>1, <1>2, <1>3, <1>4, <1>5, <1>8, <1>11, OnItsWay
  <2>2. PICK n \in 0 .. AttemptCap : n = item[a].attemptCount
    BY DEF GateInv, RowsTyped, Item
  <2>3. HoldsRow(a) /\ t.n = n + 1 /\ Numbered(a, n)
    BY <1>2, <1>3, <2>1, <2>2, WorkerNext
  <2>4. PICK st \in Outcome :
          notes[a] = NotesOf(st) /\ Tail(s) = <<SaveItem(a, st, n + 1), SaveAction(a, st)>>
    BY <1>2, <1>3, <2>1, <2>2, <2>3, WorkerNext
  <2>5. attempts[a][t.n] = "none"
    BY <1>5, <2>2, <2>3 DEF Numbered, GateInv, RowsTyped
  <2>6. plan = Tail(s) /\ attempts' = [attempts EXCEPT ![a][t.n] = t.val]
    BY <1>7, <1>8, <1>11, <2>5
  <2>7. Numbered(a, n + 1)'
    <3>1. attempts \in [Actions -> [1 .. AttemptCap -> AttemptState]]
      BY DEF GateInv, RowsTyped
    <3>2. \A i \in 1 .. AttemptCap : attempts'[a][i] = IF i = n + 1 THEN t.val ELSE attempts[a][i]
      BY <1>5, <2>3, <2>6, <3>1
    <3> QED BY <1>5, <2>2, <2>3, <3>2 DEF Numbered
  <2>8. Holding(plan, a)'
    BY <1>9, <2>2, <2>3, <2>4, <2>6, <2>7 DEF Holding, HoldsRow
  <2>9. plan # <<>>
    <3>1. \A x, y : <<x, y>> # <<>>
      BY Tuples
    <3> QED BY <2>4, <2>6, <3>1
  <2> QED BY <2>8, <2>9 DEF WorkerAt
<1>12. Onward(a)
  BY <1>9 DEF Onward, GateInv, RowsTyped, Item
<1>13. Head(todo[p]).a = a /\ ~At(p, "claimRow")
  BY <1>1, <1>2, <1>3, <1>4 DEF At
<1> QED BY <1>3, <1>5, <1>7, <1>8, <1>9, <1>10, <1>11, <1>12, <1>13, CalmGoesOn

LEMMA AbortCalm ==
  ASSUME GateInv, CalmInv, NEW p \in Procs, Abort(p)
  PROVE  CalmInv'
<1>1. PICK a : a = Head(todo[p]).a
  OBVIOUS
<1>2. /\ clean' \subseteq clean /\ a \notin clean'
      /\ todo' = [todo EXCEPT ![p] = <<>>]
      /\ \A c \in Actions : SameRows(c)
  BY <1>1, Shrinks DEF Abort, Continue, SameRows
<1>3. \A b \in Actions : b # a /\ Calm(b) => Calm(b)'
  BY <1>1, <1>2, CalmElsewhere
<1> QED BY <1>2, <1>3 DEF CalmInv, GateInv, RowsTyped

\* A lock that expires and a retry that falls due find nobody on the way.
LEMMA TimeCalm ==
  ASSUME GateInv, CalmInv, NEW a \in Actions, LockExpires(a) \/ BackoffElapses(a)
  PROVE  CalmInv'
<1>1. /\ UNCHANGED <<action, attempts, notes, todo>>
      /\ clean' \subseteq clean /\ (InFlight(a) # {} => a \notin clean')
  BY Shrinks DEF LockExpires, BackoffElapses
<1>2. /\ \A c \in Actions : c # a => SameRows(c)
      /\ item'[a].status = item[a].status /\ item'[a].attemptCount = item[a].attemptCount
      /\ item'[a].waiting => item[a].waiting
  <2>1. item[a] \in Item /\ item \in [Actions -> Item]
    BY DEF GateInv, RowsTyped
  <2>2. \/ item' = [item EXCEPT ![a] = [item[a] EXCEPT !.lock = "expired"]]
        \/ item' = [item EXCEPT ![a] = [item[a] EXCEPT !.waiting = FALSE]]
    BY <2>1 DEF LockExpires, BackoffElapses
  <2>3. /\ [item[a] EXCEPT !.lock = "expired"].status = item[a].status
        /\ [item[a] EXCEPT !.lock = "expired"].attemptCount = item[a].attemptCount
        /\ [item[a] EXCEPT !.lock = "expired"].waiting = item[a].waiting
        /\ [item[a] EXCEPT !.waiting = FALSE].status = item[a].status
        /\ [item[a] EXCEPT !.waiting = FALSE].attemptCount = item[a].attemptCount
        /\ ~[item[a] EXCEPT !.waiting = FALSE].waiting
    BY <2>1 DEF Item
  <2> QED BY <1>1, <2>1, <2>2, <2>3 DEF SameRows
<1>3. \A b : InFlight(b)' = InFlight(b)
  BY <1>1 DEF InFlight, At, Idle
<1>4. ASSUME NEW b \in Actions, b \in clean', b # a
      PROVE  Calm(b)'
  BY <1>1, <1>2, <1>3, <1>4, CalmIfSame DEF CalmInv
<1>5. ASSUME a \in clean'
      PROVE  Calm(a)'
  <2>1. Calm(a) /\ InFlight(a) = {} /\ InFlight(a)' = {}
    BY <1>1, <1>3, <1>5 DEF CalmInv
  <2>2. AtRest(a)'
    BY <1>1, <1>2, <2>1 DEF Calm, AtRest, Kept, Numbered
  <2>3. FoundBefore(a)'
    BY <1>1, <1>2, <2>1 DEF Calm, FoundBefore, At, Idle
  <2> QED BY <2>1, <2>2, <2>3 DEF Calm
<1> QED BY <1>1, <1>4, <1>5 DEF CalmInv, GateInv, RowsTyped

LEMMA CalmInit == ASSUME Init PROVE CalmInv
<1> USE OutboxAssumption
<1>1. \A p \in Procs : Idle(p)
  BY DEF Init, Idle
<1>2. \A a \in Actions : InFlight(a) = {} /\ FoundBefore(a)
  BY <1>1 DEF InFlight, FoundBefore, At
<1>3. \A a \in Actions : AtRest(a)
  BY DEF Init, AtRest, Kept, Numbered, NotesOf, NoItem
<1>4. clean \subseteq Actions
  BY DEF Init
<1> QED BY <1>2, <1>3, <1>4 DEF CalmInv, Calm

LEMMA CalmStep ==
  ASSUME GateInv, GateInv', PlanInv, CalmInv, [Next]_vars
  PROVE  CalmInv'
<1>1. CASE OperatorStep
  BY <1>1, CreateCalm, OperatorCalm DEF OperatorStep
<1>2. ASSUME UNCHANGED <<action, item, attempts, notes, todo, clean>>
      PROVE  CalmInv'
  <2>1. \A b \in Actions : SameRows(b) /\ InFlight(b)' = InFlight(b)
    BY <1>2 DEF SameRows, InFlight, At, Idle
  <2>2. \A b \in Actions : Calm(b) => Calm(b)'
    BY <1>2, <2>1, CalmIfSame
  <2> QED BY <1>2, <2>2 DEF CalmInv, GateInv, RowsTyped
<1>3. CASE PolicyStep
  BY <1>2, <1>3 DEF PolicyStep, SetPolicy
<1>4. ASSUME NEW p \in Workers, ClaimStep(p) \/ \E a \in Actions : MockDeliver(p, a)
      PROVE  CalmInv'
  <2>1. \E a \in Actions, o \in DeliveryOptions : FindCandidate(p, a, o)
    BY <1>4 DEF ClaimStep, ProcessOnce, ProcessItem, MockDeliver, Options
  <2> QED BY <2>1, FindCalm
<1>5. ASSUME NEW p \in Procs, RequestStep(p)
      PROVE  CalmInv'
  BY <1>5, ClaimCalm, ProcessCalm, NoteCalm, SaveActionCalm, CreateItemCalm, SaveItemCalm,
     CancelItemsCalm, SaveAttemptCalm DEF RequestStep
<1>6. ASSUME NEW p \in Procs, Abort(p)
      PROVE  CalmInv'
  BY <1>6, AbortCalm
<1>7. CASE TimeStep
  BY <1>7, TimeCalm DEF TimeStep
<1>8. CASE UNCHANGED vars
  BY <1>2, <1>8 DEF vars
<1> QED BY <1>1, <1>3, <1>4, <1>5, <1>6, <1>7, <1>8 DEF Next

\* The three invariants together, on which the theorems below rest.
OrderInv == GateInv /\ PlanInv /\ CalmInv

LEMMA OrderInvAlways == Spec => []OrderInv
<1>1. Init => OrderInv
  BY GateInvInit, PlanInit, CalmInit DEF OrderInv
<1>2. OrderInv /\ [Next]_vars => OrderInv'
  BY GateInvStep, PlanStep, CalmStep DEF OrderInv
<1> QED BY <1>1, <1>2, PTL DEF Spec

\* A set whose members are all equal has at most one.
LEMMA AtMostOne ==
  ASSUME NEW S, \A x, y \in S : x = y
  PROVE  Cardinality(S) <= 1
<1>1. CASE S = {}
  BY <1>1, FS_EmptySet
<1>2. CASE S # {}
  <2>1. PICK x : x \in S
    BY <1>2
  <2>2. S = {x}
    BY <2>1
  <2> QED BY <2>2, FS_Singleton
<1> QED BY <1>1, <1>2

\* Two workers are never on their way to write one undisturbed item, however
\* many poll: the claim that comes second finds the lock, another status or a
\* later attempt than the one it read.
THEOREM OneWorkerAtATime == Spec => []OneWorkerPerItem
<1>1. OrderInv => OneWorkerPerItem
  <2> SUFFICES ASSUME OrderInv, NEW a \in clean
               PROVE  Cardinality(InFlight(a) \cap Workers) <= 1
    BY DEF OneWorkerPerItem
  <2>1. \A p, q \in InFlight(a) \cap Workers : p = q
    BY DEF OrderInv, CalmInv, Calm
  <2> QED BY <2>1, AtMostOne
<1> QED BY <1>1, OrderInvAlways, PTL

\* Undisturbed, an action gets at most one note on the external ticket through
\* every failure, retry and dead-letter: a note is written by a worker that
\* holds the claim, on rows whose attempts report none.
THEOREM NotesAtMostOne == Spec => []AtMostOneNote
<1>1. OrderInv => AtMostOneNote
  <2> SUFFICES ASSUME OrderInv, NEW a \in clean
               PROVE  notes[a] <= 1
    BY DEF AtMostOneNote
  <2>1. Calm(a)
    BY DEF OrderInv, CalmInv
  <2>2. \A s : NotesOf(s) <= 1
    BY DEF NotesOf
  <2>3. CASE InFlight(a) = {}
    BY <2>1, <2>2, <2>3 DEF Calm, AtRest, Kept
  <2>4. ASSUME NEW p \in InFlight(a)
        PROVE  notes[a] <= 1
    <3>1. CASE p \in Operators
      BY <2>1, <2>2, <2>4, <3>1 DEF Calm, OperatorAt, Kept
    <3>2. CASE p \in Workers
      BY <2>1, <2>2, <2>4, <3>2 DEF Calm, WorkerAt, Holding, Kept
    <3> QED BY <3>1, <3>2 DEF InFlight
  <2> QED BY <2>3, <2>4
<1> QED BY <1>1, OrderInvAlways, PTL

\* Undisturbed and between requests, the action row and the outbox row agree,
\* and the attempts are numbered without gaps, as reports read them.
THEOREM RowsAlwaysAgree == Spec => []RowsAgree
<1>1. OrderInv => RowsAgree
  <2> SUFFICES ASSUME OrderInv, NEW a \in clean, InFlight(a) = {}
               PROVE  /\ \/ /\ item[a].status = "absent"
                            /\ action[a] \in {"none", "draft", "review_required", "approved",
                                              "rejected", "cancelled"}
                         \/ action[a] = item[a].status
                         \/ action[a] = "cancelled" /\ item[a].status = "dead_lettered"
                      /\ {n \in 1 .. AttemptCap : attempts[a][n] # "none"}
                           = 1 .. item[a].attemptCount
    BY DEF RowsAgree
  <2>1. AtRest(a)
    BY DEF OrderInv, CalmInv, Calm
  <2>2. item[a].attemptCount \in 0 .. AttemptCap
    BY DEF OrderInv, GateInv, RowsTyped, Item
  <2>3. {n \in 1 .. AttemptCap : attempts[a][n] # "none"} = 1 .. item[a].attemptCount
    BY <2>1, <2>2, OutboxAssumption DEF AtRest, Kept, Numbered
  <2> QED BY <2>1, <2>3 DEF AtRest
<1> QED BY <1>1, OrderInvAlways, PTL

\* The status of an undisturbed row that a step changes was not final.
LEMMA StatusStep ==
  ASSUME OrderInv, OrderInv', [Next]_vars, NEW a \in Actions, a \in clean'
  PROVE  \/ item'[a].status = item[a].status
         \/ item[a].status \in {"absent", "queued", "processing", "retry_scheduled",
                                "dead_lettered"}
<1> USE DEF OrderInv
<1>1. \/ item'[a] = item[a] \/ item'[a].status = item[a].status
      \/ \E p \in Procs : DoClaimRow(p) \/ DoCreateItem(p) \/ DoSaveItem(p)
  <2>1. ASSUME TimeStep
        PROVE  item'[a].status = item[a].status
    <3>1. PICK b \in Actions : LockExpires(b) \/ BackoffElapses(b)
      BY <2>1 DEF TimeStep
    <3>2. item \in [Actions -> Item] /\ item[b] \in Item
      BY DEF GateInv, RowsTyped
    <3>3. \/ item' = [item EXCEPT ![b] = [item[b] EXCEPT !.lock = "expired"]]
          \/ item' = [item EXCEPT ![b] = [item[b] EXCEPT !.waiting = FALSE]]
      BY <3>1, <3>2 DEF LockExpires, BackoffElapses
    <3>4. /\ [item[b] EXCEPT !.lock = "expired"].status = item[b].status
          /\ [item[b] EXCEPT !.waiting = FALSE].status = item[b].status
      BY <3>2 DEF Item
    <3> QED BY <3>2, <3>3, <3>4
  <2>2. ASSUME OperatorStep \/ PolicyStep \/ UNCHANGED vars
        PROVE  item' = item
    BY <2>2 DEF OperatorStep, CreateAction, SubmitForReview, Approve, Reject, Queue, Cancel,
       RetryOutbox, CancelOutbox, DeadLetterOutbox, Operate, PolicyStep, SetPolicy, vars
  <2>3. ASSUME NEW p \in Workers, ClaimStep(p) \/ \E b \in Actions : MockDeliver(p, b)
        PROVE  item' = item
    BY <2>3 DEF ClaimStep, ProcessOnce, ProcessItem, MockDeliver, FindCandidate
  <2>4. ASSUME NEW p \in Procs, RequestStep(p) \/ Abort(p)
        PROVE  item' = item \/ DoClaimRow(p) \/ DoCreateItem(p) \/ DoSaveItem(p)
    BY <2>4 DEF RequestStep, ProcessClaimed, NoteWritten, NoteRefused, NoteReplyLost,
       DoSaveAction, DoCancelItems, DoSaveAttempt, AttemptSaveFails, Abort
  <2> QED BY <2>1, <2>2, <2>3, <2>4 DEF Next
<1>2. ASSUME NEW p \in Procs, DoClaimRow(p) \/ DoCreateItem(p) \/ DoSaveItem(p)
      PROVE  \/ item'[a] = item[a]
             \/ item[a].status \in {"absent", "queued", "processing", "retry_scheduled",
                                    "dead_lettered"}
  <2>1. PICK s : s = todo[p]
    OBVIOUS
  <2>2. PICK t : t = Head(s)
    OBVIOUS
  <2>3. /\ s # <<>> /\ MayRun(p, s) /\ t.op \in {"claimRow", "createItem", "saveItem"}
        /\ DoClaimRow(p) => t.op = "claimRow"
        /\ DoSaveItem(p) => t.op = "saveItem"
    BY <1>2, <2>1, <2>2 DEF PlanInv, DoClaimRow, DoCreateItem, DoSaveItem, At, Idle
  <2>4. t.a \in Actions /\ (t.op = "claimRow" => t.read \in OpenStatus)
    BY <2>2, <2>3, NextOfPlan
  <2>5. t.a # a => item'[a] = item[a]
    BY <1>2, <2>1, <2>2, <2>4 DEF DoClaimRow, DoCreateItem, DoSaveItem, GateInv, RowsTyped
  <2>6. CASE DoClaimRow(p) /\ t.a = a
    BY <2>1, <2>2, <2>3, <2>4, <2>6 DEF DoClaimRow, OpenStatus
  <2>7. CASE DoCreateItem(p) /\ t.a = a
    BY <2>1, <2>2, <2>7 DEF DoCreateItem
  <2>8. CASE DoSaveItem(p) /\ t.a = a
    <3>1. a \in clean
      BY <2>8 DEF DoSaveItem
    <3>2. (p \in Operators => OperatorAt(s, a)) /\ (p \in Workers => WorkerAt(s, a))
      BY <2>1, <2>2, <2>3, <2>8, <3>1, OnItsWay
    <3>3. CASE p \in Operators
      BY <2>2, <2>3, <2>8, <3>2, <3>3, OperatorNext
    <3>4. CASE p \in Workers
      BY <2>2, <2>3, <2>8, <3>2, <3>4, WorkerNext DEF HoldsRow
    <3> QED BY <3>3, <3>4
  <2> QED BY <1>2, <2>5, <2>6, <2>7, <2>8
<1> QED BY <1>1, <1>2

\* Undisturbed, a delivered or cancelled item keeps its status for good:
\* the saves that could undo it belong to requests that found it open.
THEOREM FinalStatusHolds == Spec => FinalStatusKept
<1> DEFINE A == \A a \in clean' : item[a].status \in Delivered \cup {"cancelled"}
                                    => item'[a].status = item[a].status
<1>1. OrderInv /\ OrderInv' /\ [Next]_vars => [A]_vars
  <2>1. ASSUME OrderInv, OrderInv', [Next]_vars, NEW a \in clean',
               item[a].status \in Delivered \cup {"cancelled"}
        PROVE  item'[a].status = item[a].status
    <3>1. a \in Actions
      BY <2>1 DEF OrderInv, GateInv, RowsTyped
    <3> QED BY <2>1, <3>1, StatusStep DEF Delivered
  <2> QED BY <2>1
<1>2. Spec => [][A]_vars
  BY <1>1, OrderInvAlways, PTL DEF Spec
<1> QED BY <1>2 DEF FinalStatusKept

-----------------------------------------------------------------------------
(* The refinement: every step of the outbox is one of the promise, or none *)

Out == [a \in Actions |-> OutcomeOf(item[a])]

Same == UNCHANGED <<notes, reviewed>> /\ Out' = Out

PromiseStep == [Promise!Next]_(Promise!promiseVars)

\* The outcomes, by status.
LEMMA OutcomeCases ==
  ASSUME NEW row, row.status \in ItemStatus
  PROVE  /\ row.status = "absent" <=> OutcomeOf(row) = "none"
         /\ row.status \in OpenStatus <=> OutcomeOf(row) = "open"
         /\ row.status \notin OpenStatus \cup {"absent"} =>
              /\ OutcomeOf(row) = row.status
              /\ row.status \in {"mock_delivered", "sandbox_delivered", "dead_lettered", "cancelled"}
BY DEF OutcomeOf, OpenStatus, ItemStatus

\* A step that changes nothing a reader of the promise sees but, at most,
\* that an action is disturbed.
LEMMA PromiseSame ==
  ASSUME Same, NEW a \in Actions, NEW b, clean' = clean \/ Disturb(a, b)
  PROVE  PromiseStep
<1>1. CASE clean' = clean
  BY <1>1 DEF Same, Out, PromiseStep, Promise!promiseVars
<1>2. CASE clean' = clean \ {a}
  <2>1. Promise!Disturb(a)
    BY <1>2 DEF Same, Out, Promise!Disturb
  <2> QED BY <2>1 DEF PromiseStep, Promise!Next
<1> QED BY <1>1, <1>2 DEF Disturb

LEMMA PromiseStill ==
  ASSUME Same, clean' = clean
  PROVE  PromiseStep
BY DEF Same, Out, PromiseStep, Promise!promiseVars

\* The outcome of one row changes.
LEMMA OutAt ==
  ASSUME NEW a \in Actions, \A b \in Actions : b # a => item'[b] = item[b]
  PROVE  /\ Out' = [Out EXCEPT ![a] = OutcomeOf(item'[a])]
         /\ OutcomeOf(item'[a]) = OutcomeOf(item[a]) => Out' = Out
BY DEF Out, OutcomeOf

LEMMA PromiseClaim ==
  ASSUME OrderInv, NEW p \in Procs, DoClaimRow(p)
  PROVE  PromiseStep
<1> USE DEF OrderInv
<1>1. PICK t : t = Head(todo[p])
  OBVIOUS
<1>2. todo[p] # <<>> /\ t.op = "claimRow" /\ MayRun(p, todo[p])
  BY <1>1 DEF PlanInv, DoClaimRow, At, Idle
<1>3. PICK a \in Actions : a = t.a /\ t.read \in OpenStatus
  BY <1>1, <1>2, NextOfPlan
<1>4. UNCHANGED <<notes, reviewed>>
  BY DEF DoClaimRow
<1>5. CASE UNCHANGED <<item, clean>>
  BY <1>4, <1>5, PromiseStill DEF Same, Out
<1>6. CASE /\ item[a].status = t.read
           /\ item' = [item EXCEPT ![a].status = "processing", ![a].lock = "live"]
           /\ \E b : Disturb(a, b)
  <2>1. /\ \A b \in Actions : b # a => item'[b] = item[b]
        /\ item'[a].status = "processing" /\ item[a].status \in OpenStatus
        /\ item[a].status \in ItemStatus /\ item'[a].status \in ItemStatus
    BY <1>3, <1>6 DEF GateInv, RowsTyped, Item, ItemStatus
  <2>2. OutcomeOf(item'[a]) = "open" /\ OutcomeOf(item[a]) = "open"
    BY <2>1, OutcomeCases DEF OpenStatus
  <2>3. Out' = Out
    BY <2>1, <2>2, OutAt
  <2> QED BY <1>4, <1>6, <2>3, PromiseSame DEF Same
<1> QED BY <1>1, <1>3, <1>5, <1>6 DEF DoClaimRow

\* A note is the first of an undisturbed, open action.
LEMMA PromiseNote ==
  ASSUME OrderInv, NEW p \in Procs, NoteWritten(p) \/ NoteReplyLost(p)
  PROVE  PromiseStep
<1> USE OutboxAssumption DEF OrderInv
<1>1. PICK s : s = todo[p]
  OBVIOUS
<1>2. PICK t : t = Head(s)
  OBVIOUS
<1>3. s # <<>> /\ t.op = "writeNote" /\ MayRun(p, s)
  BY <1>1, <1>2 DEF PlanInv, NoteWritten, NoteReplyLost, At, Idle
<1>4. PICK a \in Actions : a = t.a
  BY <1>2, <1>3, NextOfPlan
<1>5. p \in Workers /\ Present(a)
  BY <1>2, <1>3, <1>4, NextOfPlan
<1>6. /\ notes' = [notes EXCEPT ![a] = Counted(notes[a])]
      /\ UNCHANGED <<item, reviewed>>
      /\ clean' = clean \/ Disturb(a, TRUE)
  BY <1>1, <1>2, <1>4 DEF NoteWritten, NoteReplyLost
<1>7. Out' = Out /\ notes \in [Actions -> 0 .. NoteCap] /\ item[a].status \in ItemStatus
  BY <1>6 DEF Out, GateInv, RowsTyped, Item
<1>8. a \in reviewed
  BY <1>5 DEF GateInv, RowsReviewed, ReviewedBeforeDelivery, Present
<1>9. CASE Counted(notes[a]) = notes[a]
  <2>1. notes' = notes
    BY <1>6, <1>7, <1>9
  <2> QED BY <1>6, <1>7, <2>1, PromiseSame DEF Same
<1>10. CASE Counted(notes[a]) = notes[a] + 1 /\ clean' = clean \ {a}
  <2>1. Out[a] # "none"
    BY <1>5, <1>7, OutcomeCases DEF Out, Present
  <2>2. Promise!Disturb(a)
    BY <1>6, <1>7, <1>8, <1>10, <2>1 DEF Promise!Disturb, Out
  <2> QED BY <2>2 DEF PromiseStep, Promise!Next
<1>11. CASE Counted(notes[a]) = notes[a] + 1 /\ a \in clean /\ clean' = clean
  <2>1. WorkerAt(s, a)
    BY <1>1, <1>2, <1>3, <1>4, <1>5, <1>11, OnItsWay
  <2>2. item[a].status = "processing" /\ notes[a] = 0
    BY <1>2, <1>3, <2>1, WorkerNext DEF HoldsRow
  <2>3. Out[a] = "open" /\ notes'[a] = 1
    BY <1>6, <1>7, <1>11, <2>2, OutcomeCases DEF Out, OpenStatus
  <2>4. Promise!Write(a)
    BY <1>6, <1>7, <1>11, <2>2, <2>3 DEF Promise!Write, Out
  <2> QED BY <2>4 DEF PromiseStep, Promise!Next
<1>12. a \notin clean => clean' = clean \ {a}
  BY <1>6 DEF Disturb
<1> QED BY <1>6, <1>9, <1>10, <1>11, <1>12 DEF Counted, Disturb

LEMMA PromiseSaveAction ==
  ASSUME OrderInv, NEW p \in Procs, DoSaveAction(p)
  PROVE  PromiseStep
<1> USE DEF OrderInv
<1>1. PICK t : t = Head(todo[p])
  OBVIOUS
<1>2. t.a \in Actions
  BY <1>1, NextCall, CallArguments DEF GateInv, DoSaveAction, At
<1>3. UNCHANGED <<item, notes, clean>> /\ Out' = Out
  BY DEF DoSaveAction, Out
<1>4. CASE reviewed' = reviewed
  BY <1>3, <1>4, PromiseStill DEF Same
<1>5. CASE reviewed' = reviewed \cup {t.a}
  <2>1. Promise!Approve(t.a)
    BY <1>3, <1>5 DEF Promise!Approve, Out
  <2> QED BY <1>2, <2>1 DEF PromiseStep, Promise!Next
<1> QED BY <1>1, <1>4, <1>5 DEF DoSaveAction

LEMMA PromiseCreateItem ==
  ASSUME OrderInv, NEW p \in Procs, DoCreateItem(p)
  PROVE  PromiseStep
<1> USE DEF OrderInv
<1>1. PICK t : t = Head(todo[p])
  OBVIOUS
<1>2. t \in PermittedTask(reviewed) /\ t.op = "createItem"
  BY <1>1, NextCall DEF GateInv, DoCreateItem, At
<1>3. PICK a \in Actions : a = t.a /\ a \in reviewed
  BY <1>2, CallArguments
<1>4. UNCHANGED <<notes, reviewed, clean>>
  BY DEF DoCreateItem
<1>5. CASE item' = item
  BY <1>4, <1>5, PromiseStill DEF Same, Out
<1>6. CASE /\ item[a].status = "absent"
           /\ item' = [item EXCEPT ![a] = [NoItem EXCEPT !.status = "queued", !.mode = t.val,
                                                         !.queuedAt = ItemCount]]
  <2>1. /\ \A b \in Actions : b # a => item'[b] = item[b]
        /\ item'[a].status = "queued"
    BY <1>6 DEF GateInv, RowsTyped, NoItem
  <2>2. OutcomeOf(item'[a]) = "open" /\ Out[a] = "none"
    <3>1. item'[a].status \in ItemStatus /\ item[a].status \in ItemStatus
      BY <1>6, <2>1 DEF ItemStatus
    <3>2. OutcomeOf(item'[a]) = "open"
      BY <2>1, <3>1, OutcomeCases DEF OpenStatus
    <3>3. OutcomeOf(item[a]) = "none"
      BY <1>6, <3>1, OutcomeCases
    <3> QED BY <3>2, <3>3 DEF Out
  <2>3. Out' = [Out EXCEPT ![a] = "open"]
    BY <2>1, <2>2, OutAt
  <2>4. Promise!Accept(a)
    BY <1>3, <1>4, <2>2, <2>3 DEF Promise!Accept, Out
  <2> QED BY <2>4 DEF PromiseStep, Promise!Next
<1> QED BY <1>1, <1>3, <1>5, <1>6 DEF DoCreateItem

\* A save concludes an open action with what happened to it, or reopens one
\* that was given up.
LEMMA PromiseSaveItem ==
  ASSUME OrderInv, NEW p \in Procs, DoSaveItem(p)
  PROVE  PromiseStep
<1> USE OutboxAssumption DEF OrderInv
<1>1. PICK s : s = todo[p]
  OBVIOUS
<1>2. PICK t : t = Head(s)
  OBVIOUS
<1>3. /\ s # <<>> /\ t.op = "saveItem" /\ MayRun(p, s)
      /\ t \in PermittedTask(reviewed)
  BY <1>1, <1>2, NextCall DEF GateInv, PlanInv, DoSaveItem, At, Idle
<1>4. PICK a \in Actions : a = t.a /\ a \in reviewed
  BY <1>3, CallArguments
<1>5. t.val \in SavedStatus
  BY <1>2, <1>3, NextOfPlan
<1>6. /\ UNCHANGED <<notes, reviewed, clean>>
      /\ \A b \in Actions : b # a => item'[b] = item[b]
      /\ item'[a].status = t.val
  <2>1. item \in [Actions -> Item]
    BY DEF GateInv, RowsTyped
  <2>2. /\ UNCHANGED <<notes, reviewed, clean>>
        /\ item' = [item EXCEPT ![a] = [item[a] EXCEPT !.status = t.val, !.attemptCount = t.n,
                                                       !.lock = "none",
                                                       !.waiting = (t.val = "retry_scheduled")]]
    BY <1>1, <1>2, <1>4, <2>1 DEF DoSaveItem
  <2> QED BY <2>1, <2>2 DEF Item
<1>7. PICK o : o = OutcomeOf(item'[a])
  OBVIOUS
<1>8. /\ o \in {"open", "mock_delivered", "sandbox_delivered", "dead_lettered", "cancelled"}
      /\ t.val \in OpenStatus <=> o = "open"
      /\ t.val \notin OpenStatus => o = t.val
  BY <1>5, <1>6, <1>7, OutcomeCases DEF SavedStatus, OpenStatus, ItemStatus
<1>9. Out' = [Out EXCEPT ![a] = o] /\ (o = Out[a] => Out' = Out)
  BY <1>6, <1>7, OutAt DEF Out
<1>10. CASE a \notin clean
  <2>1. clean' = clean \ {a}
    BY <1>6, <1>10
  <2>2. Promise!Disturb(a)
    BY <1>4, <1>6, <1>8, <1>9, <2>1 DEF Promise!Disturb, Promise!Outcomes, Out
  <2> QED BY <2>2 DEF PromiseStep, Promise!Next
<1>11. CASE a \in clean
  <2>1. (p \in Operators => OperatorAt(s, a)) /\ (p \in Workers => WorkerAt(s, a))
    BY <1>1, <1>2, <1>3, <1>4, <1>11, OnItsWay
  <2>2. item[a].status \in ItemStatus
    BY DEF GateInv, RowsTyped, Item
  <2>3. \/ /\ item[a].status \in OpenStatus
           /\ o = "mock_delivered" => notes[a] = 0
           /\ o = "sandbox_delivered" => notes[a] = 1
        \/ item[a].status = "dead_lettered" /\ o = "open"
    <3>1. CASE p \in Operators
      BY <1>2, <1>3, <1>8, <2>1, <3>1, OperatorNext DEF OpenStatus
    <3>2. CASE p \in Workers
      <4>1. item[a].status = "processing" /\ notes[a] = NotesOf(t.val)
        BY <1>2, <1>3, <2>1, <3>2, WorkerNext DEF HoldsRow
      <4> QED BY <1>8, <4>1 DEF NotesOf, OpenStatus
    <3> QED BY <3>1, <3>2
  <2>4. CASE item[a].status \in OpenStatus /\ o = "open"
    <3>1. Out' = Out
      BY <1>9, <2>2, <2>4, OutcomeCases DEF Out
    <3> QED BY <1>6, <3>1, PromiseStill DEF Same
  <2>5. CASE item[a].status \in OpenStatus /\ o # "open"
    <3>1. Out[a] = "open"
      BY <2>2, <2>5, OutcomeCases DEF Out
    <3>2. o \in Promise!Outcomes
      BY <1>8, <2>5 DEF Promise!Outcomes
    <3>3. /\ o = "mock_delivered" => notes[a] = 0
          /\ o = "sandbox_delivered" => notes[a] = 1
      BY <2>3, <2>5 DEF OpenStatus
    <3>4. Promise!Conclude(a)
      BY <1>6, <1>9, <3>1, <3>2, <3>3 DEF Promise!Conclude, Out
    <3> QED BY <3>4 DEF PromiseStep, Promise!Next
  <2>6. CASE item[a].status = "dead_lettered" /\ o = "open"
    <3>1. Out[a] = "dead_lettered"
      BY <2>2, <2>6, OutcomeCases DEF Out, OpenStatus
    <3>2. Promise!Reopen(a)
      BY <1>6, <1>9, <2>6, <3>1 DEF Promise!Reopen, Out
    <3> QED BY <3>2 DEF PromiseStep, Promise!Next
  <2> QED BY <2>3, <2>4, <2>5, <2>6
<1> QED BY <1>10, <1>11

LEMMA PromiseOfStep == ASSUME OrderInv, [Next]_vars PROVE PromiseStep
<1>1. ASSUME OperatorStep
      PROVE  PromiseStep
  <2>1. UNCHANGED <<item, notes, reviewed>>
        /\ (clean' = clean \/ \E a \in Actions, b \in BOOLEAN : Disturb(a, b))
    BY <1>1 DEF OperatorStep, CreateAction, SubmitForReview, Approve, Reject, Queue, Cancel,
       RetryOutbox, CancelOutbox, DeadLetterOutbox, Operate
  <2> QED BY <2>1, PromiseSame, PromiseStill DEF Same, Out
<1>2. ASSUME PolicyStep \/ UNCHANGED vars
      PROVE  PromiseStep
  BY <1>2, PromiseStill DEF PolicyStep, SetPolicy, vars, Same, Out
<1>3. ASSUME NEW p \in Workers, ClaimStep(p) \/ \E a \in Actions : MockDeliver(p, a)
      PROVE  PromiseStep
  <2>1. UNCHANGED <<item, notes, reviewed, clean>>
    BY <1>3 DEF ClaimStep, ProcessOnce, ProcessItem, MockDeliver, FindCandidate
  <2> QED BY <2>1, PromiseStill DEF Same, Out
<1>4. ASSUME NEW p \in Procs, RequestStep(p) \/ Abort(p)
      PROVE  PromiseStep
  <2>1. CASE DoClaimRow(p) \/ NoteWritten(p) \/ NoteReplyLost(p) \/ DoSaveAction(p)
             \/ DoCreateItem(p) \/ DoSaveItem(p)
    BY <2>1, PromiseClaim, PromiseNote, PromiseSaveAction, PromiseCreateItem, PromiseSaveItem
  <2>2. CASE \/ ProcessClaimed(p) \/ NoteRefused(p) \/ DoCancelItems(p) \/ DoSaveAttempt(p)
             \/ AttemptSaveFails(p) \/ Abort(p)
    <3>1. Head(todo[p]).a \in Actions
      BY <2>2, NextCall, CallArguments
         DEF OrderInv, GateInv, ProcessClaimed, NoteRefused, DoCancelItems, DoSaveAttempt,
             AttemptSaveFails, Abort, At
    <3>2. Same
      BY <2>2 DEF Same, Out, ProcessClaimed, NoteRefused, DoCancelItems, DoSaveAttempt,
         AttemptSaveFails, Abort
    <3>3. clean' = clean \/ \E b : Disturb(Head(todo[p]).a, b)
      BY <2>2 DEF ProcessClaimed, NoteRefused, DoCancelItems, DoSaveAttempt, AttemptSaveFails,
         Abort
    <3> QED BY <3>1, <3>2, <3>3, PromiseSame, PromiseStill
  <2> QED BY <1>4, <2>1, <2>2 DEF RequestStep
<1>5. ASSUME TimeStep
      PROVE  PromiseStep
  <2>1. PICK a \in Actions : LockExpires(a) \/ BackoffElapses(a)
    BY <1>5 DEF TimeStep
  <2>2. item[a] \in Item /\ item \in [Actions -> Item]
    BY DEF OrderInv, GateInv, RowsTyped
  <2>3. \/ item' = [item EXCEPT ![a] = [item[a] EXCEPT !.lock = "expired"]]
        \/ item' = [item EXCEPT ![a] = [item[a] EXCEPT !.waiting = FALSE]]
    BY <2>1, <2>2 DEF LockExpires, BackoffElapses
  <2>4. /\ [item[a] EXCEPT !.lock = "expired"].status = item[a].status
        /\ [item[a] EXCEPT !.waiting = FALSE].status = item[a].status
    BY <2>2 DEF Item
  <2>5. /\ \A b \in Actions : b # a => item'[b] = item[b]
        /\ item'[a].status = item[a].status
    BY <2>2, <2>3, <2>4
  <2>6. Out' = Out
    BY <2>5, OutAt DEF OutcomeOf
  <2> QED BY <2>1, <2>6, PromiseSame DEF Same, LockExpires, BackoffElapses
<1> QED BY <1>1, <1>2, <1>3, <1>4, <1>5 DEF Next

\* The outbox implements its promise: approval comes first, then acceptance,
\* then at most one note, and a conclusion that reports what happened and is
\* final, for every action that no crash, stall or overlap has disturbed.
THEOREM OutboxKeepsPromise == Spec => PromiseKept
<1>1. Init => Promise!Init
  BY DEF Init, Promise!Init, OutcomeOf, NoItem
<1>2. OrderInv /\ [Next]_vars => [Promise!Next]_(Promise!promiseVars)
  BY PromiseOfStep DEF PromiseStep
<1> QED BY <1>1, <1>2, OrderInvAlways, PTL DEF Spec, PromiseKept, Promise!Spec

-----------------------------------------------------------------------------
(* The readers of the outbox *)

\* An undisturbed action is saved as delivered after its item.
ActionsFollow ==
  \A a \in clean : action[a] \in Delivered => item[a].status = action[a]

\* What a report has read of the actions is still true of their items.
ReadStands ==
  /\ report \in [read : {{}, {"actions"}}, actions : [Actions -> Delivered \cup {"open"}],
                 items : {NoReport.items}]
  /\ report.read = {"actions"} =>
       \A a \in clean : report.actions[a] \in Delivered => item[a].status = report.actions[a]

ReportInv == OrderInv /\ ActionsFollow /\ ReadStands

\* An action that a step saves as delivered has its item saved before.
LEMMA ActionStep ==
  ASSUME OrderInv, OrderInv', [Next]_vars, NEW a \in Actions, a \in clean',
         action'[a] \in Delivered
  PROVE  action'[a] = action[a] \/ action'[a] = item'[a].status
<1> USE DEF OrderInv
<1>1. action' = action \/ (\E b \in Actions : CreateAction(b)) \/ \E p \in Procs : DoSaveAction(p)
  BY DEF Next, OperatorStep, SubmitForReview, Approve, Reject, Queue, Cancel, RetryOutbox,
     CancelOutbox, DeadLetterOutbox, Operate, PolicyStep, SetPolicy, ClaimStep, ProcessOnce,
     ProcessItem, MockDeliver, FindCandidate, RequestStep, DoClaimRow, ProcessClaimed,
     NoteWritten, NoteRefused, NoteReplyLost, DoCreateItem, DoSaveItem, DoCancelItems,
     DoSaveAttempt, AttemptSaveFails, Abort, TimeStep, LockExpires, BackoffElapses, vars
<1>2. ASSUME NEW b \in Actions, CreateAction(b)
      PROVE  action'[a] = action[a]
  BY <1>2 DEF CreateAction, GateInv, RowsTyped, Delivered
<1>3. ASSUME NEW p \in Procs, DoSaveAction(p)
      PROVE  action'[a] = action[a] \/ action'[a] = item'[a].status
  <2>1. PICK s : s = todo[p]
    OBVIOUS
  <2>2. PICK t : t = Head(s)
    OBVIOUS
  <2>3. /\ s # <<>> /\ t.op = "saveAction" /\ item' = item /\ clean' = clean
        /\ action' = [action EXCEPT ![t.a] = t.val]
    BY <1>3, <2>1, <2>2 DEF DoSaveAction, At, Idle
  <2>4. CASE t.a = a
    <3>1. (p \in Operators => OperatorAt(s, a)) /\ (p \in Workers => WorkerAt(s, a))
      BY <2>1, <2>2, <2>3, <2>4, OnItsWay
    <3>2. action'[a] = t.val
      BY <2>3, <2>4 DEF GateInv, RowsTyped
    <3>3. CASE p \in Operators
      BY <2>2, <2>3, <3>1, <3>2, <3>3, OperatorNext DEF Delivered
    <3>4. CASE p \in Workers
      BY <2>2, <2>3, <3>1, <3>2, <3>4, WorkerNext
    <3> QED BY <3>3, <3>4
  <2>5. CASE t.a # a
    BY <2>3, <2>5 DEF GateInv, RowsTyped
  <2> QED BY <2>4, <2>5
<1> QED BY <1>1, <1>2, <1>3

\* What was disturbed stays so.
LEMMA CleanShrinks == ASSUME [Next]_vars PROVE clean' \subseteq clean
<1>1. (\E a, b : Disturb(a, b)) \/ clean' = clean
  BY DEF Next, OperatorStep, CreateAction, SubmitForReview, Approve, Reject, Queue, Cancel,
     RetryOutbox, CancelOutbox, DeadLetterOutbox, Operate, PolicyStep, SetPolicy, ClaimStep,
     ProcessOnce, ProcessItem, MockDeliver, FindCandidate, RequestStep, DoClaimRow,
     ProcessClaimed, NoteWritten, NoteRefused, NoteReplyLost, DoSaveAction, DoCreateItem,
     DoSaveItem, DoCancelItems, DoSaveAttempt, AttemptSaveFails, Abort, TimeStep, LockExpires,
     BackoffElapses, vars
<1> QED BY <1>1 DEF Disturb

LEMMA ReportStep ==
  ASSUME ReportInv, OrderInv', [ReportNext]_reportVars
  PROVE  ReportInv'
<1>1. [Next]_vars
  BY DEF ReportNext, OthersGoOn, ReadActions, ReadItems, Read, reportVars, vars
<1>2. \A a \in clean' : a \in Actions /\ a \in clean
  BY <1>1, CleanShrinks DEF ReportInv, OrderInv, GateInv, RowsTyped
<1>3. ASSUME NEW a \in clean', item[a].status \in Delivered
      PROVE  item'[a].status = item[a].status
  BY <1>1, <1>2, <1>3, StatusStep DEF ReportInv, Delivered
<1>4. ActionsFollow'
  BY <1>1, <1>2, <1>3, ActionStep DEF ReportInv, ActionsFollow
<1>5. ReadStands'
  <2>1. CASE report' = report
    BY <1>2, <1>3, <2>1 DEF ReportInv, ReadStands
  <2>2. CASE ReadActions
    <3>1. PICK told : told = [a \in Actions |-> Told(action[a])]
      OBVIOUS
    <3>2. /\ report.read = {} /\ UNCHANGED vars
          /\ report' = [[report EXCEPT !.actions = told] EXCEPT !.read = {"actions"}]
      <4>1. report.read = {} /\ report.read \cup {"actions"} = {"actions"}
        BY <2>2 DEF ReadActions, Read, Before
      <4>2. {"actions"} # {"actions", "items"}
        OBVIOUS
      <4>3. [report EXCEPT !.actions = told].read = {}
        BY <4>1 DEF ReportInv, ReadStands
      <4> QED BY <2>2, <3>1, <4>1, <4>2, <4>3 DEF ReadActions, Read
    <3>3. told \in [Actions -> Delivered \cup {"open"}]
      BY <3>1 DEF Told
    <3>4. report'.actions = told /\ report'.read = {"actions"} /\ report'.items = NoReport.items
      BY <3>2 DEF ReportInv, ReadStands
    <3>5. \A a \in clean : told[a] \in Delivered => item[a].status = told[a]
      BY <1>2, <3>1, <3>2 DEF ReportInv, ActionsFollow, Told, Delivered, vars
    <3> QED BY <3>2, <3>3, <3>4, <3>5 DEF ReportInv, ReadStands, NoReport, vars
  <2>3. CASE ReadItems
    BY <2>3 DEF ReportInv, ReadStands, ReadItems, Read, NoReport, Before
  <2> QED BY <2>1, <2>2, <2>3 DEF ReportNext, OthersGoOn, reportVars
<1> QED BY <1>4, <1>5 DEF ReportInv

\* The attempts that an undisturbed item counts are stored, whoever is about
\* to write to it.
LEMMA CountedAttempts ==
  ASSUME OrderInv, NEW a \in clean, NEW n \in 1 .. item[a].attemptCount
  PROVE  attempts[a][n] # "none"
<1> USE OutboxAssumption
<1>1. Calm(a) /\ item[a].attemptCount \in 0 .. AttemptCap
  BY DEF OrderInv, CalmInv, GateInv, RowsTyped, Item
<1>2. Numbered(a, item[a].attemptCount) \/ Numbered(a, item[a].attemptCount + 1)
  <2>1. CASE InFlight(a) = {}
    BY <1>1, <2>1 DEF Calm, AtRest, Kept
  <2>2. ASSUME NEW p \in InFlight(a)
        PROVE  Numbered(a, item[a].attemptCount) \/ Numbered(a, item[a].attemptCount + 1)
    <3>1. p \in Operators \/ p \in Workers
      BY DEF InFlight
    <3>2. CASE p \in Operators
      BY <1>1, <2>2, <3>2 DEF Calm, OperatorAt, Kept
    <3>3. CASE p \in Workers
      BY <1>1, <2>2, <3>3 DEF Calm, WorkerAt, Holding, Kept
    <3> QED BY <3>1, <3>2, <3>3
  <2> QED BY <2>1, <2>2
<1> QED BY <1>1, <1>2 DEF Numbered

\* A report is never ahead of itself, whatever is saved between its reads: the
\* order of its reads is opposite to that of the saves it may see half done.
THEOREM ReportsAreConsistent == ReportSpec => []ReportsHoldTogether
<1>1. ReportSpec => Spec
  <2>1. ReportInit => Init
    BY DEF ReportInit
  <2>2. [ReportNext]_reportVars => [Next]_vars
    BY DEF ReportNext, OthersGoOn, ReadActions, ReadItems, Read, reportVars, vars
  <2> QED BY <2>1, <2>2, PTL DEF ReportSpec, Spec
<1>2. ReportInit /\ OrderInv => ReportInv
  BY DEF ReportInit, ReportInv, ActionsFollow, ReadStands, NoReport, Init, Delivered
<1>3. ReportInv /\ OrderInv' /\ [ReportNext]_reportVars => ReportInv'
  BY ReportStep
<1>4. ReportInv => ReportsHoldTogether
  <2> SUFFICES ASSUME ReportInv, NEW a \in clean
               PROVE  LET shown == ItemShown(a) IN
                      /\ ActionShown(a) \in Delivered => shown.status = ActionShown(a)
                      /\ \A n \in 1 .. shown.attemptCount : attempts[a][n] # "none"
                      /\ shown.status \in Delivered =>
                           \E n \in 1 .. AttemptCap : attempts[a][n] = shown.status
    BY DEF ReportsHoldTogether
  <2>1. ItemShown(a) = ShownItem(item[a])
    BY DEF ReportInv, ReadStands, ItemShown
  <2>2. ItemShown(a).status = Told(item[a].status) /\ ItemShown(a).attemptCount = item[a].attemptCount
    BY <2>1 DEF ShownItem
  <2>3. ActionShown(a) \in Delivered => item[a].status = ActionShown(a)
    BY DEF ReportInv, ActionsFollow, ReadStands, ActionShown, Told, Delivered
  <2>4. \A n \in 1 .. ItemShown(a).attemptCount : attempts[a][n] # "none"
    BY <2>2, CountedAttempts DEF ReportInv
  <2>5. item[a].status \in Delivered => \E n \in 1 .. AttemptCap : attempts[a][n] = item[a].status
    BY DEF ReportInv, OrderInv, PlanInv, DeliveredHasAttempt, GateInv, RowsTyped
  <2> QED BY <2>2, <2>3, <2>4, <2>5 DEF Told, Delivered
<1> QED BY <1>1, <1>2, <1>3, <1>4, OrderInvAlways, PTL DEF ReportSpec

=============================================================================
