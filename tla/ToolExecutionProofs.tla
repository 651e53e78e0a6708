------------------------- MODULE ToolExecutionProofs -------------------------
(***************************************************************************)
(* Theorems of ToolExecution, for every set of invocations, commands,      *)
(* people, agent runs, verdicts and faults: the rows keep their types, no  *)
(* command exists that its tool's policy and approval do not permit, the   *)
(* results are true, a command is executed at most once, and an invocation *)
(* becomes at most one command.                                            *)
(*                                                                         *)
(* None of these is inductive, because a row is written by a call that was *)
(* planned when other rows were looked at.  The invariants speak of the    *)
(* plans: ApprovalInv of the createCommand calls still planned, ResultInv  *)
(* of the calls that settle a command or finish an invocation, ClaimInv of *)
(* the runs that hold a command, MakerInv of the requests that may still   *)
(* lead to a command of an invocation.                                     *)
(***************************************************************************)
EXTENDS ToolExecution, FiniteSetTheorems, SequenceTheorems, TLAPS

USE DEF Procs, NoCommand, Outcomes

-----------------------------------------------------------------------------
(* Plans *)

\* The owners whose command the approvals of g permit.
Permitted(g) ==
  Diagnostics \cup {i \in Invocations : Risk[i] = "allowed" \/ (Risk[i] = "approval" /\ i \in g)}

\* The calls the approvals of g permit.
PermittedCall(g) == {t \in Task : t.op = "createCommand" => t.own \in Permitted(g)}

Plans(g) == [Procs -> Seq(PermittedCall(g))]

LEMMA PermittedGrows ==
  ASSUME NEW g1, NEW g2, g1 \subseteq g2
  PROVE  PermittedCall(g1) \subseteq PermittedCall(g2)
BY DEF PermittedCall, Permitted

LEMMA SeqGrows ==
  ASSUME NEW S, NEW T, S \subseteq T, NEW s \in Seq(S)
  PROVE  s \in Seq(T)
OBVIOUS

\* Short plans.
LEMMA ShortPlans ==
  ASSUME NEW S
  PROVE  /\ <<>> \in Seq(S)
         /\ \A x \in S : <<x>> \in Seq(S)
         /\ \A x, y \in S : <<x, y>> \in Seq(S)
         /\ \A x, y, z \in S : <<x, y, z>> \in Seq(S)
<1>1. <<>> \in Seq(S)
  OBVIOUS
<1>2. \A x \in S : <<x>> \in Seq(S)
  OBVIOUS
<1>3. \A x, y \in S : <<x, y>> \in Seq(S)
  OBVIOUS
<1>4. \A x, y, z \in S : <<x, y, z>> \in Seq(S)
  OBVIOUS
<1> QED BY <1>1, <1>2, <1>3, <1>4

\* The calls on an invocation.
LEMMA InvocationCalls ==
  ASSUME NEW g, NEW i \in Invocations
  PROVE  /\ \A s \in {"queued", "approval_required", "policy_denied", "succeeded", "failed"},
               c \in Commands \cup {NoCommand}, b \in BOOLEAN :
              SaveInvocation(i, s, c, b) \in PermittedCall(g)
         /\ CreateApproval(i) \in PermittedCall(g)
         /\ \A s \in {"approved", "denied", "expired", "consumed"} :
              SaveApproval(i, s) \in PermittedCall(g)
         /\ Dispatch(i) \in PermittedCall(g)
BY DEF PermittedCall, Task, Call, Step, SaveInvocation, CreateApproval, SaveApproval, Dispatch

LEMMA CommandCalls ==
  ASSUME NEW g, NEW o \in Permitted(g), NEW b \in BOOLEAN
  PROVE  CreateCommand(o, b) \in PermittedCall(g)
BY DEF Permitted, PermittedCall, Task, Call, Step, CreateCommand, Owners

\* The calls of a run of the agent.
LEMMA RunCalls ==
  ASSUME NEW g, NEW c \in Commands
  PROVE  /\ ClaimRow(c) \in PermittedCall(g)
         /\ Execute(c) \in PermittedCall(g)
         /\ \A s \in Outcomes, b \in BOOLEAN :
              /\ Submit(c, s, b) \in PermittedCall(g)
              /\ SaveResult(c, s, b) \in PermittedCall(g)
              /\ Notify(c, s, b) \in PermittedCall(g)
         /\ \A s \in Outcomes \cup {"expired"}, b \in BOOLEAN :
              SaveCommand(c, s, b) \in PermittedCall(g)
         /\ \A b \in BOOLEAN : Reply(c, b) \in PermittedCall(g)
BY DEF PermittedCall, Task, Call, Step, ClaimRow, Execute, Submit, SaveResult, SaveCommand,
       Notify, Reply

\* What the calls of a task are about.
LEMMA TaskFields ==
  ASSUME NEW t \in Task
  PROVE  /\ t.flag \in BOOLEAN
         /\ t.op = "saveInvocation" =>
              /\ t.own \in Invocations
              /\ t.com \in Commands \cup {NoCommand}
              /\ t.val \in {"queued", "approval_required", "policy_denied", "succeeded", "failed"}
         /\ t.op \in {"createApproval", "saveApproval", "dispatch"} => t.own \in Invocations
         /\ t.op = "saveApproval" => t.val \in {"approved", "denied", "expired", "consumed"}
         /\ t.op = "createCommand" => t.own \in Owners
         /\ t.op \in {"claimRow", "execute", "submit", "saveResult", "saveCommand", "notify", "reply"}
              => t.com \in Commands
         /\ t.op \in {"submit", "saveResult", "notify"} => t.val \in Outcomes
         /\ t.op = "saveCommand" => t.val \in Outcomes \cup {"expired"}
BY DEF Task, Call

LEMMA RetryPlan ==
  ASSUME NEW g, NEW c \in Commands, NEW b \in BOOLEAN
  PROVE  Retry(c, b) \in Seq(PermittedCall(g))
<1>1. Submit(c, "failed", TRUE) \in PermittedCall(g)
  BY RunCalls
<1>2. <<>> \in Seq(PermittedCall(g)) /\ <<Submit(c, "failed", TRUE)>> \in Seq(PermittedCall(g))
  BY <1>1, ShortPlans
<1>3. Retry(c, TRUE) = <<>> /\ Retry(c, FALSE) = <<Submit(c, "failed", TRUE)>>
  BY DEF Retry
<1> QED BY <1>2, <1>3

-----------------------------------------------------------------------------
(* The inductive invariant *)

RowsTyped ==
  /\ invocation \in [Invocations -> Invocation]
  /\ approval \in [Invocations -> Approval]
  /\ command \in [Commands -> Command]
  /\ result \in [Commands -> Outcomes \cup {"none"}]
  /\ draft \subseteq Invocations
  /\ executions \in [Commands -> 0 .. 2]

HistoryTyped ==
  /\ granted \subseteq Invocations
  /\ contended \subseteq Commands
  /\ raced \subseteq Invocations
  /\ early \subseteq Invocations

RowsPermitted ==
  /\ \A c \in Commands : command[c].owner \in Permitted(granted) \cup {NoCommand}
  /\ \A i \in Invocations : approval[i].status = "approved" => i \in granted

ApprovalInv == RowsTyped /\ HistoryTyped /\ RowsPermitted /\ todo \in Plans(granted)

\* The invariant implies the two that the runs check.
LEMMA ApprovalInvImplies == ApprovalInv => TypeOK /\ ApprovedBeforeCommand
<1> SUFFICES ASSUME ApprovalInv PROVE TypeOK /\ ApprovedBeforeCommand
  OBVIOUS
<1>1. \A p \in Procs : todo[p] \in Seq(PermittedCall(granted))
  BY DEF ApprovalInv, Plans
<1>2. PermittedCall(granted) \subseteq Task
  BY DEF PermittedCall
<1>3. \A p \in Procs : todo[p] \in Seq(Task)
  BY <1>1, <1>2, SeqGrows
<1>4. todo \in [Procs -> Seq(Task)]
  BY <1>3 DEF ApprovalInv, Plans
<1>5. TypeOK
  BY <1>4 DEF ApprovalInv, RowsTyped, HistoryTyped, TypeOK
<1>6. ApprovedBeforeCommand
  <2> SUFFICES ASSUME NEW c \in Commands, command[c].owner \in Invocations
               PROVE  \/ Risk[command[c].owner] = "allowed"
                      \/ Risk[command[c].owner] = "approval" /\ command[c].owner \in granted
    BY DEF ApprovedBeforeCommand
  <2>1. command[c].owner \in Permitted(granted) \cup {NoCommand}
    BY DEF ApprovalInv, RowsPermitted
  <2>2. command[c].owner \notin Diagnostics /\ command[c].owner # NoCommand
    BY ToolAssumption DEF Owners
  <2> QED BY <2>1, <2>2 DEF Permitted
<1> QED BY <1>5, <1>6

LEMMA ApprovalInvInit == ASSUME Init PROVE ApprovalInv
<1>1. RowsTyped
  BY DEF Init, RowsTyped, Invocation, Approval, Command
<1>2. HistoryTyped /\ RowsPermitted
  BY DEF Init, HistoryTyped, RowsPermitted
<1>3. todo \in Plans(granted)
  BY DEF Init, Plans
<1> QED BY <1>1, <1>2, <1>3 DEF ApprovalInv

-----------------------------------------------------------------------------
(* How plans change *)

\* The next call of a busy process, and what is left after it.
LEMMA NextCall ==
  ASSUME todo \in Plans(granted), NEW p \in Procs, ~Idle(p)
  PROVE  /\ Due(p) \in PermittedCall(granted)
         /\ Due(p) \in Task
         /\ Tail(todo[p]) \in Seq(PermittedCall(granted))
<1>1. todo[p] \in Seq(PermittedCall(granted)) /\ todo[p] # <<>>
  BY DEF Plans, Idle
<1>2. Head(todo[p]) \in PermittedCall(granted)
      /\ Tail(todo[p]) \in Seq(PermittedCall(granted))
  BY <1>1, HeadTailProperties
<1> QED BY <1>2 DEF Due, PermittedCall

\* A process goes on with a permitted plan.
LEMMA PlanReplaced ==
  ASSUME todo \in Plans(granted), granted' = granted, NEW p \in Procs,
         NEW plan \in Seq(PermittedCall(granted)), Continue(p, plan)
  PROVE  todo' \in Plans(granted')
BY DEF Plans, Continue

LEMMA Advanced ==
  ASSUME todo \in Plans(granted), granted' = granted, NEW p \in Procs, ~Idle(p), Advance(p)
  PROVE  todo' \in Plans(granted')
BY NextCall, PlanReplaced DEF Advance

\* A step that changes plans and histories only.
LEMMA PlanKeeps ==
  ASSUME ApprovalInv, UNCHANGED rows, executions' \in [Commands -> 0 .. 2],
         HistoryTyped', granted' = granted, NEW p \in Procs,
         NEW plan \in Seq(PermittedCall(granted)), Continue(p, plan)
  PROVE  ApprovalInv'
<1>1. RowsTyped' /\ RowsPermitted'
  BY DEF ApprovalInv, RowsTyped, RowsPermitted, rows
<1>2. todo' \in Plans(granted')
  BY PlanReplaced DEF ApprovalInv
<1> QED BY <1>1, <1>2 DEF ApprovalInv

LEMMA QuietPlanKeeps ==
  ASSUME ApprovalInv, UNCHANGED <<rows, history>>, NEW p \in Procs,
         NEW plan \in Seq(PermittedCall(granted)), Continue(p, plan)
  PROVE  ApprovalInv'
<1>1. executions' \in [Commands -> 0 .. 2] /\ HistoryTyped' /\ granted' = granted
  BY DEF ApprovalInv, RowsTyped, HistoryTyped, history
<1>2. UNCHANGED rows
  OBVIOUS
<1> QED BY <1>1, <1>2, PlanKeeps

-----------------------------------------------------------------------------
(* What people request *)

LEMMA InvokeKeeps ==
  ASSUME ApprovalInv, NEW p \in Users, NEW i \in Invocations, Invoke(p, i)
  PROVE  ApprovalInv'
<1> DEFINE P == PermittedCall(granted)
<1>1. /\ \A s \in {"queued", "approval_required", "policy_denied"}, b \in BOOLEAN :
           SaveInvocation(i, s, NoCommand, b) \in P
      /\ CreateApproval(i) \in P
  BY InvocationCalls
<1>2. ASSUME Risk[i] = "allowed" PROVE CreateCommand(i, FALSE) \in P
  <2>1. i \in Permitted(granted)
    BY <1>2 DEF Permitted
  <2> QED BY <2>1, CommandCalls
<1>3. Risk[i] \in Risks
  BY ToolAssumption
<1>4. PICK plan \in Seq(P) : Continue(p, plan)
  <2> HIDE DEF P
  <2>1. CASE Risk[i] = "allowed"
    <3>1. <<SaveInvocation(i, "queued", NoCommand, FALSE), CreateCommand(i, FALSE)>> \in Seq(P)
      BY <1>1, <1>2, <2>1, ShortPlans
    <3> QED BY <2>1, <3>1 DEF Invoke, Begin
  <2>2. CASE Risk[i] \in {"approval", "elevated"}
    <3>1. <<SaveInvocation(i, "approval_required", NoCommand, FALSE), CreateApproval(i),
            SaveInvocation(i, "approval_required", NoCommand, TRUE)>> \in Seq(P)
      BY <1>1, ShortPlans
    <3> QED BY <2>2, <3>1 DEF Invoke, Begin
  <2>3. CASE Risk[i] = "denied"
    <3>1. <<SaveInvocation(i, "policy_denied", NoCommand, FALSE)>> \in Seq(P)
      BY <1>1, ShortPlans
    <3> QED BY <2>3, <3>1 DEF Invoke, Begin
  <2> QED BY <1>3, <2>1, <2>2, <2>3 DEF Risks
<1> QED BY <1>4, QuietPlanKeeps DEF Invoke

LEMMA DecideKeeps ==
  ASSUME ApprovalInv, NEW p \in Users, NEW i \in Invocations,
         NEW v \in {"approved", "denied"}, Decide(p, i, v)
  PROVE  ApprovalInv'
<1> DEFINE P == PermittedCall(granted)
<1>1. /\ \A s \in {"approved", "denied", "expired"} : SaveApproval(i, s) \in P
      /\ Dispatch(i) \in P
  BY InvocationCalls
<1>2. PICK plan \in Seq(P) : Continue(p, plan)
  <2> HIDE DEF P
  <2>1. /\ <<SaveApproval(i, "expired")>> \in Seq(P)
        /\ <<SaveApproval(i, "denied")>> \in Seq(P)
        /\ <<SaveApproval(i, "approved"), Dispatch(i)>> \in Seq(P)
    BY <1>1, ShortPlans
  <2> QED BY <2>1 DEF Decide, Begin
<1>3. HistoryTyped' /\ granted' = granted /\ UNCHANGED rows
      /\ executions' \in [Commands -> 0 .. 2]
  BY DEF ApprovalInv, RowsTyped, HistoryTyped, Decide
<1> QED BY <1>2, <1>3, PlanKeeps

LEMMA RequestCommandKeeps ==
  ASSUME ApprovalInv, NEW p \in Users, NEW d \in Diagnostics, RequestCommand(p, d)
  PROVE  ApprovalInv'
<1>1. CreateCommand(d, FALSE) \in PermittedCall(granted)
  BY CommandCalls DEF Permitted
<1>2. <<CreateCommand(d, FALSE)>> \in Seq(PermittedCall(granted))
  BY <1>1, ShortPlans
<1> QED BY <1>2, QuietPlanKeeps DEF RequestCommand, Begin

\* Drafts and the passing of time touch no plan, owner or decision.
LEMMA CreateDraftKeeps ==
  ASSUME ApprovalInv, NEW i \in Invocations, CreateDraft(i)
  PROVE  ApprovalInv'
BY DEF ApprovalInv, RowsTyped, HistoryTyped, RowsPermitted, Plans, CreateDraft, history

\* A step that changes no owner of a command.
LEMMA CommandRowsKeep ==
  ASSUME ApprovalInv, command' \in [Commands -> Command],
         \A c \in Commands : command'[c].owner = command[c].owner,
         UNCHANGED <<invocation, approval, result, draft, history>>
  PROVE  RowsTyped' /\ HistoryTyped' /\ RowsPermitted' /\ granted' = granted
BY DEF ApprovalInv, RowsTyped, HistoryTyped, RowsPermitted, history

LEMMA TimeKeeps ==
  ASSUME ApprovalInv,
         \/ \E c \in Commands : CommandExpires(c)
         \/ \E i \in Invocations : ApprovalExpires(i)
         \/ MinutePasses
  PROVE  ApprovalInv'
<1>1. UNCHANGED todo /\ UNCHANGED granted
  BY DEF CommandExpires, ApprovalExpires, MinutePasses, history
<1>2. todo' \in Plans(granted')
  BY <1>1 DEF ApprovalInv
<1>3. ASSUME NEW c \in Commands, CommandExpires(c)
      PROVE  ApprovalInv'
  <2>1. command' \in [Commands -> Command]
    BY <1>3 DEF ApprovalInv, RowsTyped, CommandExpires, Command
  <2>2. \A d \in Commands : command'[d].owner = command[d].owner
    BY <1>3 DEF ApprovalInv, RowsTyped, CommandExpires, Command
  <2> QED BY <1>2, <1>3, <2>1, <2>2, CommandRowsKeep DEF ApprovalInv, CommandExpires
<1>4. CASE MinutePasses
  <2>0. /\ command \in [Commands -> Command]
        /\ command' = [c \in Commands |-> [command[c] EXCEPT !.recent = FALSE]]
    BY <1>4 DEF ApprovalInv, RowsTyped, MinutePasses
  <2>1. command' \in [Commands -> Command]
    <3>1. ASSUME NEW c \in Commands
          PROVE  [command[c] EXCEPT !.recent = FALSE] \in Command
      <4>1. command[c] \in Command
        BY <2>0
      <4> QED BY <4>1 DEF Command
    <3> QED BY <2>0, <3>1
  <2>2. \A d \in Commands : command'[d].owner = command[d].owner
    BY <2>0 DEF Command
  <2> QED BY <1>2, <1>4, <2>1, <2>2, CommandRowsKeep DEF ApprovalInv, MinutePasses
<1>5. ASSUME NEW i \in Invocations, ApprovalExpires(i)
      PROVE  ApprovalInv'
  <2>1. RowsTyped' /\ HistoryTyped'
    BY <1>5 DEF ApprovalInv, RowsTyped, HistoryTyped, ApprovalExpires, Approval, history
  <2>2. RowsPermitted'
    BY <1>5 DEF ApprovalInv, RowsTyped, RowsPermitted, ApprovalExpires, Approval, history
  <2> QED BY <1>2, <2>1, <2>2 DEF ApprovalInv
<1> QED BY <1>3, <1>4, <1>5

-----------------------------------------------------------------------------
(* The store calls of the requests *)

LEMMA DoSaveInvocationKeeps ==
  ASSUME ApprovalInv, NEW p \in Procs, DoSaveInvocation(p)
  PROVE  ApprovalInv'
<1>1. ~Idle(p) /\ Due(p).op = "saveInvocation"
  BY DEF DoSaveInvocation, At
<1>2. /\ Due(p).own \in Invocations
      /\ [status |-> Due(p).val, command |-> Due(p).com, linked |-> Due(p).flag] \in Invocation
  BY <1>1, NextCall, TaskFields DEF ApprovalInv, Invocation
<1>3. RowsTyped'
  BY <1>2 DEF ApprovalInv, RowsTyped, DoSaveInvocation, history
<1>4. HistoryTyped' /\ RowsPermitted' /\ granted' = granted
  BY DEF ApprovalInv, HistoryTyped, RowsPermitted, DoSaveInvocation, history
<1>5. todo' \in Plans(granted')
  BY <1>1, <1>4, Advanced DEF ApprovalInv, DoSaveInvocation
<1> QED BY <1>3, <1>4, <1>5 DEF ApprovalInv

LEMMA DoCreateApprovalKeeps ==
  ASSUME ApprovalInv, NEW p \in Procs, DoCreateApproval(p)
  PROVE  ApprovalInv'
<1>1. ~Idle(p) /\ Due(p).op = "createApproval"
  BY DEF DoCreateApproval, At
<1>2. Due(p).own \in Invocations
  BY <1>1, NextCall, TaskFields DEF ApprovalInv
<1>3. RowsTyped'
  BY <1>2 DEF ApprovalInv, RowsTyped, DoCreateApproval, history, Approval
<1>4. HistoryTyped' /\ granted' = granted
  BY DEF ApprovalInv, HistoryTyped, DoCreateApproval, history
<1>5. RowsPermitted'
  BY <1>2 DEF ApprovalInv, RowsTyped, Approval, RowsPermitted, DoCreateApproval, history
<1>6. todo' \in Plans(granted')
  BY <1>1, <1>4, Advanced DEF ApprovalInv, DoCreateApproval
<1> QED BY <1>3, <1>4, <1>5, <1>6 DEF ApprovalInv

\* The one step that grants: more is permitted after it, and nothing less.
LEMMA DoSaveApprovalKeeps ==
  ASSUME ApprovalInv, NEW p \in Procs, DoSaveApproval(p)
  PROVE  ApprovalInv'
<1>1. ~Idle(p) /\ Due(p).op = "saveApproval"
  BY DEF DoSaveApproval, At
<1>2. /\ Due(p).own \in Invocations
      /\ Due(p).val \in {"approved", "denied", "expired", "consumed"}
  BY <1>1, NextCall, TaskFields DEF ApprovalInv
<1>3. /\ approval' = [approval EXCEPT ![Due(p).own].status = Due(p).val]
      /\ granted' = IF Due(p).val = "approved" THEN granted \cup {Due(p).own} ELSE granted
      /\ UNCHANGED <<invocation, command, result, draft, executions, contended, raced, early>>
  BY DEF DoSaveApproval
<1>4. granted \subseteq granted'
  BY <1>3
<1>5. RowsTyped'
  BY <1>2, <1>3 DEF ApprovalInv, RowsTyped, Approval
<1>6. HistoryTyped'
  BY <1>2, <1>3 DEF ApprovalInv, HistoryTyped
<1>7. RowsPermitted'
  BY <1>2, <1>3, <1>4 DEF ApprovalInv, RowsTyped, Approval, RowsPermitted, Permitted
<1>8. todo' \in Plans(granted')
  <2>1. Tail(todo[p]) \in Seq(PermittedCall(granted))
    BY <1>1, NextCall DEF ApprovalInv
  <2>2. \A q \in Procs : todo[q] \in Seq(PermittedCall(granted))
    BY DEF ApprovalInv, Plans
  <2>3. \A s \in Seq(PermittedCall(granted)) : s \in Seq(PermittedCall(granted'))
    BY <1>4, PermittedGrows, SeqGrows
  <2>4. todo' = [todo EXCEPT ![p] = Tail(todo[p])]
    BY DEF DoSaveApproval, Advance, Continue
  <2> QED BY <2>1, <2>2, <2>3, <2>4 DEF ApprovalInv, Plans
<1> QED BY <1>5, <1>6, <1>7, <1>8 DEF ApprovalInv

LEMMA DoDispatchKeeps ==
  ASSUME ApprovalInv, NEW p \in Procs, DoDispatch(p)
  PROVE  ApprovalInv'
<1>1. ~Idle(p) /\ Due(p).op = "dispatch"
  BY DEF DoDispatch, At
<1>2. Due(p).own \in Invocations
  BY <1>1, NextCall, TaskFields DEF ApprovalInv
<1>3. PICK plan \in Seq(PermittedCall(granted)) : Continue(p, plan)
  <2>1. CASE Continue(p, <<>>)
    BY <2>1, ShortPlans
  <2>2. CASE /\ Continue(p, <<CreateCommand(Due(p).own, TRUE)>>)
             /\ approval[Due(p).own].status = "approved" /\ Risk[Due(p).own] = "approval"
    <3>1. Due(p).own \in Permitted(granted)
      BY <1>2, <2>2 DEF ApprovalInv, RowsPermitted, Permitted
    <3>2. CreateCommand(Due(p).own, TRUE) \in PermittedCall(granted)
      BY <3>1, CommandCalls
    <3> QED BY <2>2, <3>2, ShortPlans
  <2> QED BY <2>1, <2>2 DEF DoDispatch
<1> QED BY <1>3, QuietPlanKeeps DEF DoDispatch

LEMMA DoCreateCommandKeeps ==
  ASSUME ApprovalInv, NEW p \in Procs, DoCreateCommand(p)
  PROVE  ApprovalInv'
<1> DEFINE o == Due(p).own
           P == PermittedCall(granted)
<1>1. ~Idle(p) /\ Due(p).op = "createCommand"
  BY DEF DoCreateCommand, At
<1>2. o \in Owners /\ o \in Permitted(granted) /\ Due(p).flag \in BOOLEAN
  BY <1>1, NextCall, TaskFields DEF ApprovalInv, PermittedCall
<1>3. UNCHANGED <<invocation, approval, result, draft, history>>
  BY DEF DoCreateCommand
<1>4. HistoryTyped' /\ granted' = granted
  BY <1>3 DEF ApprovalInv, HistoryTyped, history
<1>5. CASE Duplicate(o) /\ Continue(p, <<>>) /\ UNCHANGED command
  <2>1. UNCHANGED <<rows, history>>
    BY <1>3, <1>5 DEF rows
  <2>2. <<>> \in Seq(P)
    BY ShortPlans
  <2> QED BY <1>5, <2>1, <2>2, QuietPlanKeeps
<1>6. ASSUME NEW c \in Commands,
             command' = [command EXCEPT ![c] = [status |-> "queued", owner |-> o,
                                                overdue |-> FALSE, recent |-> TRUE]],
             Continue(p, LinkAndConsume(o, c, Due(p).flag))
      PROVE  ApprovalInv'
  <2>1. RowsTyped'
    BY <1>2, <1>3, <1>6 DEF ApprovalInv, RowsTyped, Command, history
  <2>2. RowsPermitted'
    BY <1>2, <1>3, <1>4, <1>6 DEF ApprovalInv, RowsTyped, RowsPermitted, Command
  <2>3. PICK plan \in Seq(P) : Continue(p, plan)
    <3>1. CASE o \in Diagnostics
      BY <1>6, <3>1, ShortPlans DEF LinkAndConsume
    <3>2. CASE o \notin Diagnostics
      <4>1. SaveInvocation(o, "queued", c, Due(p).flag) \in P /\ SaveApproval(o, "consumed") \in P
        BY <1>2, <3>2, InvocationCalls DEF Owners
      <4> HIDE DEF P
      <4>2. /\ <<SaveInvocation(o, "queued", c, Due(p).flag)>> \in Seq(P)
            /\ <<SaveApproval(o, "consumed")>> \in Seq(P)
            /\ <<>> \in Seq(P)
        BY <4>1, ShortPlans
      <4>3. \A s, t \in Seq(P) : s \o t \in Seq(P)
        BY ConcatProperties
      <4> QED BY <1>6, <3>2, <4>2, <4>3 DEF LinkAndConsume
    <3> QED BY <3>1, <3>2
  <2>4. todo' \in Plans(granted')
    BY <1>4, <2>3, PlanReplaced DEF ApprovalInv
  <2> QED BY <1>4, <2>1, <2>2, <2>4 DEF ApprovalInv
<1> QED BY <1>5, <1>6 DEF DoCreateCommand

-----------------------------------------------------------------------------
(* A run of the agent *)

LEMMA FindCommandKeeps ==
  ASSUME ApprovalInv, NEW r \in Runs, FindCommand(r)
  PROVE  ApprovalInv'
<1>1. PICK c \in Commands : /\ Continue(r, <<ClaimRow(c)>>)
                            /\ contended' \in {contended, contended \cup {c}}
                            /\ UNCHANGED <<rows, executions, granted, raced, early>>
  BY DEF FindCommand, Begin
<1>2. <<ClaimRow(c)>> \in Seq(PermittedCall(granted))
  BY RunCalls, ShortPlans
<1>3. HistoryTyped' /\ executions' \in [Commands -> 0 .. 2] /\ UNCHANGED rows
  BY <1>1 DEF ApprovalInv, RowsTyped, HistoryTyped
<1> QED BY <1>1, <1>2, <1>3, PlanKeeps

LEMMA DoClaimRowKeeps ==
  ASSUME ApprovalInv, NEW r \in Procs, DoClaimRow(r)
  PROVE  ApprovalInv'
<1>1. ~Idle(r) /\ Due(r).op = "claimRow"
  BY DEF DoClaimRow, At
<1>2. Due(r).com \in Commands
  BY <1>1, NextCall, TaskFields DEF ApprovalInv
<1>3. command' \in [Commands -> Command]
      /\ \A d \in Commands : command'[d].owner = command[d].owner
  BY <1>2 DEF ApprovalInv, RowsTyped, DoClaimRow, Command
<1>4. RowsTyped' /\ HistoryTyped' /\ RowsPermitted' /\ granted' = granted
  BY <1>3, CommandRowsKeep DEF DoClaimRow
<1>5. <<Execute(Due(r).com)>> \in Seq(PermittedCall(granted))
  BY <1>2, RunCalls, ShortPlans
<1>6. todo' \in Plans(granted')
  BY <1>4, <1>5, PlanReplaced DEF ApprovalInv, DoClaimRow
<1> QED BY <1>4, <1>6 DEF ApprovalInv

LEMMA DoExecuteKeeps ==
  ASSUME ApprovalInv, NEW r \in Procs, DoExecute(r)
  PROVE  ApprovalInv'
<1>1. ~Idle(r) /\ Due(r).op = "execute"
  BY DEF DoExecute, At
<1>2. Due(r).com \in Commands
  BY <1>1, NextCall, TaskFields DEF ApprovalInv
<1>3. PICK s \in Outcomes, b \in BOOLEAN : Continue(r, <<Submit(Due(r).com, s, b)>>)
  BY DEF DoExecute
<1>4. <<Submit(Due(r).com, s, b)>> \in Seq(PermittedCall(granted))
  BY <1>2, RunCalls, ShortPlans
<1>5. executions' \in [Commands -> 0 .. 2]
  <2>1. executions[Due(r).com] \in 0 .. 2
    BY <1>2 DEF ApprovalInv, RowsTyped
  <2>2. (IF executions[Due(r).com] < 2 THEN executions[Due(r).com] + 1
         ELSE executions[Due(r).com]) \in 0 .. 2
    BY <2>1
  <2> QED BY <2>2 DEF DoExecute, ApprovalInv, RowsTyped
<1>6. HistoryTyped' /\ granted' = granted /\ UNCHANGED rows
  BY DEF ApprovalInv, HistoryTyped, DoExecute
<1> QED BY <1>3, <1>4, <1>5, <1>6, PlanKeeps

\* The plan of an accepted result.
LEMMA AcceptedPlan ==
  ASSUME NEW g, NEW c \in Commands, NEW s \in Outcomes, NEW b \in BOOLEAN
  PROVE  Accepted(c, s, b) \in Seq(PermittedCall(g))
<1> DEFINE P == PermittedCall(g)
<1>1. /\ SaveResult(c, s, b) \in P /\ SaveCommand(c, s, b) \in P
      /\ Notify(c, s, b) \in P /\ Reply(c, b) \in P
  BY RunCalls
<1> HIDE DEF P
<1>2. \A w, x, y, z \in P : <<w, x, y, z>> \in Seq(P)
  OBVIOUS
<1> QED BY <1>1, <1>2 DEF Accepted, P

LEMMA DoSubmitKeeps ==
  ASSUME ApprovalInv, NEW r \in Procs, DoSubmit(r)
  PROVE  ApprovalInv'
<1> DEFINE t == Due(r)
           P == PermittedCall(granted)
<1>1. ~Idle(r) /\ t.op = "submit"
  BY DEF DoSubmit, At
<1>2. t.com \in Commands /\ t.val \in Outcomes /\ t.flag \in BOOLEAN
  BY <1>1, NextCall, TaskFields DEF ApprovalInv
<1>3. /\ Retry(t.com, t.flag) \in Seq(P)
      /\ Accepted(t.com, t.val, t.flag) \in Seq(P)
      /\ <<SaveCommand(t.com, "expired", t.flag)>> \in Seq(P)
  BY <1>2, RetryPlan, AcceptedPlan, RunCalls, ShortPlans
<1> HIDE DEF P
<1>4. <<SaveCommand(t.com, "expired", t.flag)>> \o Retry(t.com, t.flag) \in Seq(P)
  BY <1>3, ConcatProperties
<1>5. PICK plan \in Seq(P) : Continue(r, plan)
  BY <1>3, <1>4 DEF DoSubmit
<1> QED BY <1>5, QuietPlanKeeps DEF DoSubmit, P

LEMMA DoSaveResultKeeps ==
  ASSUME ApprovalInv, NEW r \in Procs, DoSaveResult(r)
  PROVE  ApprovalInv'
<1>1. ~Idle(r) /\ Due(r).op = "saveResult"
  BY DEF DoSaveResult, At
<1>2. Due(r).com \in Commands /\ Due(r).val \in Outcomes /\ Due(r).flag \in BOOLEAN
  BY <1>1, NextCall, TaskFields DEF ApprovalInv
<1>3. result' \in [Commands -> Outcomes \cup {"none"}]
  BY <1>2 DEF ApprovalInv, RowsTyped, DoSaveResult
<1>4. RowsTyped' /\ HistoryTyped' /\ RowsPermitted' /\ granted' = granted
  BY <1>3 DEF ApprovalInv, RowsTyped, HistoryTyped, RowsPermitted, DoSaveResult, history
<1>5. todo' \in Plans(granted')
  <2>1. CASE Advance(r)
    BY <1>1, <1>4, <2>1, Advanced DEF ApprovalInv
  <2>2. CASE Continue(r, Retry(Due(r).com, Due(r).flag))
    BY <1>2, <1>4, <2>2, RetryPlan, PlanReplaced DEF ApprovalInv
  <2> QED BY <2>1, <2>2 DEF DoSaveResult
<1> QED BY <1>4, <1>5 DEF ApprovalInv

LEMMA DoSaveCommandKeeps ==
  ASSUME ApprovalInv, NEW r \in Procs, DoSaveCommand(r)
  PROVE  ApprovalInv'
<1>1. ~Idle(r) /\ Due(r).op = "saveCommand"
  BY DEF DoSaveCommand, At
<1>2. Due(r).com \in Commands /\ Due(r).val \in Outcomes \cup {"expired"}
  BY <1>1, NextCall, TaskFields DEF ApprovalInv
<1>3. command' \in [Commands -> Command]
      /\ \A d \in Commands : command'[d].owner = command[d].owner
  BY <1>2 DEF ApprovalInv, RowsTyped, DoSaveCommand, Command
<1>4. RowsTyped' /\ HistoryTyped' /\ RowsPermitted' /\ granted' = granted
  BY <1>3, CommandRowsKeep DEF DoSaveCommand
<1>5. todo' \in Plans(granted')
  BY <1>1, <1>4, Advanced DEF ApprovalInv, DoSaveCommand
<1> QED BY <1>4, <1>5 DEF ApprovalInv

LEMMA DoNotifyKeeps ==
  ASSUME ApprovalInv, NEW r \in Procs, DoNotify(r)
  PROVE  ApprovalInv'
<1> DEFINE t == Due(r)
           P == PermittedCall(granted)
<1>1. ~Idle(r) /\ t.op = "notify"
  BY DEF DoNotify, At
<1>2. t.com \in Commands /\ t.val \in Outcomes /\ Tail(todo[r]) \in Seq(P)
  BY <1>1, NextCall, TaskFields DEF ApprovalInv
<1>3. /\ UNCHANGED rows /\ granted' = granted
      /\ executions' \in [Commands -> 0 .. 2] /\ HistoryTyped'
  BY DEF DoNotify, ApprovalInv, RowsTyped, HistoryTyped
<1>4. PICK plan \in Seq(P) : Continue(r, plan)
  <2>1. CASE Advance(r)
    BY <1>2, <2>1 DEF Advance
  <2>2. ASSUME NEW i \in Invocations, NEW s \in ReportedStatus(t.val),
               Continue(r, <<SaveInvocation(i, s, t.com, invocation[i].linked)>>
                             \o Tail(todo[r]))
        PROVE  \E plan \in Seq(P) : Continue(r, plan)
    <3>1. s \in Outcomes /\ invocation[i].linked \in BOOLEAN
      BY <1>2, <2>2 DEF ReportedStatus, ApprovalInv, RowsTyped, Invocation
    <3>2. SaveInvocation(i, s, t.com, invocation[i].linked) \in P
      BY <1>2, <3>1, InvocationCalls
    <3> HIDE DEF P
    <3>3. <<SaveInvocation(i, s, t.com, invocation[i].linked)>> \in Seq(P)
      BY <3>2, ShortPlans
    <3>4. <<SaveInvocation(i, s, t.com, invocation[i].linked)>> \o Tail(todo[r]) \in Seq(P)
      BY <1>2, <3>3, ConcatProperties
    <3> QED BY <2>2, <3>4
  <2> QED BY <2>1, <2>2 DEF DoNotify
<1> QED BY <1>3, <1>4, PlanKeeps

LEMMA FaultKeeps ==
  ASSUME ApprovalInv, NEW p \in Procs,
         \/ DoReply(p) \/ ReplyLost(p) \/ Dies(p) \/ HandlerDies(p)
  PROVE  ApprovalInv'
<1> DEFINE P == PermittedCall(granted)
<1>1. <<>> \in Seq(P)
  BY ShortPlans
<1>2. ASSUME NEW op \in {"submit", "saveResult", "saveCommand", "notify", "reply"}, At(p, op)
      PROVE  Retry(Due(p).com, Due(p).flag) \in Seq(P)
  <2>1. ~Idle(p) /\ Due(p).op = op
    BY <1>2 DEF At
  <2>2. Due(p).com \in Commands /\ Due(p).flag \in BOOLEAN
    BY <2>1, NextCall, TaskFields DEF ApprovalInv
  <2> QED BY <2>2, RetryPlan
<1>3. CASE DoReply(p) \/ Dies(p)
  BY <1>1, <1>3, QuietPlanKeeps DEF DoReply, Dies
<1>4. CASE ReplyLost(p)
  <2>1. PICK plan \in Seq(P) : Continue(p, plan)
    BY <1>1, <1>2, <1>4 DEF ReplyLost
  <2> QED BY <1>4, <2>1, QuietPlanKeeps DEF ReplyLost
<1>5. CASE HandlerDies(p)
  <2>1. PICK plan \in Seq(P) : Continue(p, plan)
    BY <1>1, <1>2, <1>5, RetryPlan DEF HandlerDies
  <2> QED BY <1>5, <2>1, QuietPlanKeeps DEF HandlerDies
<1> QED BY <1>3, <1>4, <1>5

-----------------------------------------------------------------------------
(* The theorems *)

LEMMA NextKeeps == ASSUME ApprovalInv, [Next]_vars PROVE ApprovalInv'
<1>1. ASSUME NEW p \in Users, PeopleStep(p) PROVE ApprovalInv'
  BY <1>1, InvokeKeeps, DecideKeeps, RequestCommandKeeps DEF PeopleStep
<1>2. ASSUME NEW i \in Invocations, CreateDraft(i) \/ ApprovalExpires(i) PROVE ApprovalInv'
  BY <1>2, CreateDraftKeeps, TimeKeeps
<1>3. ASSUME NEW r \in Runs, FindCommand(r) \/ ReplyLost(r) \/ HandlerDies(r) PROVE ApprovalInv'
  BY <1>3, FindCommandKeeps, FaultKeeps
<1>4. ASSUME NEW p \in Procs, RequestStep(p) PROVE ApprovalInv'
  <2>1. CASE \/ DoSaveInvocation(p) \/ DoCreateApproval(p) \/ DoSaveApproval(p)
             \/ DoDispatch(p) \/ DoCreateCommand(p)
    BY <2>1, DoSaveInvocationKeeps, DoCreateApprovalKeeps, DoSaveApprovalKeeps,
       DoDispatchKeeps, DoCreateCommandKeeps
  <2>2. CASE \/ DoClaimRow(p) \/ DoExecute(p) \/ DoSubmit(p) \/ DoSaveResult(p)
             \/ DoSaveCommand(p) \/ DoNotify(p) \/ DoReply(p)
    BY <2>2, DoClaimRowKeeps, DoExecuteKeeps, DoSubmitKeeps, DoSaveResultKeeps,
       DoSaveCommandKeeps, DoNotifyKeeps, FaultKeeps
  <2> QED BY <1>4, <2>1, <2>2 DEF RequestStep
<1>5. ASSUME NEW p \in Procs, Dies(p) PROVE ApprovalInv'
  BY <1>5, FaultKeeps
<1>6. CASE (\E c \in Commands : CommandExpires(c)) \/ MinutePasses
  BY <1>6, TimeKeeps
<1>7. CASE UNCHANGED vars
  BY <1>7 DEF vars, ApprovalInv, RowsTyped, HistoryTyped, RowsPermitted, Plans
<1> QED BY <1>1, <1>2, <1>3, <1>4, <1>5, <1>6, <1>7 DEF Next

LEMMA ApprovalInvAlways == Spec => []ApprovalInv
BY ApprovalInvInit, NextKeeps, PTL DEF Spec

\* The rows of the four tables, the planned calls and the histories keep their
\* types in every behaviour.
THEOREM ToolTypes == Spec => []TypeOK
BY ApprovalInvAlways, ApprovalInvImplies, PTL

\* No command ever exists for a tool that is denied or elevated, nor, before an
\* approval was granted, for one that needs it: whatever people decide at once,
\* whatever dies, and however long a planned call waits.
THEOREM CommandsApproved == Spec => []ApprovedBeforeCommand
BY ApprovalInvAlways, ApprovalInvImplies, PTL

-----------------------------------------------------------------------------
(* Results: the plans *)

\* The calls that the commands cmd and the results res make true: a command is
\* settled, and the gateway told, with the result that was kept; an invocation
\* is told a command of its own, and finished by what its result allows.
ReadyCall(cmd, res) ==
  {t \in Task :
     /\ t.op = "saveCommand" /\ t.val \in Outcomes => res[t.com] = t.val
     /\ t.op = "notify" => res[t.com] = t.val
     /\ t.op = "saveInvocation" =>
          /\ t.com # NoCommand => cmd[t.com].owner = t.own
          /\ t.val \in Outcomes =>
               /\ t.com # NoCommand /\ res[t.com] # "none"
               /\ t.val = "succeeded" => res[t.com] = "succeeded"}

\* A plan whose calls are true already, or one that first keeps its result.
SoundPlan(s) ==
  \/ s \in Seq(ReadyCall(command, result))
  \/ \E c \in Commands, v \in Outcomes, b \in BOOLEAN : s = Accepted(c, v, b)

SoundPlans == \A p \in Procs : SoundPlan(todo[p])

\* An invocation names a command of its own, and a row not yet inserted has no
\* owner.
OwnLinks ==
  /\ \A i \in Invocations :
       invocation[i].command # NoCommand => command[invocation[i].command].owner = i
  /\ \A c \in Commands : command[c].status = "absent" => command[c].owner = NoCommand

\* ResultsAreTrue is not inductive: it rests on the calls still planned.
ResultInv == OwnLinks /\ ResultsAreTrue /\ SoundPlans


LEMMA ResultInvInit == ASSUME Init PROVE ResultInv
<1>1. OwnLinks /\ ResultsAreTrue
  BY DEF Init, OwnLinks, ResultsAreTrue, SettledHasResult, FinishedByOwnResult
<1>2. SoundPlans
  BY ShortPlans DEF Init, SoundPlans, SoundPlan
<1> QED BY <1>1, <1>2 DEF ResultInv

\* The calls that are true whatever is stored.
LEMMA ReadyAnyhow ==
  ASSUME NEW cmd, NEW res
  PROVE  /\ \A i \in Invocations :
              /\ \A s \in {"queued", "approval_required", "policy_denied"}, b \in BOOLEAN :
                   SaveInvocation(i, s, NoCommand, b) \in ReadyCall(cmd, res)
              /\ CreateApproval(i) \in ReadyCall(cmd, res)
              /\ \A s \in {"approved", "denied", "expired", "consumed"} :
                   SaveApproval(i, s) \in ReadyCall(cmd, res)
              /\ Dispatch(i) \in ReadyCall(cmd, res)
         /\ \A o \in Owners, b \in BOOLEAN : CreateCommand(o, b) \in ReadyCall(cmd, res)
         /\ \A c \in Commands :
              /\ ClaimRow(c) \in ReadyCall(cmd, res)
              /\ Execute(c) \in ReadyCall(cmd, res)
              /\ \A s \in Outcomes, b \in BOOLEAN : Submit(c, s, b) \in ReadyCall(cmd, res)
              /\ \A b \in BOOLEAN : SaveCommand(c, "expired", b) \in ReadyCall(cmd, res)
              /\ \A b \in BOOLEAN : Reply(c, b) \in ReadyCall(cmd, res)
<1>1. ASSUME NEW i \in Invocations
      PROVE  /\ \A s \in {"queued", "approval_required", "policy_denied"}, b \in BOOLEAN :
                  SaveInvocation(i, s, NoCommand, b) \in ReadyCall(cmd, res)
             /\ CreateApproval(i) \in ReadyCall(cmd, res)
             /\ \A s \in {"approved", "denied", "expired", "consumed"} :
                  SaveApproval(i, s) \in ReadyCall(cmd, res)
             /\ Dispatch(i) \in ReadyCall(cmd, res)
  BY DEF ReadyCall, Task, Call, Step, SaveInvocation, CreateApproval, SaveApproval, Dispatch
<1>2. ASSUME NEW o \in Owners, NEW b \in BOOLEAN
      PROVE  CreateCommand(o, b) \in ReadyCall(cmd, res)
  BY DEF ReadyCall, Task, Call, Step, CreateCommand
<1>3. ASSUME NEW c \in Commands
      PROVE  /\ ClaimRow(c) \in ReadyCall(cmd, res)
             /\ Execute(c) \in ReadyCall(cmd, res)
             /\ \A s \in Outcomes, b \in BOOLEAN : Submit(c, s, b) \in ReadyCall(cmd, res)
             /\ \A b \in BOOLEAN : SaveCommand(c, "expired", b) \in ReadyCall(cmd, res)
             /\ \A b \in BOOLEAN : Reply(c, b) \in ReadyCall(cmd, res)
  BY DEF ReadyCall, Task, Call, Step, ClaimRow, Execute, Submit, SaveCommand, Reply
<1> QED BY <1>1, <1>2, <1>3

LEMMA ReadyRetry ==
  ASSUME NEW cmd, NEW res, NEW c \in Commands, NEW b \in BOOLEAN
  PROVE  Retry(c, b) \in Seq(ReadyCall(cmd, res))
<1>1. Submit(c, "failed", TRUE) \in ReadyCall(cmd, res)
  BY ReadyAnyhow
<1>2. <<>> \in Seq(ReadyCall(cmd, res)) /\ <<Submit(c, "failed", TRUE)>> \in Seq(ReadyCall(cmd, res))
  BY <1>1, ShortPlans
<1> QED BY <1>2 DEF Retry

\* The plan of an accepted result: its head keeps the result, and once that is
\* kept the rest is true.
LEMMA AcceptedParts ==
  ASSUME NEW c \in Commands, NEW v \in Outcomes, NEW b \in BOOLEAN
  PROVE  /\ Accepted(c, v, b) # <<>>
         /\ Head(Accepted(c, v, b)) = SaveResult(c, v, b)
         /\ Tail(Accepted(c, v, b)) = <<SaveCommand(c, v, b), Notify(c, v, b), Reply(c, b)>>
BY DEF Accepted

LEMMA ReadyAfterResult ==
  ASSUME NEW cmd, NEW res, NEW c \in Commands, NEW v \in Outcomes, NEW b \in BOOLEAN,
         res[c] = v
  PROVE  <<SaveCommand(c, v, b), Notify(c, v, b), Reply(c, b)>> \in Seq(ReadyCall(cmd, res))
<1>1. /\ SaveCommand(c, v, b) \in ReadyCall(cmd, res)
      /\ Notify(c, v, b) \in ReadyCall(cmd, res)
      /\ Reply(c, b) \in ReadyCall(cmd, res)
  BY DEF ReadyCall, Task, Call, Step, SaveCommand, Notify, Reply
<1> QED BY <1>1, ShortPlans

\* Owners and results once stored stay.
Grown ==
  \A c \in Commands :
    /\ command[c].owner # NoCommand => command'[c].owner = command[c].owner
    /\ result[c] # "none" => result'[c] = result[c]

LEMMA ReadyGrows ==
  ASSUME Grown
  PROVE  ReadyCall(command, result) \subseteq ReadyCall(command', result')
<1> SUFFICES ASSUME NEW t \in ReadyCall(command, result)
             PROVE  t \in ReadyCall(command', result')
  OBVIOUS
<1>1. t \in Task
  BY DEF ReadyCall
<1>2. t.op = "saveCommand" /\ t.val \in Outcomes => result'[t.com] = t.val
  <2> SUFFICES ASSUME t.op = "saveCommand", t.val \in Outcomes PROVE result'[t.com] = t.val
    OBVIOUS
  <2>1. result[t.com] = t.val /\ t.com \in Commands
    BY <1>1, TaskFields DEF ReadyCall
  <2> QED BY <2>1 DEF Grown
<1>3. t.op = "notify" => result'[t.com] = t.val
  <2> SUFFICES ASSUME t.op = "notify" PROVE result'[t.com] = t.val
    OBVIOUS
  <2>1. result[t.com] = t.val /\ t.com \in Commands /\ t.val \in Outcomes
    BY <1>1, TaskFields DEF ReadyCall
  <2> QED BY <2>1 DEF Grown
<1>4. ASSUME t.op = "saveInvocation", t.com # NoCommand
      PROVE  command'[t.com].owner = t.own
  <2>1. command[t.com].owner = t.own /\ t.com \in Commands /\ t.own \in Invocations
    BY <1>1, <1>4, TaskFields DEF ReadyCall
  <2>2. t.own # NoCommand
    BY <2>1, ToolAssumption DEF Owners
  <2> QED BY <2>1, <2>2 DEF Grown
<1>5. ASSUME t.op = "saveInvocation", t.val \in Outcomes
      PROVE  /\ t.com # NoCommand /\ result'[t.com] # "none"
             /\ t.val = "succeeded" => result'[t.com] = "succeeded"
  <2>1. /\ t.com # NoCommand /\ result[t.com] # "none"
        /\ t.val = "succeeded" => result[t.com] = "succeeded"
        /\ t.com \in Commands
    BY <1>1, <1>5, TaskFields DEF ReadyCall
  <2>2. result'[t.com] = result[t.com]
    BY <2>1 DEF Grown
  <2> QED BY <2>1, <2>2
<1> QED BY <1>1, <1>2, <1>3, <1>4, <1>5 DEF ReadyCall

\* One process goes on with a sound plan; the others' stay sound.
LEMMA SoundKept ==
  ASSUME ApprovalInv, SoundPlans, Grown, NEW p \in Procs, NEW plan, Continue(p, plan),
         \/ plan \in Seq(ReadyCall(command', result'))
         \/ \E c \in Commands, v \in Outcomes, b \in BOOLEAN : plan = Accepted(c, v, b)
  PROVE  SoundPlans'
<1>1. \A s \in Seq(ReadyCall(command, result)) : s \in Seq(ReadyCall(command', result'))
  BY ReadyGrows, SeqGrows
<1>2. \A q \in Procs : todo'[q] = IF q = p THEN plan ELSE todo[q]
  BY DEF Continue, ApprovalInv, Plans
<1> QED BY <1>1, <1>2 DEF SoundPlans, SoundPlan

LEMMA OthersSound ==
  ASSUME SoundPlans, Grown, todo' = todo
  PROVE  SoundPlans'
<1>1. \A s \in Seq(ReadyCall(command, result)) : s \in Seq(ReadyCall(command', result'))
  BY ReadyGrows, SeqGrows
<1> QED BY <1>1 DEF SoundPlans, SoundPlan

\* A step that changes plans only.
LEMMA QuietSound ==
  ASSUME ApprovalInv, ResultInv, UNCHANGED rows, NEW p \in Procs, NEW plan, Continue(p, plan),
         \/ plan \in Seq(ReadyCall(command, result))
         \/ \E c \in Commands, v \in Outcomes, b \in BOOLEAN : plan = Accepted(c, v, b)
  PROVE  ResultInv'
<1>1. Grown
  BY DEF Grown, rows
<1>2. SoundPlans'
  BY <1>1, SoundKept DEF ResultInv, rows
<1> QED BY <1>2 DEF ResultInv, OwnLinks, ResultsAreTrue, SettledHasResult, FinishedByOwnResult, rows

\* The next call, when it does not keep a result, is true and so is the rest.
LEMMA NextReady ==
  ASSUME ApprovalInv, SoundPlans, NEW p \in Procs, ~Idle(p), Due(p).op # "saveResult"
  PROVE  /\ Due(p) \in ReadyCall(command, result)
         /\ Tail(todo[p]) \in Seq(ReadyCall(command, result))
<1>1. CASE todo[p] \in Seq(ReadyCall(command, result))
  <2>1. todo[p] # <<>>
    BY DEF Idle
  <2> QED BY <1>1, <2>1, HeadTailProperties DEF Due
<1>2. ASSUME NEW c \in Commands, NEW v \in Outcomes, NEW b \in BOOLEAN, todo[p] = Accepted(c, v, b)
      PROVE  FALSE
  BY <1>2, AcceptedParts DEF Due, SaveResult, Step
<1> QED BY <1>1, <1>2 DEF SoundPlans, SoundPlan

-----------------------------------------------------------------------------
(* Results: the steps *)

\* Requests of people plan calls that are true anyhow.
LEMMA PeopleResult ==
  ASSUME ApprovalInv, ResultInv, NEW p \in Users, PeopleStep(p)
  PROVE  ResultInv'
<1> DEFINE R == ReadyCall(command, result)
<1>1. UNCHANGED rows
  BY DEF PeopleStep, Invoke, Decide, RequestCommand
<1>2. PICK plan \in Seq(R) : Continue(p, plan)
  <2>1. ASSUME NEW i \in Invocations, Invoke(p, i)
        PROVE  \E plan \in Seq(R) : Continue(p, plan)
    <3>1. /\ \A s \in {"queued", "approval_required", "policy_denied"}, b \in BOOLEAN :
               SaveInvocation(i, s, NoCommand, b) \in R
          /\ CreateApproval(i) \in R /\ CreateCommand(i, FALSE) \in R
      BY ReadyAnyhow DEF Owners
    <3> HIDE DEF R
    <3>2. /\ <<SaveInvocation(i, "queued", NoCommand, FALSE), CreateCommand(i, FALSE)>> \in Seq(R)
          /\ <<SaveInvocation(i, "approval_required", NoCommand, FALSE), CreateApproval(i),
               SaveInvocation(i, "approval_required", NoCommand, TRUE)>> \in Seq(R)
          /\ <<SaveInvocation(i, "policy_denied", NoCommand, FALSE)>> \in Seq(R)
      BY <3>1, ShortPlans
    <3>3. Risk[i] \in Risks
      BY ToolAssumption
    <3> QED BY <2>1, <3>2, <3>3 DEF Invoke, Begin, Risks
  <2>2. ASSUME NEW i \in Invocations, NEW v \in {"approved", "denied"}, Decide(p, i, v)
        PROVE  \E plan \in Seq(R) : Continue(p, plan)
    <3>1. /\ \A s \in {"approved", "denied", "expired"} : SaveApproval(i, s) \in R
          /\ Dispatch(i) \in R
      BY ReadyAnyhow
    <3> HIDE DEF R
    <3>2. /\ <<SaveApproval(i, "expired")>> \in Seq(R)
          /\ <<SaveApproval(i, "denied")>> \in Seq(R)
          /\ <<SaveApproval(i, "approved"), Dispatch(i)>> \in Seq(R)
      BY <3>1, ShortPlans
    <3> QED BY <2>2, <3>2 DEF Decide, Begin
  <2>3. ASSUME NEW d \in Diagnostics, RequestCommand(p, d)
        PROVE  \E plan \in Seq(R) : Continue(p, plan)
    <3>1. CreateCommand(d, FALSE) \in R
      BY ReadyAnyhow DEF Owners
    <3>2. <<CreateCommand(d, FALSE)>> \in Seq(R)
      BY <3>1, ShortPlans
    <3> QED BY <2>3, <3>2 DEF RequestCommand, Begin
  <2> QED BY <2>1, <2>2, <2>3 DEF PeopleStep
<1>3. p \in Procs
  OBVIOUS
<1> QED BY <1>1, <1>2, <1>3, QuietSound

\* A draft is made of a success.
LEMMA DraftResult ==
  ASSUME ApprovalInv, ResultInv, NEW i \in Invocations, CreateDraft(i)
  PROVE  ResultInv'
<1>1. UNCHANGED <<invocation, command, result, todo>>
  BY DEF CreateDraft
<1>2. SoundPlans' /\ OwnLinks' /\ SettledHasResult'
  BY <1>1 DEF ResultInv, SoundPlans, SoundPlan, OwnLinks, ResultsAreTrue, SettledHasResult
<1>3. \E c \in Commands : command[c].owner = i /\ result[c] = "succeeded"
  <2>1. /\ invocation[i].command # NoCommand
        /\ command[invocation[i].command].owner = i
        /\ result[invocation[i].command] = "succeeded"
    BY DEF CreateDraft, ResultInv, ResultsAreTrue, FinishedByOwnResult
  <2>2. invocation[i].command \in Commands
    BY <2>1 DEF ApprovalInv, RowsTyped, Invocation
  <2> QED BY <2>1, <2>2
<1>4. draft' = draft \cup {i}
  BY DEF CreateDraft
<1>5. FinishedByOwnResult'
  BY <1>1, <1>3, <1>4 DEF ResultInv, ResultsAreTrue, FinishedByOwnResult
<1> QED BY <1>2, <1>5 DEF ResultInv, ResultsAreTrue

\* A save of the invocation that is true keeps the results true.
LEMMA SaveInvocationResult ==
  ASSUME ApprovalInv, ResultInv, NEW p \in Procs, DoSaveInvocation(p)
  PROVE  ResultInv'
<1> DEFINE t == Due(p)
<1>1. ~Idle(p) /\ t.op = "saveInvocation"
  BY DEF DoSaveInvocation, At
<1>2. t \in ReadyCall(command, result) /\ Tail(todo[p]) \in Seq(ReadyCall(command, result))
  BY <1>1, NextReady DEF ResultInv
<1>3. UNCHANGED <<approval, command, result, draft>>
  BY DEF DoSaveInvocation
<1>4. /\ t.own \in Invocations
      /\ invocation' = [invocation EXCEPT ![t.own] =
                          [status |-> t.val, command |-> t.com, linked |-> t.flag]]
  BY <1>1, NextCall, TaskFields DEF ApprovalInv, DoSaveInvocation
<1>5. \A i \in Invocations :
        IF i = t.own THEN invocation'[i].status = t.val /\ invocation'[i].command = t.com
        ELSE invocation'[i] = invocation[i]
  BY <1>4 DEF ApprovalInv, RowsTyped
<1>6. /\ t.com # NoCommand => command[t.com].owner = t.own
      /\ t.val \in Outcomes =>
           /\ t.com # NoCommand /\ result[t.com] # "none"
           /\ t.val = "succeeded" => result[t.com] = "succeeded"
  BY <1>1, <1>2 DEF ReadyCall
<1>7. OwnLinks'
  BY <1>3, <1>5, <1>6 DEF ResultInv, OwnLinks
<1>8. FinishedByOwnResult'
  BY <1>3, <1>5, <1>6 DEF ResultInv, ResultsAreTrue, FinishedByOwnResult
<1>9. SettledHasResult'
  BY <1>3 DEF ResultInv, ResultsAreTrue, SettledHasResult
<1>10. SoundPlans'
  <2>1. Grown
    BY <1>3 DEF Grown
  <2>2. Continue(p, Tail(todo[p]))
    BY DEF DoSaveInvocation, Advance
  <2> QED BY <1>2, <1>3, <2>1, <2>2, SoundKept DEF ResultInv
<1> QED BY <1>7, <1>8, <1>9, <1>10 DEF ResultInv, ResultsAreTrue

\* The approval is of no concern to results.
LEMMA ApprovalResult ==
  ASSUME ApprovalInv, ResultInv,
         \/ \E p \in Procs : DoCreateApproval(p) \/ DoSaveApproval(p)
         \/ \E i \in Invocations : ApprovalExpires(i)
  PROVE  ResultInv'
<1>1. UNCHANGED <<invocation, command, result, draft>>
  BY DEF DoCreateApproval, DoSaveApproval, ApprovalExpires
<1>2. Grown
  BY <1>1 DEF Grown
<1>3. ASSUME NEW p \in Procs, DoCreateApproval(p) \/ DoSaveApproval(p)
      PROVE  SoundPlans'
  <2>1. ~Idle(p) /\ Due(p).op \in {"createApproval", "saveApproval"} /\ Continue(p, Tail(todo[p]))
    BY <1>3 DEF DoCreateApproval, DoSaveApproval, At, Advance
  <2>2. Tail(todo[p]) \in Seq(ReadyCall(command, result))
    BY <2>1, NextReady DEF ResultInv
  <2> QED BY <1>1, <1>2, <2>1, <2>2, SoundKept DEF ResultInv
<1>4. ASSUME NEW i \in Invocations, ApprovalExpires(i)
      PROVE  SoundPlans'
  BY <1>2, <1>4, OthersSound DEF ApprovalExpires, ResultInv
<1>5. SoundPlans'
  BY <1>3, <1>4
<1> QED BY <1>1, <1>5 DEF ResultInv, OwnLinks, ResultsAreTrue, SettledHasResult,
       FinishedByOwnResult

\* The approval is checked, or a plan is cut short.
LEMMA DispatchResult ==
  ASSUME ApprovalInv, ResultInv, NEW p \in Procs, DoDispatch(p)
  PROVE  ResultInv'
<1>1. ~Idle(p) /\ Due(p).op = "dispatch"
  BY DEF DoDispatch, At
<1>2. Due(p).own \in Invocations
  BY <1>1, NextCall, TaskFields DEF ApprovalInv
<1>3. CreateCommand(Due(p).own, TRUE) \in ReadyCall(command, result)
  BY <1>2, ReadyAnyhow DEF Owners
<1>4. <<>> \in Seq(ReadyCall(command, result))
      /\ <<CreateCommand(Due(p).own, TRUE)>> \in Seq(ReadyCall(command, result))
  BY <1>3, ShortPlans
<1>5. PICK plan \in Seq(ReadyCall(command, result)) : Continue(p, plan)
  BY <1>4 DEF DoDispatch
<1> QED BY <1>5, QuietSound DEF DoDispatch

\* A step that stores no result, inserts no row twice and settles none.
LEMMA CommandRowResult ==
  ASSUME ApprovalInv, ResultInv, UNCHANGED <<invocation, result, draft>>, Grown,
         \A c \in Commands :
           /\ command'[c].status \in Outcomes => result[c] = command'[c].status
           /\ command'[c].status = "absent" => command'[c].owner = NoCommand
  PROVE  OwnLinks' /\ ResultsAreTrue'
<1>1. SettledHasResult'
  BY DEF SettledHasResult
<1>2. \A i \in Invocations :
        invocation[i].command # NoCommand =>
          /\ invocation[i].command \in Commands
          /\ command[invocation[i].command].owner = i
          /\ i # NoCommand
          /\ command'[invocation[i].command].owner = i
  <2> SUFFICES ASSUME NEW i \in Invocations, invocation[i].command # NoCommand
               PROVE  /\ invocation[i].command \in Commands
                      /\ command[invocation[i].command].owner = i
                      /\ i # NoCommand
                      /\ command'[invocation[i].command].owner = i
    OBVIOUS
  <2>1. invocation[i].command \in Commands /\ i # NoCommand
    BY ToolAssumption DEF ApprovalInv, RowsTyped, Invocation, Owners
  <2>2. command[invocation[i].command].owner = i
    BY DEF ResultInv, OwnLinks
  <2> QED BY <2>1, <2>2 DEF Grown
<1>3. OwnLinks'
  BY <1>2 DEF OwnLinks
<1>4. ASSUME NEW i \in Invocations, i \in draft'
      PROVE  \E c \in Commands : command'[c].owner = i /\ result'[c] = "succeeded"
  <2>1. PICK c \in Commands : command[c].owner = i /\ result[c] = "succeeded"
    BY <1>4 DEF ResultInv, ResultsAreTrue, FinishedByOwnResult
  <2>2. i # NoCommand
    BY ToolAssumption DEF Owners
  <2> QED BY <2>1, <2>2 DEF Grown
<1>5. FinishedByOwnResult'
  BY <1>2, <1>4 DEF ResultInv, ResultsAreTrue, FinishedByOwnResult
<1> QED BY <1>1, <1>3, <1>5 DEF ResultsAreTrue

LEMMA CreateCommandResult ==
  ASSUME ApprovalInv, ResultInv, NEW p \in Procs, DoCreateCommand(p)
  PROVE  ResultInv'
<1> DEFINE o == Due(p).own
           R == ReadyCall(command', result')
<1>1. ~Idle(p) /\ Due(p).op = "createCommand"
  BY DEF DoCreateCommand, At
<1>2. o \in Owners /\ Due(p).flag \in BOOLEAN
  BY <1>1, NextCall, TaskFields DEF ApprovalInv
<1>3. UNCHANGED <<invocation, approval, result, draft>>
  BY DEF DoCreateCommand
<1>4. CASE Continue(p, <<>>) /\ UNCHANGED command
  <2>1. UNCHANGED rows
    BY <1>3, <1>4 DEF rows
  <2>2. <<>> \in Seq(ReadyCall(command, result))
    BY ShortPlans
  <2> QED BY <1>4, <2>1, <2>2, QuietSound
<1>5. ASSUME NEW c \in Commands, command[c].status = "absent",
             command' = [command EXCEPT ![c] = [status |-> "queued", owner |-> o,
                                                overdue |-> FALSE, recent |-> TRUE]],
             Continue(p, LinkAndConsume(o, c, Due(p).flag))
      PROVE  ResultInv'
  <2>1. \A d \in Commands :
          IF d = c THEN command'[d].status = "queued" /\ command'[d].owner = o
          ELSE command'[d] = command[d]
    BY <1>5 DEF ApprovalInv, RowsTyped
  <2>2. command[c].owner = NoCommand
    BY <1>5 DEF ResultInv, OwnLinks
  <2>3. Grown
    BY <1>3, <2>1, <2>2 DEF Grown
  <2>4. \A d \in Commands :
          /\ command'[d].status \in Outcomes => result[d] = command'[d].status
          /\ command'[d].status = "absent" => command'[d].owner = NoCommand
    BY <2>1 DEF ResultInv, ResultsAreTrue, SettledHasResult, OwnLinks
  <2>5. OwnLinks' /\ ResultsAreTrue'
    BY <1>3, <2>3, <2>4, CommandRowResult
  <2>6. LinkAndConsume(o, c, Due(p).flag) \in Seq(R)
    <3>1. CASE o \in Diagnostics
      BY <3>1, ShortPlans DEF LinkAndConsume
    <3>2. CASE o \notin Diagnostics
      <4>1. o \in Invocations /\ command'[c].owner = o
        BY <1>2, <2>1, <3>2 DEF Owners
      <4>2. SaveInvocation(o, "queued", c, Due(p).flag) \in R
        BY <1>2, <4>1 DEF ReadyCall, Task, Call, Step, SaveInvocation
      <4>3. SaveApproval(o, "consumed") \in R
        BY <4>1, ReadyAnyhow
      <4> HIDE DEF R
      <4>4. /\ <<SaveInvocation(o, "queued", c, Due(p).flag)>> \in Seq(R)
            /\ <<SaveApproval(o, "consumed")>> \in Seq(R)
            /\ <<>> \in Seq(R)
        BY <4>2, <4>3, ShortPlans
      <4>5. \A s, t \in Seq(R) : s \o t \in Seq(R)
        BY ConcatProperties
      <4> QED BY <3>2, <4>4, <4>5 DEF LinkAndConsume
    <3> QED BY <3>1, <3>2
  <2>7. SoundPlans'
    BY <1>5, <2>3, <2>6, SoundKept DEF ResultInv
  <2> QED BY <2>5, <2>7 DEF ResultInv
<1> QED BY <1>4, <1>5 DEF DoCreateCommand

\* A run claims, executes, or submits.
LEMMA RunResult ==
  ASSUME ApprovalInv, ResultInv, NEW r \in Procs,
         FindCommand(r) \/ DoExecute(r) \/ DoSubmit(r)
  PROVE  ResultInv'
<1> DEFINE R == ReadyCall(command, result)
<1>1. UNCHANGED rows
  BY DEF FindCommand, DoExecute, DoSubmit
<1>2. CASE FindCommand(r)
  <2>1. PICK c \in Commands : Continue(r, <<ClaimRow(c)>>)
    BY <1>2 DEF FindCommand, Begin
  <2>2. <<ClaimRow(c)>> \in Seq(R)
    BY ReadyAnyhow, ShortPlans
  <2> QED BY <1>1, <2>1, <2>2, QuietSound
<1>3. CASE DoExecute(r)
  <2>1. Due(r).com \in Commands
    BY <1>3, NextCall, TaskFields DEF ApprovalInv, DoExecute, At
  <2>2. PICK s \in Outcomes, b \in BOOLEAN : Continue(r, <<Submit(Due(r).com, s, b)>>)
    BY <1>3 DEF DoExecute
  <2>3. <<Submit(Due(r).com, s, b)>> \in Seq(R)
    BY <2>1, ReadyAnyhow, ShortPlans
  <2> QED BY <1>1, <2>2, <2>3, QuietSound
<1>4. CASE DoSubmit(r)
  <2>1. Due(r).com \in Commands /\ Due(r).val \in Outcomes /\ Due(r).flag \in BOOLEAN
    BY <1>4, NextCall, TaskFields DEF ApprovalInv, DoSubmit, At
  <2>2. Retry(Due(r).com, Due(r).flag) \in Seq(R)
    BY <2>1, ReadyRetry
  <2>3. <<SaveCommand(Due(r).com, "expired", Due(r).flag)>> \in Seq(R)
    BY <2>1, ReadyAnyhow, ShortPlans
  <2> HIDE DEF R
  <2>4. <<SaveCommand(Due(r).com, "expired", Due(r).flag)>> \o Retry(Due(r).com, Due(r).flag)
          \in Seq(R)
    BY <2>2, <2>3, ConcatProperties
  <2>5. PICK plan : /\ Continue(r, plan)
                    /\ \/ plan \in Seq(R)
                       \/ plan = Accepted(Due(r).com, Due(r).val, Due(r).flag)
    BY <1>4, <2>2, <2>4 DEF DoSubmit
  <2> QED BY <1>1, <2>1, <2>5, QuietSound DEF R
<1> QED BY <1>2, <1>3, <1>4

LEMMA ClaimResult ==
  ASSUME ApprovalInv, ResultInv, NEW r \in Procs, DoClaimRow(r)
  PROVE  ResultInv'
<1> DEFINE c == Due(r).com
<1>1. c \in Commands
  BY NextCall, TaskFields DEF ApprovalInv, DoClaimRow, At
<1>2. UNCHANGED <<invocation, result, draft>> /\ Continue(r, <<Execute(c)>>)
  BY DEF DoClaimRow
<1>3. \A d \in Commands :
        /\ command'[d].owner = command[d].owner
        /\ command'[d].status = IF d = c THEN "claimed" ELSE command[d].status
  BY <1>1 DEF DoClaimRow, ApprovalInv, RowsTyped, Command
<1>4. Grown
  BY <1>2, <1>3 DEF Grown
<1>5. OwnLinks' /\ ResultsAreTrue'
  BY <1>2, <1>3, <1>4, CommandRowResult
     DEF ResultInv, OwnLinks, ResultsAreTrue, SettledHasResult
<1>6. <<Execute(c)>> \in Seq(ReadyCall(command', result'))
  BY <1>1, ReadyAnyhow, ShortPlans
<1> QED BY <1>2, <1>4, <1>5, <1>6, SoundKept DEF ResultInv

\* The first result of a command is kept, and the rest of its plan is true.
LEMMA SaveResultResult ==
  ASSUME ApprovalInv, ResultInv, NEW r \in Procs, DoSaveResult(r)
  PROVE  ResultInv'
<1> DEFINE t == Due(r)
<1>1. ~Idle(r) /\ t.op = "saveResult"
  BY DEF DoSaveResult, At
<1>2. t.com \in Commands /\ t.val \in Outcomes /\ t.flag \in BOOLEAN
  BY <1>1, NextCall, TaskFields DEF ApprovalInv
<1>3. UNCHANGED <<invocation, approval, command, draft>>
  BY DEF DoSaveResult
<1>4. CASE Continue(r, Retry(t.com, t.flag)) /\ UNCHANGED result
  <2>1. UNCHANGED rows
    BY <1>3, <1>4 DEF rows
  <2> QED BY <1>2, <1>4, <2>1, ReadyRetry, QuietSound
<1>5. CASE result[t.com] = "none" /\ result' = [result EXCEPT ![t.com] = t.val] /\ Advance(r)
  <2>1. /\ result'[t.com] = t.val
        /\ \A d \in Commands : result[d] # "none" => result'[d] = result[d]
    BY <1>2, <1>5 DEF ApprovalInv, RowsTyped
  <2>2. Grown
    BY <1>3, <2>1 DEF Grown
  <2>3. OwnLinks'
    BY <1>3 DEF ResultInv, OwnLinks
  <2>4. SettledHasResult'
    BY <1>3, <2>1 DEF ResultInv, ResultsAreTrue, SettledHasResult
  <2>5. FinishedByOwnResult'
    <3>1. \A i \in Invocations :
            invocation[i].command # NoCommand => invocation[i].command \in Commands
      BY DEF ApprovalInv, RowsTyped, Invocation
    <3> QED BY <1>3, <2>1, <3>1 DEF ResultInv, ResultsAreTrue, FinishedByOwnResult
  <2>6. Tail(todo[r]) \in Seq(ReadyCall(command', result'))
    <3>1. CASE todo[r] \in Seq(ReadyCall(command, result))
      <4>1. Tail(todo[r]) \in Seq(ReadyCall(command, result))
        BY <1>1, <3>1, HeadTailProperties DEF Idle
      <4> QED BY <2>2, <4>1, ReadyGrows, SeqGrows
    <3>2. ASSUME NEW c \in Commands, NEW v \in Outcomes, NEW b \in BOOLEAN,
                 todo[r] = Accepted(c, v, b)
          PROVE  Tail(todo[r]) \in Seq(ReadyCall(command', result'))
      <4>1. t.com = c /\ t.val = v
        BY <3>2, AcceptedParts DEF Due, SaveResult, Step
      <4>2. result'[c] = v
        BY <2>1, <4>1
      <4>3. Tail(todo[r]) = <<SaveCommand(c, v, b), Notify(c, v, b), Reply(c, b)>>
        BY <3>2, AcceptedParts
      <4>4. <<SaveCommand(c, v, b), Notify(c, v, b), Reply(c, b)>>
              \in Seq(ReadyCall(command', result'))
        BY <4>2, ReadyAfterResult
      <4> QED BY <4>3, <4>4
    <3> QED BY <3>1, <3>2 DEF ResultInv, SoundPlans, SoundPlan
  <2>7. SoundPlans'
    BY <1>5, <2>2, <2>6, SoundKept DEF ResultInv, Advance
  <2> QED BY <2>3, <2>4, <2>5, <2>7 DEF ResultInv, ResultsAreTrue
<1> QED BY <1>4, <1>5 DEF DoSaveResult

LEMMA SaveCommandResult ==
  ASSUME ApprovalInv, ResultInv, NEW r \in Procs, DoSaveCommand(r)
  PROVE  ResultInv'
<1> DEFINE t == Due(r)
<1>1. ~Idle(r) /\ t.op = "saveCommand"
  BY DEF DoSaveCommand, At
<1>2. t.com \in Commands /\ t.val \in Outcomes \cup {"expired"}
  BY <1>1, NextCall, TaskFields DEF ApprovalInv
<1>3. t \in ReadyCall(command, result) /\ Tail(todo[r]) \in Seq(ReadyCall(command, result))
  BY <1>1, NextReady DEF ResultInv
<1>4. UNCHANGED <<invocation, result, draft>> /\ Continue(r, Tail(todo[r]))
  BY DEF DoSaveCommand, Advance
<1>5. \A d \in Commands :
        /\ command'[d].owner = command[d].owner
        /\ command'[d].status = IF d = t.com THEN t.val ELSE command[d].status
  BY <1>2 DEF DoSaveCommand, ApprovalInv, RowsTyped, Command
<1>6. Grown
  BY <1>4, <1>5 DEF Grown
<1>7. t.val \in Outcomes => result[t.com] = t.val
  BY <1>1, <1>3 DEF ReadyCall
<1>8. OwnLinks' /\ ResultsAreTrue'
  <2>1. \A d \in Commands :
          /\ command'[d].status \in Outcomes => result[d] = command'[d].status
          /\ command'[d].status = "absent" => command'[d].owner = NoCommand
    BY <1>2, <1>5, <1>7 DEF ResultInv, OwnLinks, ResultsAreTrue, SettledHasResult
  <2> QED BY <1>4, <1>6, <2>1, CommandRowResult
<1>9. Tail(todo[r]) \in Seq(ReadyCall(command', result'))
  BY <1>3, <1>6, ReadyGrows, SeqGrows
<1> QED BY <1>4, <1>6, <1>8, <1>9, SoundKept DEF ResultInv

\* The invocation that names the command hears its result, or worse.
LEMMA NotifyResult ==
  ASSUME ApprovalInv, ResultInv, NEW r \in Procs, DoNotify(r)
  PROVE  ResultInv'
<1> DEFINE t == Due(r)
           R == ReadyCall(command, result)
<1>1. ~Idle(r) /\ t.op = "notify"
  BY DEF DoNotify, At
<1>2. t.com \in Commands /\ t.val \in Outcomes
  BY <1>1, NextCall, TaskFields DEF ApprovalInv
<1>3. result[t.com] = t.val /\ Tail(todo[r]) \in Seq(R)
  BY <1>1, NextReady DEF ResultInv, ReadyCall
<1>4. PICK plan \in Seq(R) : Continue(r, plan)
  <2>1. CASE Advance(r)
    BY <1>3, <2>1 DEF Advance
  <2>2. ASSUME NEW i \in Invocations, invocation[i].command = t.com,
               NEW s \in ReportedStatus(t.val),
               Continue(r, <<SaveInvocation(i, s, t.com, invocation[i].linked)>>
                             \o Tail(todo[r]))
        PROVE  \E plan \in Seq(R) : Continue(r, plan)
    <3>1. s \in Outcomes /\ (s = "succeeded" => t.val = "succeeded")
      BY <1>2, <2>2 DEF ReportedStatus
    <3>2. t.com # NoCommand /\ command[t.com].owner = i /\ invocation[i].linked \in BOOLEAN
      BY <1>2, <2>2 DEF ResultInv, OwnLinks, ApprovalInv, RowsTyped, Invocation, Commands
    <3>3. SaveInvocation(i, s, t.com, invocation[i].linked) \in R
      BY <1>2, <1>3, <3>1, <3>2 DEF ReadyCall, Task, Call, Step, SaveInvocation
    <3> HIDE DEF R
    <3>4. <<SaveInvocation(i, s, t.com, invocation[i].linked)>> \in Seq(R)
      BY <3>3, ShortPlans
    <3>5. <<SaveInvocation(i, s, t.com, invocation[i].linked)>> \o Tail(todo[r]) \in Seq(R)
      BY <1>3, <3>4, ConcatProperties
    <3> QED BY <2>2, <3>5
  <2> QED BY <2>1, <2>2 DEF DoNotify
<1> QED BY <1>4, QuietSound DEF DoNotify

LEMMA FaultResult ==
  ASSUME ApprovalInv, ResultInv, NEW p \in Procs,
         \/ DoReply(p) \/ ReplyLost(p) \/ Dies(p) \/ HandlerDies(p)
  PROVE  ResultInv'
<1> DEFINE R == ReadyCall(command, result)
<1>1. <<>> \in Seq(R)
  BY ShortPlans
<1>2. ASSUME NEW op \in {"submit", "saveResult", "saveCommand", "notify", "reply"}, At(p, op)
      PROVE  Retry(Due(p).com, Due(p).flag) \in Seq(R)
  <2>1. Due(p).com \in Commands /\ Due(p).flag \in BOOLEAN
    BY <1>2, NextCall, TaskFields DEF ApprovalInv, At
  <2> QED BY <2>1, ReadyRetry
<1>3. UNCHANGED rows
  BY DEF DoReply, ReplyLost, Dies, HandlerDies
<1>4. PICK plan \in Seq(R) : Continue(p, plan)
  <2>1. CASE DoReply(p) \/ Dies(p)
    BY <1>1, <2>1 DEF DoReply, Dies
  <2>2. CASE ReplyLost(p)
    BY <1>1, <1>2, <2>2 DEF ReplyLost
  <2>3. CASE HandlerDies(p)
    BY <1>2, <2>3, ReadyRetry DEF HandlerDies
  <2> QED BY <2>1, <2>2, <2>3
<1> QED BY <1>3, <1>4, QuietSound

\* Time moves no command on.
LEMMA TimeKeepsRows ==
  ASSUME ApprovalInv, (\E c \in Commands : CommandExpires(c)) \/ MinutePasses
  PROVE  \A d \in Commands :
           command'[d].owner = command[d].owner /\ command'[d].status = command[d].status
<1>0. command \in [Commands -> Command]
  BY DEF ApprovalInv, RowsTyped
<1>1. ASSUME NEW c \in Commands, CommandExpires(c), NEW d \in Commands
      PROVE  command'[d].owner = command[d].owner /\ command'[d].status = command[d].status
  <2>1. command[d] \in Command
    BY <1>0
  <2> QED BY <1>0, <1>1, <2>1 DEF CommandExpires, Command
<1>2. ASSUME MinutePasses, NEW d \in Commands
      PROVE  command'[d].owner = command[d].owner /\ command'[d].status = command[d].status
  <2>1. command'[d] = [command[d] EXCEPT !.recent = FALSE] /\ command[d] \in Command
    BY <1>0, <1>2 DEF MinutePasses
  <2> QED BY <2>1 DEF Command
<1> QED BY <1>1, <1>2

LEMMA CommandTimeResult ==
  ASSUME ApprovalInv, ResultInv, (\E c \in Commands : CommandExpires(c)) \/ MinutePasses
  PROVE  ResultInv'
<1>1. UNCHANGED <<invocation, result, draft, todo>>
  BY DEF CommandExpires, MinutePasses
<1>2. \A d \in Commands :
        command'[d].owner = command[d].owner /\ command'[d].status = command[d].status
  BY TimeKeepsRows
<1>3. Grown
  BY <1>1, <1>2 DEF Grown
<1>4. OwnLinks' /\ ResultsAreTrue'
  BY <1>1, <1>2, <1>3, CommandRowResult DEF ResultInv, OwnLinks, ResultsAreTrue, SettledHasResult
<1> QED BY <1>1, <1>3, <1>4, OthersSound DEF ResultInv

LEMMA ResultStep == ASSUME ApprovalInv, ResultInv, [Next]_vars PROVE ResultInv'
<1>1. ASSUME NEW p \in Users, PeopleStep(p) PROVE ResultInv'
  BY <1>1, PeopleResult
<1>2. ASSUME NEW i \in Invocations, CreateDraft(i) \/ ApprovalExpires(i) PROVE ResultInv'
  BY <1>2, DraftResult, ApprovalResult
<1>3. ASSUME NEW r \in Runs, FindCommand(r) \/ ReplyLost(r) \/ HandlerDies(r) PROVE ResultInv'
  BY <1>3, RunResult, FaultResult
<1>4. ASSUME NEW p \in Procs, RequestStep(p) PROVE ResultInv'
  <2>1. CASE \/ DoSaveInvocation(p) \/ DoCreateApproval(p) \/ DoSaveApproval(p)
             \/ DoDispatch(p) \/ DoCreateCommand(p)
    BY <2>1, SaveInvocationResult, ApprovalResult, DispatchResult, CreateCommandResult
  <2>2. CASE \/ DoClaimRow(p) \/ DoExecute(p) \/ DoSubmit(p) \/ DoSaveResult(p)
             \/ DoSaveCommand(p) \/ DoNotify(p) \/ DoReply(p)
    BY <2>2, ClaimResult, RunResult, SaveResultResult, SaveCommandResult, NotifyResult,
       FaultResult
  <2> QED BY <1>4, <2>1, <2>2 DEF RequestStep
<1>5. ASSUME NEW p \in Procs, Dies(p) PROVE ResultInv'
  BY <1>5, FaultResult
<1>6. CASE (\E c \in Commands : CommandExpires(c)) \/ MinutePasses
  BY <1>6, CommandTimeResult
<1>7. CASE UNCHANGED vars
  BY <1>7 DEF vars, ResultInv, OwnLinks, ResultsAreTrue, SettledHasResult,
     FinishedByOwnResult, SoundPlans, SoundPlan
<1> QED BY <1>1, <1>2, <1>3, <1>4, <1>5, <1>6, <1>7 DEF Next

\* A settled command agrees with the one result kept for it, an invocation is
\* finished by a result of a command of its own, a success by a success, and a
\* note draft is about one (submitResult, onCommandResult): through crashes,
\* repeated posts and overlapping runs of the agent.
THEOREM ResultsTrue == Spec => []ResultsAreTrue
<1>1. Init => ApprovalInv /\ ResultInv
  BY ApprovalInvInit, ResultInvInit
<1>2. (ApprovalInv /\ ResultInv) /\ [Next]_vars => (ApprovalInv /\ ResultInv)'
  BY NextKeeps, ResultStep
<1>3. ApprovalInv /\ ResultInv => ResultsAreTrue
  BY DEF ResultInv
<1> QED BY <1>1, <1>2, <1>3, PTL DEF Spec

-----------------------------------------------------------------------------
(* How a request goes on *)

\* The calls that a run of the agent may always go on with.
RunCall ==
  {t \in Task : t.op \in {"saveInvocation", "submit", "saveResult", "saveCommand", "notify",
                          "reply"}}

LEMMA RunCallMembers ==
  ASSUME NEW c \in Commands
  PROVE  /\ \A s \in Outcomes, b \in BOOLEAN :
              /\ Submit(c, s, b) \in RunCall /\ SaveResult(c, s, b) \in RunCall
              /\ SaveCommand(c, s, b) \in RunCall /\ Notify(c, s, b) \in RunCall
         /\ \A b \in BOOLEAN : SaveCommand(c, "expired", b) \in RunCall /\ Reply(c, b) \in RunCall
         /\ \A i \in Invocations, s \in Outcomes, b \in BOOLEAN :
              SaveInvocation(i, s, c, b) \in RunCall
<1>1. \A s \in Outcomes, b \in BOOLEAN :
        /\ Submit(c, s, b) \in RunCall /\ SaveResult(c, s, b) \in RunCall
        /\ SaveCommand(c, s, b) \in RunCall /\ Notify(c, s, b) \in RunCall
  BY DEF RunCall, Task, Call, Step, Submit, SaveResult, SaveCommand, Notify
<1>2. \A b \in BOOLEAN : SaveCommand(c, "expired", b) \in RunCall /\ Reply(c, b) \in RunCall
  BY DEF RunCall, Task, Call, Step, SaveCommand, Reply
<1>3. \A i \in Invocations, s \in Outcomes, b \in BOOLEAN : SaveInvocation(i, s, c, b) \in RunCall
  BY DEF RunCall, Task, Call, Step, SaveInvocation
<1> QED BY <1>1, <1>2, <1>3

LEMMA RetryCalls ==
  ASSUME NEW c \in Commands, NEW b \in BOOLEAN
  PROVE  Retry(c, b) \in Seq(RunCall)
<1>1. Submit(c, "failed", TRUE) \in RunCall
  BY RunCallMembers
<1>2. <<>> \in Seq(RunCall) /\ <<Submit(c, "failed", TRUE)>> \in Seq(RunCall)
  BY <1>1, ShortPlans
<1> QED BY <1>2 DEF Retry

LEMMA AcceptedCalls ==
  ASSUME NEW c \in Commands, NEW s \in Outcomes, NEW b \in BOOLEAN
  PROVE  Accepted(c, s, b) \in Seq(RunCall)
<1>1. /\ SaveResult(c, s, b) \in RunCall /\ SaveCommand(c, s, b) \in RunCall
      /\ Notify(c, s, b) \in RunCall /\ Reply(c, b) \in RunCall
  BY RunCallMembers
<1>2. \A w, x, y, z \in RunCall : <<w, x, y, z>> \in Seq(RunCall)
  OBVIOUS
<1> QED BY <1>1, <1>2 DEF Accepted

\* A call after which the request goes on with the rest of its plan, or a run
\* with calls of its own.
LEMMA RestOfPlan ==
  ASSUME ApprovalInv, NEW S, RunCall \subseteq S, NEW p \in Procs, todo[p] \in Seq(S),
         \/ DoSaveInvocation(p) \/ DoCreateApproval(p) \/ DoSaveApproval(p)
         \/ DoSaveResult(p) \/ DoSaveCommand(p) \/ DoNotify(p)
  PROVE  \E plan \in Seq(S) : Continue(p, plan)
<1>1. todo[p] # <<>>
  BY DEF DoSaveInvocation, DoCreateApproval, DoSaveApproval, DoSaveResult, DoSaveCommand,
     DoNotify, At, Idle
<1>2. Tail(todo[p]) \in Seq(S)
  BY <1>1, HeadTailProperties
<1>3. CASE Advance(p)
  BY <1>2, <1>3 DEF Advance
<1>4. CASE DoSaveResult(p)
  <2>1. Due(p).com \in Commands /\ Due(p).flag \in BOOLEAN
    BY <1>4, NextCall, TaskFields DEF ApprovalInv, DoSaveResult, At
  <2>2. Retry(Due(p).com, Due(p).flag) \in Seq(S)
    BY <2>1, RetryCalls, SeqGrows
  <2> QED BY <1>3, <1>4, <2>2 DEF DoSaveResult
<1>5. CASE DoNotify(p)
  <2>1. Due(p).com \in Commands /\ Due(p).val \in Outcomes
    BY <1>5, NextCall, TaskFields DEF ApprovalInv, DoNotify, At
  <2>2. ASSUME NEW i \in Invocations, NEW s \in ReportedStatus(Due(p).val),
               Continue(p, <<SaveInvocation(i, s, Due(p).com, invocation[i].linked)>>
                             \o Tail(todo[p]))
        PROVE  \E plan \in Seq(S) : Continue(p, plan)
    <3>1. s \in Outcomes /\ invocation[i].linked \in BOOLEAN
      BY <2>1, <2>2 DEF ReportedStatus, ApprovalInv, RowsTyped, Invocation
    <3>2. SaveInvocation(i, s, Due(p).com, invocation[i].linked) \in S
      BY <2>1, <3>1, RunCallMembers
    <3>3. <<SaveInvocation(i, s, Due(p).com, invocation[i].linked)>> \in Seq(S)
      BY <3>2, ShortPlans
    <3>4. <<SaveInvocation(i, s, Due(p).com, invocation[i].linked)>> \o Tail(todo[p]) \in Seq(S)
      BY <1>2, <3>3, ConcatProperties
    <3> QED BY <2>2, <3>4
  <2> QED BY <1>3, <1>5, <2>2 DEF DoNotify
<1> QED BY <1>3, <1>4, <1>5 DEF DoSaveInvocation, DoCreateApproval, DoSaveApproval, DoSaveCommand

\* A call after which a run goes on with calls of its own, or a request ends.
LEMMA RunPlan ==
  ASSUME ApprovalInv, NEW p \in Procs,
         \/ DoExecute(p) \/ DoSubmit(p) \/ DoReply(p)
         \/ ReplyLost(p) \/ Dies(p) \/ HandlerDies(p)
  PROVE  \E plan \in Seq(RunCall) : Continue(p, plan)
<1>1. <<>> \in Seq(RunCall)
  BY ShortPlans
<1>2. ASSUME NEW op \in {"execute", "submit", "saveResult", "saveCommand", "notify", "reply"},
             At(p, op)
      PROVE  Due(p).com \in Commands /\ Due(p).flag \in BOOLEAN
             /\ Retry(Due(p).com, Due(p).flag) \in Seq(RunCall)
  <2>1. Due(p).com \in Commands /\ Due(p).flag \in BOOLEAN
    BY <1>2, NextCall, TaskFields DEF ApprovalInv, At
  <2> QED BY <2>1, RetryCalls
<1>3. CASE DoReply(p) \/ Dies(p)
  BY <1>1, <1>3 DEF DoReply, Dies
<1>4. CASE ReplyLost(p)
  BY <1>1, <1>2, <1>4 DEF ReplyLost
<1>5. CASE HandlerDies(p)
  BY <1>2, <1>5, RetryCalls DEF HandlerDies
<1>6. CASE DoExecute(p)
  <2>1. PICK s \in Outcomes, b \in BOOLEAN : Continue(p, <<Submit(Due(p).com, s, b)>>)
    BY <1>6 DEF DoExecute
  <2>2. <<Submit(Due(p).com, s, b)>> \in Seq(RunCall)
    BY <1>2, <1>6, RunCallMembers, ShortPlans DEF DoExecute
  <2> QED BY <2>1, <2>2
<1>7. CASE DoSubmit(p)
  <2>1. Due(p).val \in Outcomes /\ Due(p).com \in Commands /\ Due(p).flag \in BOOLEAN
    BY <1>7, NextCall, TaskFields DEF ApprovalInv, DoSubmit, At
  <2>2. Retry(Due(p).com, Due(p).flag) \in Seq(RunCall)
    BY <2>1, RetryCalls
  <2>3. <<SaveCommand(Due(p).com, "expired", Due(p).flag)>> \in Seq(RunCall)
    BY <2>1, RunCallMembers, ShortPlans
  <2>4. <<SaveCommand(Due(p).com, "expired", Due(p).flag)>> \o Retry(Due(p).com, Due(p).flag)
          \in Seq(RunCall)
    BY <2>2, <2>3, ConcatProperties
  <2>5. Accepted(Due(p).com, Due(p).val, Due(p).flag) \in Seq(RunCall)
    BY <2>1, AcceptedCalls
  <2> QED BY <1>7, <2>2, <2>4, <2>5 DEF DoSubmit
<1> QED BY <1>3, <1>4, <1>5, <1>6, <1>7

-----------------------------------------------------------------------------
(* Claims: at most one run holds a command nobody else found at once *)

\* The calls of a plan that neither claims nor executes.
LaterCall == {t \in Task : t.op \notin {"claimRow", "execute"}}

Holding(c) == {<<ClaimRow(c)>>, <<Execute(c)>>}

\* A run claims and executes one command at a time, and nobody else does.
ClaimPlans ==
  \A p \in Procs :
    \/ todo[p] \in Seq(LaterCall)
    \/ p \in Runs /\ \E c \in Commands : todo[p] \in Holding(c)

NotYetClaimed == {"absent", "queued"}

\* A command is claimed before it is executed, and never queued again.
ClaimsFirst ==
  \A c \in Commands :
    /\ executions[c] > 0 => command[c].status \notin NotYetClaimed
    /\ \A p \in Procs :
         /\ todo[p] = <<ClaimRow(c)>> => command[c].status # "absent"
         /\ todo[p] = <<Execute(c)>> => command[c].status \notin NotYetClaimed

\* A command that no two runs found at once has one holder at most, and no
\* holder once it was executed.
OneHolder ==
  \A c \in Commands \ contended :
    /\ executions[c] <= 1
    /\ \A p \in Procs :
         todo[p] \in Holding(c) =>
           /\ executions[c] = 0
           /\ \A q \in Procs : todo[q] \in Holding(c) => q = p

ClaimInv == ClaimPlans /\ ClaimsFirst /\ OneHolder

LEMMA ClaimInvInit == ASSUME Init PROVE ClaimInv
<1>1. \A p \in Procs : todo[p] = <<>>
  BY DEF Init
<1>2. ClaimPlans
  BY <1>1, ShortPlans DEF ClaimPlans
<1>3. \A c \in Commands : <<>> # <<ClaimRow(c)>> /\ <<>> # <<Execute(c)>>
  OBVIOUS
<1>4. \A c \in Commands : executions[c] = 0
  BY DEF Init
<1>5. ClaimsFirst
  BY <1>1, <1>3, <1>4 DEF ClaimsFirst
<1>6. \A c \in Commands : <<>> \notin Holding(c)
  BY <1>3 DEF Holding
<1>7. OneHolder
  BY <1>1, <1>4, <1>6 DEF OneHolder
<1> QED BY <1>2, <1>5, <1>7 DEF ClaimInv

\* Holders hold one command, and do so to claim or to execute it.
LEMMA HoldingPlans ==
  ASSUME NEW c \in Commands
  PROVE  /\ \A s \in Seq(LaterCall) : s \notin Holding(c)
         /\ \A d \in Commands : <<ClaimRow(d)>> # <<Execute(c)>>
         /\ \A d \in Commands : <<ClaimRow(d)>> = <<ClaimRow(c)>> => d = c
         /\ \A d \in Commands : <<Execute(d)>> = <<Execute(c)>> => d = c
         /\ Head(<<ClaimRow(c)>>) = ClaimRow(c) /\ Head(<<Execute(c)>>) = Execute(c)
         /\ <<ClaimRow(c)>> # <<>> /\ <<Execute(c)>> # <<>>
         /\ ClaimRow(c).op = "claimRow" /\ ClaimRow(c).com = c
         /\ Execute(c).op = "execute" /\ Execute(c).com = c
<1>1. ASSUME NEW s \in Seq(LaterCall), s \in Holding(c) PROVE FALSE
  <2>1. s # <<>> /\ Head(s) \in {ClaimRow(c), Execute(c)}
    BY <1>1 DEF Holding
  <2>2. Head(s) \in LaterCall
    BY <2>1, HeadTailProperties
  <2> QED BY <2>1, <2>2 DEF LaterCall, ClaimRow, Execute, Step
<1>2. /\ ClaimRow(c).op = "claimRow" /\ ClaimRow(c).com = c
      /\ Execute(c).op = "execute" /\ Execute(c).com = c
      /\ \A d \in Commands : /\ ClaimRow(d).op = "claimRow" /\ ClaimRow(d).com = d
                             /\ Execute(d).op = "execute" /\ Execute(d).com = d
  BY DEF ClaimRow, Execute, Step
<1>3. \A x : <<x>> # <<>> /\ Head(<<x>>) = x
  OBVIOUS
<1>4. \A x, y : <<x>> = <<y>> => x = y
  OBVIOUS
<1> QED BY <1>1, <1>2, <1>3, <1>4

\* Whoever is at another call plans no claim.
LEMMA LaterPlan ==
  ASSUME ClaimPlans, NEW p \in Procs, ~Idle(p), Due(p).op \notin {"claimRow", "execute"}
  PROVE  todo[p] \in Seq(LaterCall)
BY HoldingPlans DEF ClaimPlans, Holding, Due

\* Whoever is about to claim, or to execute, is a run and plans nothing else.
LEMMA HolderPlan ==
  ASSUME ApprovalInv, ClaimPlans, NEW p \in Procs, ~Idle(p),
         Due(p).op \in {"claimRow", "execute"}
  PROVE  /\ p \in Runs /\ Due(p).com \in Commands
         /\ Due(p).op = "claimRow" => todo[p] = <<ClaimRow(Due(p).com)>>
         /\ Due(p).op = "execute" => todo[p] = <<Execute(Due(p).com)>>
<1>1. todo[p] \notin Seq(LaterCall)
  <2> SUFFICES ASSUME todo[p] \in Seq(LaterCall) PROVE FALSE
    OBVIOUS
  <2>1. Head(todo[p]) \in LaterCall
    BY HeadTailProperties DEF Idle
  <2> QED BY <2>1 DEF LaterCall, Due
<1>2. PICK c \in Commands : todo[p] \in Holding(c) /\ p \in Runs
  BY <1>1 DEF ClaimPlans
<1> QED BY <1>2, HoldingPlans DEF Holding, Due

\* A step after which one process plans no claim, and no command is back in the
\* queue.
LEMMA ClaimKept ==
  ASSUME ApprovalInv, ClaimInv, NEW p \in Procs, NEW plan \in Seq(LaterCall), Continue(p, plan),
         UNCHANGED <<executions, contended>>,
         \A c \in Commands :
           /\ command'[c].status = "absent" => command[c].status = "absent"
           /\ command'[c].status \in NotYetClaimed => command[c].status \in NotYetClaimed
  PROVE  ClaimInv'
<1>1. \A q \in Procs : todo'[q] = IF q = p THEN plan ELSE todo[q]
  BY DEF Continue, ApprovalInv, Plans
<1>2. ClaimPlans'
  BY <1>1 DEF ClaimInv, ClaimPlans
<1>3. \A c \in Commands : plan \notin Holding(c)
  BY HoldingPlans
<1>4. \A c \in Commands : plan # <<ClaimRow(c)>> /\ plan # <<Execute(c)>>
  BY <1>3 DEF Holding
<1>5. \A c \in Commands, q \in Procs :
        /\ todo'[q] \in Holding(c) => todo[q] \in Holding(c)
        /\ todo'[q] = <<ClaimRow(c)>> => todo[q] = <<ClaimRow(c)>>
        /\ todo'[q] = <<Execute(c)>> => todo[q] = <<Execute(c)>>
  BY <1>1, <1>3, <1>4
<1>6. ClaimsFirst'
  BY <1>5 DEF ClaimInv, ClaimsFirst, NotYetClaimed
<1>7. OneHolder'
  BY <1>5 DEF ClaimInv, OneHolder
<1> QED BY <1>2, <1>6, <1>7 DEF ClaimInv

LEMMA FindClaim ==
  ASSUME ApprovalInv, ClaimInv, NEW r \in Runs, FindCommand(r)
  PROVE  ClaimInv'
<1>1. PICK c \in Commands :
        /\ Claimable(c) /\ Idle(r) /\ Continue(r, <<ClaimRow(c)>>)
        /\ contended' = IF \E q \in Runs : At(q, "claimRow") /\ Due(q).com = c
                        THEN contended \cup {c} ELSE contended
        /\ UNCHANGED <<rows, executions>>
  BY DEF FindCommand, Begin
<1>2. \A q \in Procs : todo'[q] = IF q = r THEN <<ClaimRow(c)>> ELSE todo[q]
  BY <1>1 DEF Continue, ApprovalInv, Plans
<1>3. ClaimPlans'
  BY <1>2 DEF ClaimInv, ClaimPlans, Holding
<1>4. \A d \in Commands :
        /\ <<ClaimRow(c)>> = <<ClaimRow(d)>> => d = c
        /\ <<ClaimRow(c)>> # <<Execute(d)>>
  BY HoldingPlans
<1>5. command[c].status = "queued"
  BY <1>1 DEF Claimable
<1>6. ClaimsFirst'
  BY <1>1, <1>2, <1>4, <1>5 DEF ClaimInv, ClaimsFirst, NotYetClaimed, rows
<1>7. ASSUME c \notin contended'
      PROVE  executions[c] = 0 /\ \A q \in Procs : todo[q] \notin Holding(c)
  <2>1. executions[c] = 0
    BY <1>5 DEF ClaimInv, ClaimsFirst, NotYetClaimed, ApprovalInv, RowsTyped
  <2>2. ASSUME NEW q \in Procs, todo[q] = <<ClaimRow(c)>> PROVE FALSE
    <3>1. q \in Runs
      BY <2>2, HoldingPlans DEF ClaimInv, ClaimPlans, Holding
    <3>2. At(q, "claimRow") /\ Due(q).com = c
      BY <2>2, HoldingPlans DEF At, Idle, Due
    <3> QED BY <1>1, <1>7, <3>1, <3>2
  <2>3. \A q \in Procs : todo[q] # <<Execute(c)>>
    BY <1>5 DEF ClaimInv, ClaimsFirst, NotYetClaimed
  <2> QED BY <2>1, <2>2, <2>3 DEF Holding
<1>8. OneHolder'
  <2> SUFFICES ASSUME NEW d \in Commands, d \notin contended'
               PROVE  /\ executions'[d] <= 1
                      /\ \A p \in Procs :
                           todo'[p] \in Holding(d) =>
                             /\ executions'[d] = 0
                             /\ \A q \in Procs : todo'[q] \in Holding(d) => q = p
    BY DEF OneHolder, Holding
  <2>0. d \notin contended /\ executions' = executions
    BY <1>1
  <2>1. CASE d = c
    BY <1>2, <1>7, <2>0, <2>1
  <2>2. CASE d # c
    <3>1. \A q \in Procs : todo'[q] \in Holding(d) => todo[q] \in Holding(d)
      BY <1>2, <1>4, <2>2 DEF Holding
    <3> QED BY <2>0, <3>1 DEF ClaimInv, OneHolder
  <2> QED BY <2>1, <2>2
<1> QED BY <1>3, <1>6, <1>8 DEF ClaimInv

LEMMA ClaimRowClaim ==
  ASSUME ApprovalInv, ClaimInv, NEW r \in Procs, DoClaimRow(r)
  PROVE  ClaimInv'
<1> DEFINE c == Due(r).com
<1>1. r \in Runs /\ c \in Commands /\ todo[r] = <<ClaimRow(c)>>
  BY HolderPlan DEF ClaimInv, DoClaimRow, At
<1>2. \A q \in Procs : todo'[q] = IF q = r THEN <<Execute(c)>> ELSE todo[q]
  BY DEF DoClaimRow, Continue, ApprovalInv, Plans
<1>3. \A d \in Commands :
        command'[d].status = IF d = c THEN "claimed" ELSE command[d].status
  BY <1>1 DEF DoClaimRow, ApprovalInv, RowsTyped, Command
<1>4. UNCHANGED <<executions, contended>>
  BY DEF DoClaimRow, history
<1>5. \A d \in Commands :
        /\ <<Execute(c)>> = <<Execute(d)>> => d = c
        /\ <<Execute(c)>> # <<ClaimRow(d)>>
  BY <1>1, HoldingPlans
<1>6. ClaimPlans'
  BY <1>1, <1>2 DEF ClaimInv, ClaimPlans, Holding
<1>7. ClaimsFirst'
  BY <1>2, <1>3, <1>4, <1>5 DEF ClaimInv, ClaimsFirst, NotYetClaimed
<1>8. \A d \in Commands, q \in Procs : todo'[q] \in Holding(d) => todo[q] \in Holding(d)
  BY <1>1, <1>2, <1>5 DEF Holding
<1>9. OneHolder'
  BY <1>4, <1>8 DEF ClaimInv, OneHolder
<1> QED BY <1>6, <1>7, <1>9 DEF ClaimInv

LEMMA ExecuteClaim ==
  ASSUME ApprovalInv, ClaimInv, NEW r \in Procs, DoExecute(r)
  PROVE  ClaimInv'
<1> DEFINE c == Due(r).com
<1>1. c \in Commands /\ todo[r] = <<Execute(c)>>
  BY HolderPlan DEF ClaimInv, DoExecute, At
<1>2. PICK plan \in Seq(RunCall) : Continue(r, plan)
  BY RunPlan
<1>3. plan \in Seq(LaterCall)
  <2>1. RunCall \subseteq LaterCall
    BY DEF RunCall, LaterCall
  <2> QED BY <2>1, SeqGrows
<1>4. \A q \in Procs : todo'[q] = IF q = r THEN plan ELSE todo[q]
  BY <1>2 DEF Continue, ApprovalInv, Plans
<1>5. /\ UNCHANGED <<command, contended>>
      /\ \A d \in Commands : d # c => executions'[d] = executions[d]
      /\ executions'[c] = IF executions[c] < 2 THEN executions[c] + 1 ELSE executions[c]
  BY <1>1 DEF DoExecute, rows, ApprovalInv, RowsTyped
<1>6. \A d \in Commands : plan \notin Holding(d) /\ plan # <<ClaimRow(d)>> /\ plan # <<Execute(d)>>
  BY <1>3, HoldingPlans DEF Holding
<1>7. ClaimPlans'
  BY <1>3, <1>4 DEF ClaimInv, ClaimPlans
<1>8. command[c].status \notin NotYetClaimed
  BY <1>1 DEF ClaimInv, ClaimsFirst
<1>9. ClaimsFirst'
  BY <1>4, <1>5, <1>6, <1>8 DEF ClaimInv, ClaimsFirst
<1>10. OneHolder'
  <2> SUFFICES ASSUME NEW d \in Commands, d \notin contended
               PROVE  /\ executions'[d] <= 1
                      /\ \A p \in Procs :
                           todo'[p] \in Holding(d) =>
                             /\ executions'[d] = 0
                             /\ \A q \in Procs : todo'[q] \in Holding(d) => q = p
    BY <1>5 DEF OneHolder, Holding
  <2>1. CASE d # c
    BY <1>4, <1>5, <1>6, <2>1 DEF ClaimInv, OneHolder
  <2>2. CASE d = c
    <3>1. todo[r] \in Holding(c)
      BY <1>1 DEF Holding
    <3>2. executions[c] = 0 /\ \A q \in Procs : todo[q] \in Holding(c) => q = r
      BY <2>2, <3>1 DEF ClaimInv, OneHolder
    <3>3. executions'[c] <= 1
      BY <1>5, <3>2
    <3>4. \A q \in Procs : todo'[q] \notin Holding(c)
      BY <1>1, <1>4, <1>6, <3>2
    <3> QED BY <2>2, <3>3, <3>4
  <2> QED BY <2>1, <2>2
<1> QED BY <1>7, <1>9, <1>10 DEF ClaimInv

\* What people request plans no claim.
LEMMA PeopleLater ==
  ASSUME ApprovalInv, NEW p \in Users, PeopleStep(p)
  PROVE  \E plan \in Seq(LaterCall) : Continue(p, plan)
<1> DEFINE R == LaterCall
<1>1. ASSUME NEW i \in Invocations, Invoke(p, i)
      PROVE  \E plan \in Seq(R) : Continue(p, plan)
  <2>1. /\ \A s \in {"queued", "approval_required", "policy_denied"}, b \in BOOLEAN :
             SaveInvocation(i, s, NoCommand, b) \in R
        /\ CreateApproval(i) \in R /\ CreateCommand(i, FALSE) \in R
    BY DEF LaterCall, Task, Call, Step, SaveInvocation, CreateApproval, CreateCommand, Owners
  <2> HIDE DEF R
  <2>2. /\ <<SaveInvocation(i, "queued", NoCommand, FALSE), CreateCommand(i, FALSE)>> \in Seq(R)
        /\ <<SaveInvocation(i, "approval_required", NoCommand, FALSE), CreateApproval(i),
             SaveInvocation(i, "approval_required", NoCommand, TRUE)>> \in Seq(R)
        /\ <<SaveInvocation(i, "policy_denied", NoCommand, FALSE)>> \in Seq(R)
    BY <2>1, ShortPlans
  <2>3. Risk[i] \in Risks
    BY ToolAssumption
  <2> QED BY <1>1, <2>2, <2>3 DEF Invoke, Begin, Risks
<1>2. ASSUME NEW i \in Invocations, NEW v \in {"approved", "denied"}, Decide(p, i, v)
      PROVE  \E plan \in Seq(R) : Continue(p, plan)
  <2>1. /\ \A s \in {"approved", "denied", "expired"} : SaveApproval(i, s) \in R
        /\ Dispatch(i) \in R
    BY DEF LaterCall, Task, Call, Step, SaveApproval, Dispatch
  <2> HIDE DEF R
  <2>2. /\ <<SaveApproval(i, "expired")>> \in Seq(R)
        /\ <<SaveApproval(i, "denied")>> \in Seq(R)
        /\ <<SaveApproval(i, "approved"), Dispatch(i)>> \in Seq(R)
    BY <2>1, ShortPlans
  <2> QED BY <1>2, <2>2 DEF Decide, Begin
<1>3. ASSUME NEW d \in Diagnostics, RequestCommand(p, d)
      PROVE  \E plan \in Seq(R) : Continue(p, plan)
  <2>1. CreateCommand(d, FALSE) \in R
    BY DEF LaterCall, Task, Call, Step, CreateCommand, Owners
  <2>2. <<CreateCommand(d, FALSE)>> \in Seq(R)
    BY <2>1, ShortPlans
  <2> QED BY <1>3, <2>2 DEF RequestCommand, Begin
<1> QED BY <1>1, <1>2, <1>3 DEF PeopleStep

\* The calls after a command was created, for its owner o.
LEMMA LinkCalls ==
  ASSUME NEW o \in Owners, NEW c \in Commands, NEW used \in BOOLEAN, NEW S,
         \A i \in Invocations : i = o => /\ SaveInvocation(i, "queued", c, used) \in S
                                         /\ used => SaveApproval(i, "consumed") \in S
  PROVE  LinkAndConsume(o, c, used) \in Seq(S)
<1>1. CASE o \in Diagnostics
  BY <1>1, ShortPlans DEF LinkAndConsume
<1>2. CASE o \notin Diagnostics
  <2>1. o \in Invocations
    BY <1>2 DEF Owners
  <2>2. /\ <<SaveInvocation(o, "queued", c, used)>> \in Seq(S)
        /\ used => <<SaveApproval(o, "consumed")>> \in Seq(S)
        /\ <<>> \in Seq(S)
    BY <2>1, ShortPlans
  <2>3. \A s, t \in Seq(S) : s \o t \in Seq(S)
    BY ConcatProperties
  <2> QED BY <1>2, <2>2, <2>3 DEF LinkAndConsume
<1> QED BY <1>1, <1>2

LEMMA DispatchLater ==
  ASSUME ApprovalInv, NEW p \in Procs, DoDispatch(p) \/ DoCreateCommand(p)
  PROVE  \E plan \in Seq(LaterCall) : Continue(p, plan)
<1>1. <<>> \in Seq(LaterCall)
  BY ShortPlans
<1>2. CASE DoDispatch(p)
  <2>1. Due(p).own \in Invocations
    BY <1>2, NextCall, TaskFields DEF ApprovalInv, DoDispatch, At
  <2>2. CreateCommand(Due(p).own, TRUE) \in LaterCall
    BY <2>1 DEF LaterCall, Task, Call, Step, CreateCommand, Owners
  <2>3. <<CreateCommand(Due(p).own, TRUE)>> \in Seq(LaterCall)
    BY <2>2, ShortPlans
  <2> QED BY <1>1, <1>2, <2>3 DEF DoDispatch
<1>3. CASE DoCreateCommand(p)
  <2>1. Due(p).own \in Owners /\ Due(p).flag \in BOOLEAN
    BY <1>3, NextCall, TaskFields DEF ApprovalInv, DoCreateCommand, At
  <2>2. \A i \in Invocations, c \in Commands, b \in BOOLEAN :
          SaveInvocation(i, "queued", c, b) \in LaterCall /\ SaveApproval(i, "consumed") \in LaterCall
    BY DEF LaterCall, Task, Call, Step, SaveInvocation, SaveApproval
  <2>3. \A c \in Commands : LinkAndConsume(Due(p).own, c, Due(p).flag) \in Seq(LaterCall)
    BY <2>1, <2>2, LinkCalls
  <2> QED BY <1>1, <1>3, <2>3 DEF DoCreateCommand
<1> QED BY <1>2, <1>3

\* Every other step leaves executions alone and puts no command back.
LEMMA RequestClaim ==
  ASSUME ApprovalInv, ClaimInv, NEW p \in Procs, RequestStep(p), ~DoClaimRow(p), ~DoExecute(p)
  PROVE  ClaimInv'
<1>1. ~Idle(p) /\ Due(p).op \notin {"claimRow", "execute"}
  BY DEF RequestStep, DoSaveInvocation, DoCreateApproval, DoSaveApproval, DoDispatch,
     DoCreateCommand, DoSubmit, DoSaveResult, DoSaveCommand, DoNotify, DoReply, At
<1>2. todo[p] \in Seq(LaterCall)
  BY <1>1, LaterPlan DEF ClaimInv
<1>3. RunCall \subseteq LaterCall
  BY DEF RunCall, LaterCall
<1>4. PICK plan \in Seq(LaterCall) : Continue(p, plan)
  <2>1. CASE DoDispatch(p) \/ DoCreateCommand(p)
    BY <2>1, DispatchLater
  <2>2. CASE \/ DoSaveInvocation(p) \/ DoCreateApproval(p) \/ DoSaveApproval(p)
             \/ DoSaveResult(p) \/ DoSaveCommand(p) \/ DoNotify(p)
    BY <1>2, <1>3, <2>2, RestOfPlan
  <2>3. CASE DoSubmit(p) \/ DoReply(p)
    BY <1>3, <2>3, RunPlan, SeqGrows
  <2> QED BY <2>1, <2>2, <2>3 DEF RequestStep
<1>5. UNCHANGED <<executions, contended>>
  BY DEF RequestStep, DoSaveInvocation, DoCreateApproval, DoSaveApproval, DoDispatch,
     DoCreateCommand, DoSubmit, DoSaveResult, DoSaveCommand, DoNotify, DoReply, history
<1>6. \A c \in Commands :
        /\ command'[c].status = "absent" => command[c].status = "absent"
        /\ command'[c].status \in NotYetClaimed => command[c].status \in NotYetClaimed
  <2>1. CASE UNCHANGED command
    BY <2>1
  <2>2. ASSUME NEW d \in Commands, command[d].status = "absent",
               command' = [command EXCEPT ![d] = [status |-> "queued", owner |-> Due(p).own,
                                                  overdue |-> FALSE, recent |-> TRUE]]
        PROVE  \A c \in Commands :
                 /\ command'[c].status = "absent" => command[c].status = "absent"
                 /\ command'[c].status \in NotYetClaimed => command[c].status \in NotYetClaimed
    BY <2>2 DEF ApprovalInv, RowsTyped, NotYetClaimed
  <2>3. CASE DoSaveCommand(p)
    <3>1. Due(p).com \in Commands /\ Due(p).val \in Outcomes \cup {"expired"}
      BY <2>3, NextCall, TaskFields DEF ApprovalInv, DoSaveCommand, At
    <3>2. \A c \in Commands :
            command'[c].status = IF c = Due(p).com THEN Due(p).val ELSE command[c].status
      BY <2>3, <3>1 DEF DoSaveCommand, ApprovalInv, RowsTyped, Command
    <3> QED BY <3>1, <3>2 DEF NotYetClaimed
  <2> QED BY <2>1, <2>2, <2>3 DEF RequestStep, DoSaveInvocation, DoCreateApproval,
     DoSaveApproval, DoDispatch, DoCreateCommand, DoSubmit, DoSaveResult, DoNotify, DoReply, rows
<1> QED BY <1>4, <1>5, <1>6, ClaimKept

LEMMA ClaimStep == ASSUME ApprovalInv, ClaimInv, [Next]_vars PROVE ClaimInv'
<1>1. ASSUME NEW p \in Users, PeopleStep(p) PROVE ClaimInv'
  <2>1. UNCHANGED <<command, executions, contended>>
    BY <1>1 DEF PeopleStep, Invoke, Decide, RequestCommand, rows, history
  <2> QED BY <1>1, <2>1, PeopleLater, ClaimKept
<1>2. ASSUME NEW i \in Invocations, CreateDraft(i) \/ ApprovalExpires(i) PROVE ClaimInv'
  BY <1>2 DEF CreateDraft, ApprovalExpires, history, ClaimInv, ClaimPlans, ClaimsFirst, OneHolder
<1>3. ASSUME NEW p \in Procs, ReplyLost(p) \/ Dies(p) \/ HandlerDies(p) PROVE ClaimInv'
  <2>1. UNCHANGED <<command, executions, contended>>
    BY <1>3 DEF ReplyLost, Dies, HandlerDies, rows, history
  <2>2. RunCall \subseteq LaterCall
    BY DEF RunCall, LaterCall
  <2>3. \E plan \in Seq(LaterCall) : Continue(p, plan)
    BY <1>3, <2>2, RunPlan, SeqGrows
  <2> QED BY <2>1, <2>3, ClaimKept
<1>4. ASSUME NEW r \in Runs, FindCommand(r) PROVE ClaimInv'
  BY <1>4, FindClaim
<1>5. ASSUME NEW p \in Procs, RequestStep(p) PROVE ClaimInv'
  BY <1>5, ClaimRowClaim, ExecuteClaim, RequestClaim
<1>6. CASE (\E c \in Commands : CommandExpires(c)) \/ MinutePasses
  <2>1. UNCHANGED <<todo, executions, contended>>
    BY <1>6 DEF CommandExpires, MinutePasses, history
  <2>2. \A c \in Commands : command'[c].status = command[c].status
    BY <1>6, TimeKeepsRows
  <2> QED BY <2>1, <2>2 DEF ClaimInv, ClaimPlans, ClaimsFirst, OneHolder
<1>7. CASE UNCHANGED vars
  BY <1>7 DEF vars, ClaimInv, ClaimPlans, ClaimsFirst, OneHolder
<1> QED BY <1>1, <1>2, <1>3, <1>4, <1>5, <1>6, <1>7 DEF Next

\* Unless two runs found it at the same moment, the agent executes a command at
\* most once, whoever dies and whatever answer is lost: a claim is never given
\* back, and a settled or expired command is never found again.
THEOREM ExecutionsBounded == Spec => []ExecutedAtMostOnce
<1>1. Init => ApprovalInv /\ ClaimInv
  BY ApprovalInvInit, ClaimInvInit
<1>2. (ApprovalInv /\ ClaimInv) /\ [Next]_vars => (ApprovalInv /\ ClaimInv)'
  BY NextKeeps, ClaimStep
<1>3. ApprovalInv /\ ClaimInv => ExecutedAtMostOnce
  BY DEF ClaimInv, OneHolder, ExecutedAtMostOnce
<1> QED BY <1>1, <1>2, <1>3, PTL DEF Spec

-----------------------------------------------------------------------------
(* Commands of an invocation: one maker at a time *)

\* The plans that are going to ask for, or to create, a command of i.
Fresh(i) ==
  {<<SaveInvocation(i, "queued", NoCommand, FALSE), CreateCommand(i, FALSE)>>,
   <<SaveInvocation(i, "approval_required", NoCommand, FALSE), CreateApproval(i),
     SaveInvocation(i, "approval_required", NoCommand, TRUE)>>}

Asking(i) == {<<CreateApproval(i), SaveInvocation(i, "approval_required", NoCommand, TRUE)>>}

Approving(i) == {<<SaveApproval(i, "approved"), Dispatch(i)>>}

Making(i) == {<<Dispatch(i)>>, <<CreateCommand(i, TRUE)>>, <<CreateCommand(i, FALSE)>>}

Decided(i) == Approving(i) \cup {<<Dispatch(i)>>, <<CreateCommand(i, TRUE)>>}

Held(i) == Fresh(i) \cup Asking(i) \cup Approving(i) \cup Making(i)

\* The calls that lead to no command of i.
QuietCall(i) ==
  {t \in Task :
     t.own = i => \/ t.op = "saveInvocation"
                  \/ t.op = "saveApproval" /\ approval[i].status # "absent"}

Owned(i) == {c \in Commands : command[c].owner = i}

\* What holds of an invocation that no two people decided on at once: at most
\* one request may still lead to a command of it, and none once there is one.
OneMaker(i) ==
  /\ \A p \in Procs : todo[p] \in Seq(QuietCall(i)) \cup Held(i)
  /\ \A p \in Procs : todo[p] \in Held(i) =>
       /\ p \in Users /\ Owned(i) = {}
       /\ \A q \in Procs : todo[q] \in Held(i) => q = p
  /\ \A p \in Procs :
       /\ todo[p] \in Fresh(i) \cup Asking(i) => approval[i].status = "absent"
       /\ todo[p] \in Decided(i) => approval[i].status # "absent"
       /\ todo[p] \in Making(i) => approval[i].status # "requested"
  /\ Owned(i) # {} => approval[i].status # "requested"
  /\ \A c, d \in Owned(i) : c = d
  /\ invocation[i].status = "absent" =>
       /\ approval[i].status = "absent" /\ Owned(i) = {}
       /\ \A p \in Procs : todo[p] \in Held(i) => todo[p] \in Fresh(i)

MakerInv == \A i \in Invocations \ raced : OneMaker(i)

LEMMA MakerInvInit == ASSUME Init PROVE MakerInv
<1> SUFFICES ASSUME NEW i \in Invocations PROVE OneMaker(i)
  BY DEF MakerInv
<1>1. /\ \A p \in Procs : todo[p] = <<>>
      /\ approval[i].status = "absent"
  BY DEF Init
<1>2. \A c \in Commands : command[c].owner # i
  BY ToolAssumption DEF Init, Owners
<1>3. Owned(i) = {}
  BY <1>2 DEF Owned
<1>4. <<>> \in Seq(QuietCall(i)) /\ <<>> \notin Held(i)
  BY ShortPlans DEF Held, Fresh, Asking, Approving, Making
<1>5. \A p \in Procs : todo[p] \notin Fresh(i) \cup Asking(i) /\ todo[p] \notin Decided(i)
                       /\ todo[p] \notin Making(i) /\ todo[p] \notin Held(i)
  BY <1>1, <1>4 DEF Held, Decided, Making
<1> QED BY <1>1, <1>3, <1>4, <1>5 DEF OneMaker

LEMMA Tuples ==
  /\ \A x : <<x>> # <<>> /\ Head(<<x>>) = x /\ Tail(<<x>>) = <<>>
  /\ \A x, y : <<x, y>> # <<>> /\ Head(<<x, y>>) = x /\ Tail(<<x, y>>) = <<y>>
  /\ \A x, y, z : <<x, y, z>> # <<>> /\ Head(<<x, y, z>>) = x /\ Tail(<<x, y, z>>) = <<y, z>>
<1>1. \A x : <<x>> # <<>> /\ Head(<<x>>) = x /\ Tail(<<x>>) = <<>>
  OBVIOUS
<1>2. \A x, y : <<x, y>> # <<>> /\ Head(<<x, y>>) = x /\ Tail(<<x, y>>) = <<y>>
  OBVIOUS
<1>3. \A x, y, z : <<x, y, z>> # <<>> /\ Head(<<x, y, z>>) = x /\ Tail(<<x, y, z>>) = <<y, z>>
  OBVIOUS
<1> QED BY <1>1, <1>2, <1>3

\* The plans held for an invocation, apart from each other and from quiet ones.
LEMMA HeldPlans ==
  ASSUME NEW i \in Invocations
  PROVE  /\ \A s \in Held(i) : s # <<>> /\ Head(s).own = i
         /\ \A s \in Fresh(i) : /\ Head(s).op = "saveInvocation"
                                /\ Tail(s) \in Asking(i) \cup {<<CreateCommand(i, FALSE)>>}
         /\ \A s \in Asking(i) :
              /\ Head(s).op = "createApproval"
              /\ Tail(s) = <<SaveInvocation(i, "approval_required", NoCommand, TRUE)>>
         /\ \A s \in Approving(i) : /\ Head(s).op = "saveApproval" /\ Head(s).val = "approved"
                                    /\ Tail(s) = <<Dispatch(i)>>
         /\ Head(<<Dispatch(i)>>).op = "dispatch"
         /\ \A b \in BOOLEAN : /\ Head(<<CreateCommand(i, b)>>).op = "createCommand"
                               /\ Head(<<CreateCommand(i, b)>>).flag = b
<1>0. /\ \A v, c, b : /\ SaveInvocation(i, v, c, b).op = "saveInvocation"
                      /\ SaveInvocation(i, v, c, b).own = i
      /\ CreateApproval(i).op = "createApproval" /\ CreateApproval(i).own = i
      /\ SaveApproval(i, "approved").op = "saveApproval" /\ SaveApproval(i, "approved").own = i
      /\ SaveApproval(i, "approved").val = "approved"
  BY DEF SaveInvocation, CreateApproval, SaveApproval, Step
<1>1. \A s \in Fresh(i) : /\ s # <<>> /\ Head(s).op = "saveInvocation" /\ Head(s).own = i
                          /\ Tail(s) \in Asking(i) \cup {<<CreateCommand(i, FALSE)>>}
  <2> DEFINE S1 == SaveInvocation(i, "queued", NoCommand, FALSE)
             S2 == SaveInvocation(i, "approval_required", NoCommand, FALSE)
             S3 == SaveInvocation(i, "approval_required", NoCommand, TRUE)
  <2>1. /\ S1.op = "saveInvocation" /\ S1.own = i
        /\ S2.op = "saveInvocation" /\ S2.own = i
    BY <1>0
  <2>2. \A s \in Fresh(i) : s \in {<<S1, CreateCommand(i, FALSE)>>, <<S2, CreateApproval(i), S3>>}
    BY DEF Fresh
  <2>3. <<CreateApproval(i), S3>> \in Asking(i)
    BY DEF Asking
  <2>4. /\ <<S1, CreateCommand(i, FALSE)>> # <<>>
        /\ Head(<<S1, CreateCommand(i, FALSE)>>) = S1
        /\ Tail(<<S1, CreateCommand(i, FALSE)>>) = <<CreateCommand(i, FALSE)>>
    BY Tuples
  <2>5. /\ <<S2, CreateApproval(i), S3>> # <<>>
        /\ Head(<<S2, CreateApproval(i), S3>>) = S2
        /\ Tail(<<S2, CreateApproval(i), S3>>) = <<CreateApproval(i), S3>>
    <3>1. PICK x, y, z : x = S2 /\ y = CreateApproval(i) /\ z = S3
      OBVIOUS
    <3>2. <<x, y, z>> # <<>> /\ Head(<<x, y, z>>) = x /\ Tail(<<x, y, z>>) = <<y, z>>
      OBVIOUS
    <3> HIDE DEF S2, S3
    <3> QED BY <3>1, <3>2
  <2> HIDE DEF S1, S2, S3
  <2> QED BY <2>1, <2>2, <2>3, <2>4, <2>5
<1>2. \A s \in Asking(i) :
        /\ s # <<>> /\ Head(s).op = "createApproval" /\ Head(s).own = i
        /\ Tail(s) = <<SaveInvocation(i, "approval_required", NoCommand, TRUE)>>
  BY <1>0, Tuples DEF Asking
<1>3. \A s \in Approving(i) :
        /\ s # <<>> /\ Head(s).op = "saveApproval" /\ Head(s).val = "approved" /\ Head(s).own = i
        /\ Tail(s) = <<Dispatch(i)>>
  BY <1>0, Tuples DEF Approving
<1>4. <<Dispatch(i)>> # <<>> /\ Head(<<Dispatch(i)>>).op = "dispatch" /\ Head(<<Dispatch(i)>>).own = i
  BY DEF Dispatch, Step
<1>5. \A b \in BOOLEAN : /\ <<CreateCommand(i, b)>> # <<>>
                         /\ Head(<<CreateCommand(i, b)>>).op = "createCommand"
                         /\ Head(<<CreateCommand(i, b)>>).own = i
                         /\ Head(<<CreateCommand(i, b)>>).flag = b
  BY DEF CreateCommand, Step
<1>6. \A s \in Making(i) : s # <<>> /\ Head(s).own = i
  BY <1>4, <1>5 DEF Making
<1> QED BY <1>1, <1>2, <1>3, <1>4, <1>5, <1>6 DEF Held

LEMMA HeldDue ==
  ASSUME NEW i \in Invocations, NEW q \in Procs, todo[q] \in Held(i)
  PROVE  ~Idle(q) /\ Due(q).own = i
<1>1. PICK s : s = todo[q]
  OBVIOUS
<1>2. s # <<>> /\ Head(s).own = i
  <2>1. s \in Held(i)
    BY <1>1
  <2> QED BY <2>1, HeldPlans
<1> QED BY <1>1, <1>2 DEF Idle, Due

\* The kinds of plans that are held differ, by the call that is due.
LEMMA HeldKinds ==
  ASSUME NEW i \in Invocations
  PROVE  /\ \A s \in Fresh(i) : s \notin Asking(i) \cup Decided(i) \cup Making(i)
         /\ \A s \in Asking(i) : s \notin Fresh(i) \cup Decided(i) \cup Making(i)
         /\ \A s \in Approving(i) : s \notin Fresh(i) \cup Asking(i) \cup Making(i)
         /\ \A s \in Making(i) : s \notin Fresh(i) \cup Asking(i) \cup Approving(i)
         /\ <<CreateCommand(i, FALSE)>> \notin Decided(i)
<1> DEFINE K(s) == Head(s).op
<1>1. /\ \A s \in Fresh(i) : K(s) = "saveInvocation"
      /\ \A s \in Asking(i) : K(s) = "createApproval"
      /\ \A s \in Approving(i) : K(s) = "saveApproval"
      /\ K(<<Dispatch(i)>>) = "dispatch"
      /\ \A b \in BOOLEAN : K(<<CreateCommand(i, b)>>) = "createCommand"
  BY HeldPlans
<1>2. <<CreateCommand(i, FALSE)>> # <<CreateCommand(i, TRUE)>>
  BY HeldPlans
<1> HIDE DEF K
<1>3. \A s \in Making(i) : K(s) \in {"dispatch", "createCommand"}
  BY <1>1 DEF Making
<1>4. \A s \in Decided(i) : K(s) \in {"saveApproval", "dispatch", "createCommand"}
  BY <1>1 DEF Decided
<1>5. <<CreateCommand(i, FALSE)>> \notin Approving(i)
      /\ <<CreateCommand(i, FALSE)>> # <<Dispatch(i)>>
  BY <1>1
<1>6. <<CreateCommand(i, FALSE)>> \notin Decided(i)
  BY <1>2, <1>5 DEF Decided
<1> QED BY <1>1, <1>3, <1>4, <1>6

\* No plan of quiet calls is held.
LEMMA QuietNotHeld ==
  ASSUME NEW i \in Invocations, NEW s \in Seq(QuietCall(i))
  PROVE  s \notin Held(i)
<1>0. \A k \in 1 .. Len(s) : s[k] \in QuietCall(i)
  OBVIOUS
<1>1. /\ CreateCommand(i, TRUE) \notin QuietCall(i)
      /\ CreateCommand(i, FALSE) \notin QuietCall(i)
      /\ CreateApproval(i) \notin QuietCall(i)
      /\ Dispatch(i) \notin QuietCall(i)
  BY DEF QuietCall, CreateCommand, CreateApproval, Dispatch, Step
<1>2. \A x, y : s = <<x, y>> => x \in QuietCall(i) /\ y \in QuietCall(i)
  <2> SUFFICES ASSUME NEW x, NEW y, s = <<x, y>> PROVE x \in QuietCall(i) /\ y \in QuietCall(i)
    OBVIOUS
  <2>1. Len(s) = 2 /\ s[1] = x /\ s[2] = y
    OBVIOUS
  <2> QED BY <1>0, <2>1
<1>3. \A x, y, z : s = <<x, y, z>> => y \in QuietCall(i)
  <2> SUFFICES ASSUME NEW x, NEW y, NEW z, s = <<x, y, z>> PROVE y \in QuietCall(i)
    OBVIOUS
  <2>1. Len(s) = 3 /\ s[2] = y
    OBVIOUS
  <2> QED BY <1>0, <2>1
<1>4. \A x : s = <<x>> => x \in QuietCall(i)
  <2> SUFFICES ASSUME NEW x, s = <<x>> PROVE x \in QuietCall(i)
    OBVIOUS
  <2>1. Len(s) = 1 /\ s[1] = x
    OBVIOUS
  <2> QED BY <1>0, <2>1
<1> QED BY <1>1, <1>2, <1>3, <1>4 DEF Held, Fresh, Asking, Approving, Making

\* A quiet call stays quiet, as no approval is withdrawn.
LEMMA QuietGrows ==
  ASSUME NEW i \in Invocations, approval'[i].status = "absent" => approval[i].status = "absent"
  PROVE  \A s \in Seq(QuietCall(i)) : s \in Seq(QuietCall(i)')
<1>1. QuietCall(i) \subseteq QuietCall(i)'
  BY DEF QuietCall
<1> QED BY <1>1, SeqGrows

\* One process goes on; the rows of i do not go back.
LEMMA MakerMoves ==
  ASSUME ApprovalInv, NEW i \in Invocations, OneMaker(i), NEW p \in Procs, NEW plan,
         Continue(p, plan),
         Owned(i)' = Owned(i),
         \/ approval'[i].status = approval[i].status
         \/ approval[i].status # "absent" /\ approval'[i].status \notin {"absent", "requested"},
         invocation'[i].status = "absent" =>
           /\ invocation[i].status = "absent"
           /\ approval'[i].status = approval[i].status
           /\ plan \in Held(i) => plan \in Fresh(i),
         plan \in Seq(QuietCall(i)) \cup Held(i),
         plan \in Held(i) =>
           p \in Users /\ Owned(i) = {} /\ \A q \in Procs : todo[q] \in Held(i) => q = p,
         plan \in Fresh(i) \cup Asking(i) => approval'[i].status = "absent",
         plan \in Decided(i) => approval'[i].status # "absent",
         plan \in Making(i) => approval'[i].status # "requested"
  PROVE  OneMaker(i)'
<1>1. \A q \in Procs : todo'[q] = IF q = p THEN plan ELSE todo[q]
  BY DEF Continue, ApprovalInv, Plans
<1>2. \A s \in Seq(QuietCall(i)) : s \in Seq(QuietCall(i)')
  BY QuietGrows
<1>3. \A q \in Procs : todo'[q] \in Seq(QuietCall(i)') \cup Held(i)
  BY <1>1, <1>2 DEF OneMaker
<1>4. \A q \in Procs : todo'[q] \in Held(i) =>
        /\ q \in Users /\ Owned(i) = {}
        /\ \A r \in Procs : todo'[r] \in Held(i) => r = q
  BY <1>1 DEF OneMaker
<1>5. \A q \in Procs :
        /\ todo'[q] \in Fresh(i) \cup Asking(i) => approval'[i].status = "absent"
        /\ todo'[q] \in Decided(i) => approval'[i].status # "absent"
        /\ todo'[q] \in Making(i) => approval'[i].status # "requested"
  <2> SUFFICES ASSUME NEW q \in Procs, q # p
               PROVE  /\ todo[q] \in Fresh(i) \cup Asking(i) => approval'[i].status = "absent"
                      /\ todo[q] \in Decided(i) => approval'[i].status # "absent"
                      /\ todo[q] \in Making(i) => approval'[i].status # "requested"
    BY <1>1
  <2>1. /\ todo[q] \in Fresh(i) \cup Asking(i) => approval[i].status = "absent"
        /\ todo[q] \in Decided(i) => approval[i].status # "absent"
        /\ todo[q] \in Making(i) => approval[i].status # "requested"
    BY DEF OneMaker
  <2> QED BY <2>1
<1>6. Owned(i) # {} => approval'[i].status # "requested"
  BY DEF OneMaker
<1>7. \A c, d \in Owned(i) : c = d
  BY DEF OneMaker
<1>8. invocation'[i].status = "absent" =>
        /\ approval'[i].status = "absent" /\ Owned(i) = {}
        /\ \A q \in Procs : todo'[q] \in Held(i) => todo'[q] \in Fresh(i)
  BY <1>1 DEF OneMaker
<1>9. Held(i)' = Held(i) /\ Fresh(i)' = Fresh(i) /\ Asking(i)' = Asking(i)
      /\ Decided(i)' = Decided(i) /\ Making(i)' = Making(i)
  BY DEF Held, Fresh, Asking, Decided, Approving, Making
<1> QED BY <1>3, <1>4, <1>5, <1>6, <1>7, <1>8, <1>9 DEF OneMaker

\* A quiet plan is one of them.
LEMMA MakerQuiet ==
  ASSUME ApprovalInv, NEW i \in Invocations, OneMaker(i), NEW p \in Procs,
         NEW plan \in Seq(QuietCall(i)), Continue(p, plan),
         Owned(i)' = Owned(i),
         \/ approval'[i].status = approval[i].status
         \/ approval[i].status # "absent" /\ approval'[i].status \notin {"absent", "requested"},
         invocation'[i].status = "absent" =>
           invocation[i].status = "absent" /\ approval'[i].status = approval[i].status
  PROVE  OneMaker(i)'
<1>1. plan \notin Held(i)
  BY QuietNotHeld
<1>2. plan \notin Fresh(i) \cup Asking(i) /\ plan \notin Decided(i) /\ plan \notin Making(i)
  BY <1>1 DEF Held, Decided, Making
<1> QED BY <1>1, <1>2, MakerMoves

LEMMA MakerStays ==
  ASSUME NEW i \in Invocations, OneMaker(i), todo' = todo, Owned(i)' = Owned(i),
         approval'[i].status = approval[i].status, invocation'[i].status = invocation[i].status
  PROVE  OneMaker(i)'
<1>1. \A s \in Seq(QuietCall(i)) : s \in Seq(QuietCall(i)')
  BY QuietGrows
<1>2. Held(i)' = Held(i) /\ Fresh(i)' = Fresh(i) /\ Asking(i)' = Asking(i)
      /\ Decided(i)' = Decided(i) /\ Making(i)' = Making(i)
  BY DEF Held, Fresh, Asking, Decided, Approving, Making
<1> QED BY <1>1, <1>2 DEF OneMaker

-----------------------------------------------------------------------------
(* Commands of an invocation: the steps *)

\* The calls of runs, and those about another owner, are quiet.
LEMMA QuietMembers ==
  ASSUME NEW i \in Invocations
  PROVE  /\ RunCall \subseteq QuietCall(i)
         /\ \A c \in Commands : ClaimRow(c) \in QuietCall(i) /\ Execute(c) \in QuietCall(i)
         /\ \A s \in {"queued", "approval_required", "policy_denied"}, b \in BOOLEAN,
               c \in Commands \cup {NoCommand} :
              SaveInvocation(i, s, c, b) \in QuietCall(i)
         /\ \A j \in Invocations : j # i =>
              /\ \A s \in {"queued", "approval_required", "policy_denied"}, b \in BOOLEAN,
                    c \in Commands \cup {NoCommand} :
                   SaveInvocation(j, s, c, b) \in QuietCall(i)
              /\ CreateApproval(j) \in QuietCall(i)
              /\ \A s \in {"approved", "denied", "expired", "consumed"} :
                   SaveApproval(j, s) \in QuietCall(i)
              /\ Dispatch(j) \in QuietCall(i)
         /\ \A o \in Owners, b \in BOOLEAN : o # i => CreateCommand(o, b) \in QuietCall(i)
         /\ approval[i].status # "absent" =>
              \A s \in {"denied", "expired", "consumed"} : SaveApproval(i, s) \in QuietCall(i)
<1>0. i # NoCommand
  BY ToolAssumption DEF Owners
<1>1. RunCall \subseteq QuietCall(i)
  <2> SUFFICES ASSUME NEW t \in RunCall PROVE t \in QuietCall(i)
    OBVIOUS
  <2>1. t \in Task /\ (t.op = "saveInvocation" \/ t.own = NoCommand)
    BY DEF RunCall, Task, Call
  <2> QED BY <1>0, <2>1 DEF QuietCall
<1>2. \A c \in Commands : ClaimRow(c) \in QuietCall(i) /\ Execute(c) \in QuietCall(i)
  BY <1>0 DEF QuietCall, ClaimRow, Execute, Step, Task, Call
<1>3. \A j \in Invocations :
        \A s \in {"queued", "approval_required", "policy_denied"}, b \in BOOLEAN,
           c \in Commands \cup {NoCommand} :
          SaveInvocation(j, s, c, b) \in QuietCall(i)
  BY DEF QuietCall, SaveInvocation, Step, Task, Call
<1>4. ASSUME NEW j \in Invocations, j # i
      PROVE  /\ CreateApproval(j) \in QuietCall(i)
             /\ \A s \in {"approved", "denied", "expired", "consumed"} :
                  SaveApproval(j, s) \in QuietCall(i)
             /\ Dispatch(j) \in QuietCall(i)
  BY <1>4 DEF QuietCall, CreateApproval, SaveApproval, Dispatch, Step, Task, Call
<1>5. \A o \in Owners, b \in BOOLEAN : o # i => CreateCommand(o, b) \in QuietCall(i)
  BY DEF QuietCall, CreateCommand, Step, Task, Call
<1>6. approval[i].status # "absent" =>
        \A s \in {"denied", "expired", "consumed"} : SaveApproval(i, s) \in QuietCall(i)
  BY DEF QuietCall, SaveApproval, Step, Task, Call
<1> QED BY <1>1, <1>2, <1>3, <1>4, <1>5, <1>6

\* A request about something else leaves an invocation alone.
LEMMA MakerElsewhere ==
  ASSUME ApprovalInv, NEW i \in Invocations, OneMaker(i), NEW p \in Procs,
         NEW plan \in Seq(QuietCall(i)), Continue(p, plan), UNCHANGED rows
  PROVE  OneMaker(i)'
<1>1. Owned(i)' = Owned(i)
  BY DEF Owned, rows
<1> QED BY <1>1, MakerQuiet DEF rows

\* A new invocation: nothing of it is stored, and nobody works on it.
LEMMA InvokeMaker ==
  ASSUME ApprovalInv, NEW i \in Invocations, OneMaker(i), NEW p \in Users,
         NEW j \in Invocations, Invoke(p, j)
  PROVE  OneMaker(i)'
<1>0. p \in Procs /\ UNCHANGED rows /\ Risk[j] \in Risks
  BY ToolAssumption DEF Invoke
<1> DEFINE F1 == <<SaveInvocation(j, "queued", NoCommand, FALSE), CreateCommand(j, FALSE)>>
           F2 == <<SaveInvocation(j, "approval_required", NoCommand, FALSE), CreateApproval(j),
                   SaveInvocation(j, "approval_required", NoCommand, TRUE)>>
           F3 == <<SaveInvocation(j, "policy_denied", NoCommand, FALSE)>>
<1>1. PICK plan \in {F1, F2, F3} : Continue(p, plan)
  BY <1>0 DEF Invoke, Begin, Risks
<1>2. CASE j # i
  <2>1. /\ \A s \in {"queued", "approval_required", "policy_denied"}, b \in BOOLEAN :
             SaveInvocation(j, s, NoCommand, b) \in QuietCall(i)
        /\ CreateApproval(j) \in QuietCall(i) /\ CreateCommand(j, FALSE) \in QuietCall(i)
    BY <1>2, QuietMembers DEF Owners
  <2>2. F1 \in Seq(QuietCall(i)) /\ F2 \in Seq(QuietCall(i)) /\ F3 \in Seq(QuietCall(i))
    BY <2>1, ShortPlans
  <2> HIDE DEF F1, F2, F3
  <2> QED BY <1>0, <1>1, <2>2, MakerElsewhere
<1>3. CASE j = i
  <2>1. /\ approval[i].status = "absent" /\ Owned(i) = {}
        /\ \A q \in Procs : todo[q] \in Held(i) => todo[q] \in Fresh(i)
    BY <1>3 DEF OneMaker, Invoke
  <2>2. \A q \in Procs : todo[q] \notin Held(i)
    BY <1>3, HeldDue DEF Invoke
  <2>3. F1 \in Fresh(i) /\ F2 \in Fresh(i)
    BY <1>3 DEF Fresh
  <2>4. F3 \in Seq(QuietCall(i))
    BY <1>3, QuietMembers, ShortPlans
  <2> HIDE DEF F1, F2, F3
  <2>5. CASE plan = F3
    BY <1>0, <1>1, <2>4, <2>5, MakerElsewhere
  <2>6. CASE plan # F3
    <3>1. plan \in Fresh(i) /\ plan \in Held(i)
      BY <1>1, <2>3, <2>6 DEF Held
    <3>2. plan \notin Decided(i) /\ plan \notin Making(i)
      BY <3>1, HeldKinds
    <3>3. Owned(i)' = Owned(i) /\ approval' = approval /\ invocation' = invocation
      BY <1>0 DEF Owned, rows
    <3> QED BY <1>0, <1>1, <2>1, <2>2, <3>1, <3>2, <3>3, MakerMoves
  <2> QED BY <2>5, <2>6
<1> QED BY <1>2, <1>3

\* A decision, when nobody else is deciding: then nobody is making a command.
LEMMA DecideMaker ==
  ASSUME ApprovalInv, NEW i \in Invocations, OneMaker(i), NEW p \in Users,
         NEW j \in Invocations, NEW v \in {"approved", "denied"}, Decide(p, j, v), i \notin raced'
  PROVE  OneMaker(i)'
<1> DEFINE D1 == <<SaveApproval(j, "expired")>>
           D2 == <<SaveApproval(j, "approved"), Dispatch(j)>>
           D3 == <<SaveApproval(j, "denied")>>
<1>0. p \in Procs /\ UNCHANGED rows
  BY DEF Decide
<1>1. PICK plan \in {D1, D2, D3} : Continue(p, plan)
  BY DEF Decide, Begin
<1>2. CASE j # i
  <2>1. /\ \A s \in {"approved", "denied", "expired"} : SaveApproval(j, s) \in QuietCall(i)
        /\ Dispatch(j) \in QuietCall(i)
    BY <1>2, QuietMembers
  <2>2. D1 \in Seq(QuietCall(i)) /\ D2 \in Seq(QuietCall(i)) /\ D3 \in Seq(QuietCall(i))
    BY <2>1, ShortPlans
  <2> HIDE DEF D1, D2, D3
  <2> QED BY <1>0, <1>1, <2>2, MakerElsewhere
<1>3. CASE j = i
  <2>1. approval[i].status = "requested" /\ Deciding(i) = {}
    BY <1>3 DEF Decide
  <2>2. Owned(i) = {} /\ invocation[i].status # "absent"
    BY <2>1 DEF OneMaker
  <2>3. ASSUME NEW q \in Procs, todo[q] \in Held(i) PROVE FALSE
    <3>1. q \in Users /\ ~Idle(q) /\ Due(q).own = i
      BY <2>3, HeldDue DEF OneMaker
    <3>2. todo[q] \notin Fresh(i) \cup Asking(i) /\ todo[q] \notin Making(i)
      BY <2>1 DEF OneMaker
    <3>3. Due(q).op = "saveApproval"
      BY <2>3, <3>2, HeldPlans DEF Held, Due
    <3> QED BY <2>1, <3>1, <3>3 DEF Deciding
  <2>4. D1 \in Seq(QuietCall(i)) /\ D3 \in Seq(QuietCall(i))
    <3>1. SaveApproval(j, "expired") \in QuietCall(i) /\ SaveApproval(j, "denied") \in QuietCall(i)
      BY <1>3, <2>1, QuietMembers
    <3> QED BY <3>1, ShortPlans
  <2>5. D2 \in Approving(i)
    BY <1>3 DEF Approving
  <2> HIDE DEF D1, D2, D3
  <2>6. CASE plan # D2
    BY <1>0, <1>1, <2>4, <2>6, MakerElsewhere
  <2>7. CASE plan = D2
    <3>1. plan \in Held(i) /\ plan \in Decided(i)
      BY <2>5, <2>7 DEF Held, Decided
    <3>2. plan \notin Fresh(i) \cup Asking(i) /\ plan \notin Making(i)
      BY <2>5, <2>7, HeldKinds
    <3>3. Owned(i)' = Owned(i) /\ approval' = approval /\ invocation' = invocation
      BY <1>0 DEF Owned, rows
    <3> QED BY <1>0, <1>1, <2>1, <2>2, <2>3, <3>1, <3>2, <3>3, MakerMoves
  <2> QED BY <2>6, <2>7
<1> QED BY <1>2, <1>3

LEMMA PeopleMaker ==
  ASSUME ApprovalInv, NEW i \in Invocations, OneMaker(i), NEW p \in Users, PeopleStep(p),
         i \notin raced'
  PROVE  OneMaker(i)'
<1>1. ASSUME NEW d \in Diagnostics, RequestCommand(p, d)
      PROVE  OneMaker(i)'
  <2>1. d # i /\ d \in Owners
    BY ToolAssumption DEF Owners
  <2>2. <<CreateCommand(d, FALSE)>> \in Seq(QuietCall(i))
    BY <2>1, QuietMembers, ShortPlans
  <2> QED BY <1>1, <2>2, MakerElsewhere DEF RequestCommand, Begin
<1> QED BY <1>1, InvokeMaker, DecideMaker DEF PeopleStep

\* Who holds a plan of i has its own call due; the kind tells which.
LEMMA HeldAt ==
  ASSUME NEW i \in Invocations, NEW p \in Procs, todo[p] \in Held(i)
  PROVE  /\ Due(p).op = "saveInvocation" =>
              todo[p] \in Fresh(i) /\ Tail(todo[p]) \in Asking(i) \cup {<<CreateCommand(i, FALSE)>>}
         /\ Due(p).op = "createApproval" =>
              /\ todo[p] \in Asking(i)
              /\ Tail(todo[p]) = <<SaveInvocation(i, "approval_required", NoCommand, TRUE)>>
         /\ Due(p).op = "saveApproval" =>
              /\ todo[p] \in Approving(i) /\ Due(p).val = "approved"
              /\ Tail(todo[p]) = <<Dispatch(i)>>
         /\ Due(p).op = "dispatch" => todo[p] = <<Dispatch(i)>>
         /\ Due(p).op = "createCommand" => todo[p] = <<CreateCommand(i, Due(p).flag)>>
         /\ Due(p).op \in {"saveInvocation", "createApproval", "saveApproval", "dispatch",
                           "createCommand"}
<1>1. PICK s : s = todo[p]
  OBVIOUS
<1>2. Due(p) = Head(s)
  BY <1>1 DEF Due
<1>3. CASE s \in Fresh(i)
  <2>1. Head(s).op = "saveInvocation" /\ Tail(s) \in Asking(i) \cup {<<CreateCommand(i, FALSE)>>}
    BY <1>3, HeldPlans
  <2> QED BY <1>1, <1>2, <1>3, <2>1
<1>4. CASE s \in Asking(i)
  <2>1. /\ Head(s).op = "createApproval"
        /\ Tail(s) = <<SaveInvocation(i, "approval_required", NoCommand, TRUE)>>
    BY <1>4, HeldPlans
  <2> QED BY <1>1, <1>2, <1>4, <2>1
<1>5. CASE s \in Approving(i)
  <2>1. /\ Head(s).op = "saveApproval" /\ Head(s).val = "approved"
        /\ Tail(s) = <<Dispatch(i)>>
    BY <1>5, HeldPlans
  <2> QED BY <1>1, <1>2, <1>5, <2>1
<1>6. CASE s = <<Dispatch(i)>>
  <2>1. Head(s).op = "dispatch"
    BY <1>6, HeldPlans
  <2> QED BY <1>1, <1>2, <1>6, <2>1
<1>7. ASSUME NEW b \in BOOLEAN, s = <<CreateCommand(i, b)>>
      PROVE  Head(s).op = "createCommand" /\ Head(s).flag = b
  BY <1>7, HeldPlans
<1>8. CASE s \in {<<CreateCommand(i, TRUE)>>, <<CreateCommand(i, FALSE)>>}
  BY <1>1, <1>2, <1>7, <1>8
<1> QED BY <1>1, <1>3, <1>4, <1>5, <1>6, <1>8 DEF Held, Making

\* A call that is due in a quiet plan is quiet.
LEMMA QuietDue ==
  ASSUME NEW i \in Invocations, NEW p \in Procs, todo[p] \in Seq(QuietCall(i)), ~Idle(p)
  PROVE  Due(p) \in QuietCall(i)
BY HeadTailProperties DEF Due, Idle

\* The rest of a quiet plan is quiet.
LEMMA QuietRest ==
  ASSUME ApprovalInv, NEW i \in Invocations, NEW p \in Procs, todo[p] \in Seq(QuietCall(i)),
         \/ DoSaveInvocation(p) \/ DoCreateApproval(p) \/ DoSaveApproval(p)
         \/ DoSaveResult(p) \/ DoSaveCommand(p) \/ DoNotify(p)
  PROVE  \E plan \in Seq(QuietCall(i)) : Continue(p, plan)
<1>1. PICK S : S = QuietCall(i)
  OBVIOUS
<1>2. RunCall \subseteq S /\ todo[p] \in Seq(S)
  BY <1>1, QuietMembers
<1>3. \E plan \in Seq(S) : Continue(p, plan)
  BY <1>2, RestOfPlan
<1> QED BY <1>1, <1>3

LEMMA SaveInvocationMaker ==
  ASSUME ApprovalInv, NEW i \in Invocations, OneMaker(i), NEW p \in Procs, DoSaveInvocation(p)
  PROVE  OneMaker(i)'
<1>1. ~Idle(p) /\ Due(p).op = "saveInvocation"
  BY DEF DoSaveInvocation, At
<1>2. Due(p).own \in Invocations /\ Due(p).val # "absent"
  BY <1>1, NextCall, TaskFields DEF ApprovalInv
<1>3. Owned(i)' = Owned(i) /\ approval' = approval
  BY DEF DoSaveInvocation, Owned
<1>4. /\ invocation'[i].status = "absent" => invocation[i].status = "absent"
      /\ Due(p).own = i => invocation'[i].status # "absent"
  BY <1>2 DEF DoSaveInvocation, ApprovalInv, RowsTyped
<1>5. CASE todo[p] \in Seq(QuietCall(i))
  BY <1>3, <1>4, <1>5, QuietRest, MakerQuiet
<1>6. CASE todo[p] \in Held(i)
  <2>1. PICK plan : plan = Tail(todo[p])
    OBVIOUS
  <2>2. /\ todo[p] \in Fresh(i)
        /\ plan \in Asking(i) \cup {<<CreateCommand(i, FALSE)>>}
        /\ Due(p).own = i
    BY <1>1, <1>6, <2>1, HeldAt, HeldDue
  <2>3. Continue(p, plan)
    BY <2>1 DEF DoSaveInvocation, Advance
  <2>4. /\ approval[i].status = "absent" /\ Owned(i) = {} /\ p \in Users
        /\ \A q \in Procs : todo[q] \in Held(i) => q = p
    BY <1>6, <2>2 DEF OneMaker
  <2>5. plan \in Held(i) /\ plan \notin Decided(i)
    BY <2>2, HeldKinds DEF Held, Making
  <2>6. /\ invocation'[i].status # "absent" /\ approval'[i].status = approval[i].status
    BY <1>3, <1>4, <2>2
  <2> QED BY <1>3, <2>3, <2>4, <2>5, <2>6, MakerMoves
<1> QED BY <1>5, <1>6 DEF OneMaker

\* The approval is asked for by the one maker; after that nobody is making.
LEMMA CreateApprovalMaker ==
  ASSUME ApprovalInv, NEW i \in Invocations, OneMaker(i), NEW p \in Procs, DoCreateApproval(p)
  PROVE  OneMaker(i)'
<1>1. ~Idle(p) /\ Due(p).op = "createApproval"
  BY DEF DoCreateApproval, At
<1>2. Due(p).own \in Invocations
  BY <1>1, NextCall, TaskFields DEF ApprovalInv
<1>3. Owned(i)' = Owned(i) /\ invocation' = invocation
  BY DEF DoCreateApproval, Owned
<1>4. CASE todo[p] \in Seq(QuietCall(i))
  <2>1. Due(p).own # i
    BY <1>1, <1>4, QuietDue DEF QuietCall
  <2>2. approval'[i].status = approval[i].status
    BY <1>2, <2>1 DEF DoCreateApproval, ApprovalInv, RowsTyped
  <2> QED BY <1>3, <1>4, <2>2, QuietRest, MakerQuiet
<1>5. CASE todo[p] \in Held(i)
  <2>1. PICK plan : plan = Tail(todo[p])
    OBVIOUS
  <2>2. /\ todo[p] \in Asking(i) /\ Due(p).own = i
        /\ plan = <<SaveInvocation(i, "approval_required", NoCommand, TRUE)>>
    BY <1>1, <1>5, <2>1, HeldAt, HeldDue
  <2>3. plan \in Seq(QuietCall(i))
    BY <2>2, QuietMembers, ShortPlans
  <2>4. \A q \in Procs : todo'[q] = IF q = p THEN plan ELSE todo[q]
    BY <2>1 DEF DoCreateApproval, Advance, Continue, ApprovalInv, Plans
  <2>5. Owned(i) = {} /\ \A q \in Procs : todo[q] \in Held(i) => q = p
    BY <1>5 DEF OneMaker
  <2>6. \A q \in Procs : todo'[q] \notin Held(i)
    BY <2>3, <2>4, <2>5, QuietNotHeld
  <2>7. approval'[i].status = "requested"
    BY <2>2 DEF DoCreateApproval, ApprovalInv, RowsTyped, Approval
  <2>8. \A s \in Seq(QuietCall(i)) : s \in Seq(QuietCall(i)')
    BY <2>7, QuietGrows
  <2>9. \A q \in Procs : todo'[q] \in Seq(QuietCall(i)')
    BY <2>3, <2>4, <2>5, <2>8 DEF OneMaker
  <2>10. invocation[i].status # "absent"
    BY <1>5, <2>2, HeldKinds DEF OneMaker
  <2>11. Held(i)' = Held(i) /\ Fresh(i)' = Fresh(i) /\ Asking(i)' = Asking(i)
         /\ Decided(i)' = Decided(i) /\ Making(i)' = Making(i)
    BY DEF Held, Fresh, Asking, Decided, Approving, Making
  <2>12. \A q \in Procs : todo'[q] \notin Fresh(i) \cup Asking(i) /\ todo'[q] \notin Decided(i)
                          /\ todo'[q] \notin Making(i)
    BY <2>6 DEF Held, Decided, Making
  <2> QED BY <1>3, <2>5, <2>6, <2>9, <2>10, <2>11, <2>12 DEF OneMaker
<1> QED BY <1>4, <1>5 DEF OneMaker

LEMMA SaveApprovalMaker ==
  ASSUME ApprovalInv, NEW i \in Invocations, OneMaker(i), NEW p \in Procs, DoSaveApproval(p)
  PROVE  OneMaker(i)'
<1>1. ~Idle(p) /\ Due(p).op = "saveApproval"
  BY DEF DoSaveApproval, At
<1>2. Due(p).own \in Invocations /\ Due(p).val \in {"approved", "denied", "expired", "consumed"}
  BY <1>1, NextCall, TaskFields DEF ApprovalInv
<1>3. Owned(i)' = Owned(i) /\ invocation' = invocation
  BY DEF DoSaveApproval, Owned
<1>4. approval'[i].status = IF Due(p).own = i THEN Due(p).val ELSE approval[i].status
  BY <1>2 DEF DoSaveApproval, ApprovalInv, RowsTyped, Approval
<1>5. CASE todo[p] \in Seq(QuietCall(i))
  <2>1. Due(p).own = i => approval[i].status # "absent" /\ invocation[i].status # "absent"
    BY <1>1, <1>5, QuietDue DEF QuietCall, OneMaker
  <2> QED BY <1>2, <1>3, <1>4, <1>5, <2>1, QuietRest, MakerQuiet
<1>6. CASE todo[p] \in Held(i)
  <2>1. PICK plan : plan = Tail(todo[p])
    OBVIOUS
  <2>2. /\ todo[p] \in Approving(i) /\ Due(p).own = i /\ Due(p).val = "approved"
        /\ plan = <<Dispatch(i)>>
    BY <1>1, <1>6, <2>1, HeldAt, HeldDue
  <2>3. Continue(p, plan)
    BY <2>1 DEF DoSaveApproval, Advance
  <2>4. /\ approval[i].status # "absent" /\ Owned(i) = {} /\ p \in Users
        /\ \A q \in Procs : todo[q] \in Held(i) => q = p
    BY <1>6, <2>2 DEF OneMaker, Decided
  <2>5. plan \in Making(i) /\ plan \in Held(i)
    BY <2>2 DEF Making, Held
  <2>6. plan \notin Fresh(i) \cup Asking(i)
    BY <2>5, HeldKinds
  <2>7. approval'[i].status = "approved" /\ invocation'[i].status # "absent"
    BY <1>3, <1>4, <2>2, <2>4 DEF OneMaker
  <2> QED BY <1>3, <2>3, <2>4, <2>5, <2>6, <2>7, MakerMoves
<1> QED BY <1>5, <1>6 DEF OneMaker

LEMMA DispatchMaker ==
  ASSUME ApprovalInv, NEW i \in Invocations, OneMaker(i), NEW p \in Procs, DoDispatch(p)
  PROVE  OneMaker(i)'
<1>1. ~Idle(p) /\ Due(p).op = "dispatch" /\ UNCHANGED rows
  BY DEF DoDispatch, At
<1>2. Due(p).own \in Invocations
  BY <1>1, NextCall, TaskFields DEF ApprovalInv
<1>3. PICK plan \in {<<>>, <<CreateCommand(Due(p).own, TRUE)>>} : Continue(p, plan)
  BY DEF DoDispatch
<1>4. <<>> \in Seq(QuietCall(i))
  BY ShortPlans
<1>5. CASE plan = <<>>
  BY <1>1, <1>3, <1>4, <1>5, MakerElsewhere
<1>6. CASE plan # <<>> /\ Due(p).own # i
  <2>1. <<CreateCommand(Due(p).own, TRUE)>> \in Seq(QuietCall(i))
    BY <1>2, <1>6, QuietMembers, ShortPlans DEF Owners
  <2> QED BY <1>1, <1>3, <1>6, <2>1, MakerElsewhere
<1>7. CASE plan # <<>> /\ Due(p).own = i
  <2>1. todo[p] \in Held(i)
    BY <1>1, <1>7, QuietDue DEF QuietCall, OneMaker
  <2>2. todo[p] = <<Dispatch(i)>>
    BY <1>1, <2>1, HeldAt
  <2>3. todo[p] \in Making(i) /\ todo[p] \in Decided(i)
    BY <2>2 DEF Making, Decided
  <2>4. /\ approval[i].status # "absent" /\ approval[i].status # "requested"
        /\ Owned(i) = {} /\ p \in Users
        /\ \A q \in Procs : todo[q] \in Held(i) => q = p
    BY <2>1, <2>3 DEF OneMaker
  <2>5. plan \in Making(i) /\ plan \in Held(i)
    BY <1>3, <1>7 DEF Making, Held
  <2>6. plan \notin Fresh(i) \cup Asking(i)
    BY <2>5, HeldKinds
  <2>7. invocation[i].status # "absent"
    BY <2>4 DEF OneMaker
  <2>8. Owned(i)' = Owned(i) /\ approval' = approval /\ invocation' = invocation
    BY <1>1 DEF Owned, rows
  <2> QED BY <1>3, <2>4, <2>5, <2>6, <2>7, <2>8, MakerMoves
<1> QED BY <1>5, <1>6, <1>7

\* The maker creates the one command, and makes no more.
LEMMA CreateCommandMaker ==
  ASSUME ApprovalInv, OwnLinks, NEW i \in Invocations, OneMaker(i), NEW p \in Procs,
         DoCreateCommand(p)
  PROVE  OneMaker(i)'
<1> DEFINE o == Due(p).own
<1>1. ~Idle(p) /\ Due(p).op = "createCommand"
  BY DEF DoCreateCommand, At
<1>2. o \in Owners /\ Due(p).flag \in BOOLEAN
  BY <1>1, NextCall, TaskFields DEF ApprovalInv
<1>3. UNCHANGED <<invocation, approval, result, draft>>
  BY DEF DoCreateCommand
<1>4. CASE Continue(p, <<>>) /\ UNCHANGED command
  <2>1. UNCHANGED rows /\ <<>> \in Seq(QuietCall(i))
    BY <1>3, <1>4, ShortPlans DEF rows
  <2> QED BY <1>4, <2>1, MakerElsewhere
<1>5. ASSUME NEW c \in Commands, command[c].status = "absent",
             command' = [command EXCEPT ![c] = [status |-> "queued", owner |-> o,
                                                overdue |-> FALSE, recent |-> TRUE]],
             Continue(p, LinkAndConsume(o, c, Due(p).flag))
      PROVE  OneMaker(i)'
  <2>0. i # NoCommand /\ command[c].owner = NoCommand
    BY <1>5, ToolAssumption DEF OwnLinks, Owners
  <2>1. \A d \in Commands : command'[d].owner = IF d = c THEN o ELSE command[d].owner
    BY <1>5 DEF ApprovalInv, RowsTyped
  <2>2. \A j \in Invocations, b \in BOOLEAN : SaveInvocation(j, "queued", c, b) \in QuietCall(i)
    BY QuietMembers DEF QuietCall, SaveInvocation, Step, Task, Call
  <2>3. PICK plan : plan = LinkAndConsume(o, c, Due(p).flag)
    OBVIOUS
  <2>4. CASE o # i
    <3>1. Owned(i)' = Owned(i)
      BY <2>0, <2>1, <2>4 DEF Owned
    <3>2. \A j \in Invocations : j = o => SaveApproval(j, "consumed") \in QuietCall(i)
      BY <2>4, QuietMembers
    <3>3. PICK S : S = QuietCall(i)
      OBVIOUS
    <3>4. plan \in Seq(S)
      BY <1>2, <2>2, <2>3, <3>2, <3>3, LinkCalls
    <3> QED BY <1>3, <1>5, <2>3, <3>1, <3>3, <3>4, MakerQuiet
  <2>5. CASE o = i
    <3>1. todo[p] \in Held(i)
      BY <1>1, <2>5, QuietDue DEF QuietCall, OneMaker
    <3>2. todo[p] = <<CreateCommand(i, Due(p).flag)>>
      BY <1>1, <3>1, HeldAt
    <3>3. todo[p] \in Making(i) /\ (Due(p).flag => todo[p] \in Decided(i))
      BY <1>2, <3>2 DEF Making, Decided
    <3>4. /\ Owned(i) = {} /\ approval[i].status # "requested"
          /\ Due(p).flag => approval[i].status # "absent"
          /\ \A q \in Procs : todo[q] \in Held(i) => q = p
      BY <3>1, <3>3 DEF OneMaker
    <3>5. Due(p).flag => SaveApproval(i, "consumed") \in QuietCall(i)
      BY <3>4, QuietMembers
    <3>6. PICK S : S = QuietCall(i)
      OBVIOUS
    <3>7. plan \in Seq(S)
      BY <1>2, <2>2, <2>3, <2>5, <3>5, <3>6, LinkCalls
    <3>8. \A q \in Procs : todo'[q] = IF q = p THEN plan ELSE todo[q]
      BY <1>5, <2>3 DEF Continue, ApprovalInv, Plans
    <3>9. \A q \in Procs : todo'[q] \notin Held(i)
      BY <3>4, <3>6, <3>7, <3>8, QuietNotHeld
    <3>10. \A q \in Procs : todo'[q] \in Seq(S)
      BY <3>4, <3>6, <3>7, <3>8 DEF OneMaker
    <3>11. QuietCall(i)' = S
      BY <1>3, <3>6 DEF QuietCall
    <3>12. invocation[i].status # "absent"
      <4>1. todo[p] \notin Fresh(i)
        BY <3>3, HeldKinds
      <4> QED BY <3>1, <4>1 DEF OneMaker
    <3>13. \A d, e \in Owned(i)' : d = e
      <4> SUFFICES ASSUME NEW d \in Commands, NEW e \in Commands, command'[d].owner = i,
                          command'[e].owner = i
                   PROVE  d = e
        BY DEF Owned
      <4>1. \A f \in Commands : command[f].owner # i
        BY <3>4 DEF Owned
      <4> QED BY <2>1, <4>1
    <3>14. Held(i)' = Held(i) /\ Fresh(i)' = Fresh(i) /\ Asking(i)' = Asking(i)
           /\ Decided(i)' = Decided(i) /\ Making(i)' = Making(i)
      BY DEF Held, Fresh, Asking, Decided, Approving, Making
    <3>15. \A q \in Procs : todo'[q] \notin Fresh(i) \cup Asking(i) /\ todo'[q] \notin Decided(i)
                            /\ todo'[q] \notin Making(i)
      BY <3>9 DEF Held, Decided, Making
    <3> QED BY <1>3, <3>4, <3>9, <3>10, <3>11, <3>12, <3>13, <3>14, <3>15 DEF OneMaker
  <2> QED BY <2>4, <2>5
<1> QED BY <1>4, <1>5 DEF DoCreateCommand

\* Runs of the agent, and whatever dies, make no command.
LEMMA RunMaker ==
  ASSUME ApprovalInv, NEW i \in Invocations, OneMaker(i), NEW p \in Procs,
         \/ FindCommand(p) \/ DoClaimRow(p) \/ DoSaveResult(p) \/ DoSaveCommand(p) \/ DoNotify(p)
         \/ DoExecute(p) \/ DoSubmit(p) \/ DoReply(p)
         \/ ReplyLost(p) \/ Dies(p) \/ HandlerDies(p)
  PROVE  OneMaker(i)'
<1>1. approval' = approval /\ invocation' = invocation
  BY DEF FindCommand, DoClaimRow, DoSaveResult, DoSaveCommand, DoNotify, DoExecute, DoSubmit,
     DoReply, ReplyLost, Dies, HandlerDies, rows
<1>2. \A c \in Commands : command'[c].owner = command[c].owner
  <2>1. CASE UNCHANGED command
    BY <2>1
  <2>2. CASE DoClaimRow(p) \/ DoSaveCommand(p)
    BY <2>2, NextCall, TaskFields
       DEF DoClaimRow, DoSaveCommand, At, ApprovalInv, RowsTyped, Command
  <2> QED BY <2>1, <2>2 DEF FindCommand, DoSaveResult, DoNotify, DoExecute, DoSubmit, DoReply,
     ReplyLost, Dies, HandlerDies, rows
<1>3. Owned(i)' = Owned(i)
  BY <1>2 DEF Owned
<1>4. PICK plan \in Seq(QuietCall(i)) : Continue(p, plan)
  <2>1. CASE \/ DoExecute(p) \/ DoSubmit(p) \/ DoReply(p)
             \/ ReplyLost(p) \/ Dies(p) \/ HandlerDies(p)
    BY <2>1, RunPlan, QuietMembers, SeqGrows
  <2>2. CASE DoSaveResult(p) \/ DoSaveCommand(p) \/ DoNotify(p)
    <3>1. Due(p).op \in {"saveResult", "saveCommand", "notify"}
      BY <2>2 DEF DoSaveResult, DoSaveCommand, DoNotify, At
    <3>2. todo[p] \in Seq(QuietCall(i))
      BY <3>1, HeldAt DEF OneMaker
    <3> QED BY <2>2, <3>2, QuietRest
  <2>3. CASE FindCommand(p)
    <3>1. PICK c \in Commands : Continue(p, <<ClaimRow(c)>>)
      BY <2>3 DEF FindCommand, Begin
    <3>2. <<ClaimRow(c)>> \in Seq(QuietCall(i))
      BY QuietMembers, ShortPlans
    <3> QED BY <3>1, <3>2
  <2>4. CASE DoClaimRow(p)
    <3>1. Due(p).com \in Commands /\ Continue(p, <<Execute(Due(p).com)>>)
      BY <2>4, NextCall, TaskFields DEF ApprovalInv, DoClaimRow, At
    <3>2. <<Execute(Due(p).com)>> \in Seq(QuietCall(i))
      BY <3>1, QuietMembers, ShortPlans
    <3> QED BY <3>1, <3>2
  <2> QED BY <2>1, <2>2, <2>3, <2>4
<1> QED BY <1>1, <1>3, <1>4, MakerQuiet

LEMMA MakerStep == ASSUME ApprovalInv, OwnLinks, MakerInv, [Next]_vars PROVE MakerInv'
<1> SUFFICES ASSUME NEW i \in Invocations, i \notin raced' PROVE OneMaker(i)'
  BY DEF MakerInv
<1>0. raced \subseteq raced'
  <2>1. ASSUME NEW p \in Users, PeopleStep(p) PROVE raced \subseteq raced'
    BY <2>1 DEF PeopleStep, Invoke, Decide, RequestCommand, history
  <2>2. ASSUME NEW p \in Procs, RequestStep(p) PROVE raced \subseteq raced'
    BY <2>2 DEF RequestStep, DoSaveInvocation, DoCreateApproval, DoSaveApproval, DoDispatch,
       DoCreateCommand, DoClaimRow, DoExecute, DoSubmit, DoSaveResult, DoSaveCommand, DoNotify,
       DoReply, history
  <2> QED BY <2>1, <2>2 DEF Next, vars, CreateDraft, ApprovalExpires, FindCommand, ReplyLost,
       HandlerDies, Dies, CommandExpires, MinutePasses, history
<1>1. OneMaker(i)
  BY <1>0 DEF MakerInv
<1>2. ASSUME NEW p \in Users, PeopleStep(p) PROVE OneMaker(i)'
  BY <1>1, <1>2, PeopleMaker
<1>3. ASSUME NEW j \in Invocations, CreateDraft(j) PROVE OneMaker(i)'
  BY <1>1, <1>3, MakerStays DEF CreateDraft, Owned
<1>4. ASSUME NEW j \in Invocations, ApprovalExpires(j) PROVE OneMaker(i)'
  <2>1. approval'[i].status = approval[i].status
    BY <1>4 DEF ApprovalExpires, ApprovalInv, RowsTyped, Approval
  <2> QED BY <1>1, <1>4, <2>1, MakerStays DEF ApprovalExpires, Owned
<1>5. ASSUME NEW r \in Runs, FindCommand(r) \/ ReplyLost(r) \/ HandlerDies(r) PROVE OneMaker(i)'
  BY <1>1, <1>5, RunMaker
<1>6. ASSUME NEW p \in Procs, RequestStep(p) PROVE OneMaker(i)'
  BY <1>1, <1>6, SaveInvocationMaker, CreateApprovalMaker, SaveApprovalMaker, DispatchMaker,
     CreateCommandMaker, RunMaker DEF RequestStep
<1>7. ASSUME NEW p \in Procs, Dies(p) PROVE OneMaker(i)'
  BY <1>1, <1>7, RunMaker
<1>8. CASE (\E c \in Commands : CommandExpires(c)) \/ MinutePasses
  <2>1. UNCHANGED <<todo, approval, invocation>>
    BY <1>8 DEF CommandExpires, MinutePasses
  <2>2. Owned(i)' = Owned(i)
    BY <1>8, TimeKeepsRows DEF Owned
  <2> QED BY <1>1, <2>1, <2>2, MakerStays
<1>9. CASE UNCHANGED vars
  BY <1>1, <1>9, MakerStays DEF vars, Owned
<1> QED BY <1>2, <1>3, <1>4, <1>5, <1>6, <1>7, <1>8, <1>9 DEF Next

\* A set without two different members has one at most.
LEMMA OneAtMost ==
  ASSUME NEW S, \A x, y \in S : x = y
  PROVE  Cardinality(S) <= 1
<1>1. CASE S = {}
  BY <1>1, FS_EmptySet
<1>2. CASE S # {}
  <2>1. PICK x : x \in S
    BY <1>2
  <2>2. S = {x}
    BY <2>1
  <2> QED BY <2>2, FS_Singleton
<1> QED BY <1>1, <1>2

\* Unless two people decide on it at once, an invocation becomes at most one
\* command: it asks for one approval, one decision leads to one dispatch, and
\* what is approved is not asked for again (approveOrDeny,
\* dispatchAfterApproval).
THEOREM OneCommandEach == Spec => []OneCommandPerInvocation
<1>1. Init => ApprovalInv /\ ResultInv /\ MakerInv
  BY ApprovalInvInit, ResultInvInit, MakerInvInit
<1>2. ApprovalInv /\ ResultInv /\ MakerInv /\ [Next]_vars => (ApprovalInv /\ ResultInv /\ MakerInv)'
  BY NextKeeps, ResultStep, MakerStep DEF ResultInv
<1>3. MakerInv => OneCommandPerInvocation
  <2> SUFFICES ASSUME MakerInv, NEW i \in Invocations \ raced
               PROVE  Cardinality({c \in Commands : command[c].owner = i}) <= 1
    BY DEF OneCommandPerInvocation
  <2>1. \A c, d \in Owned(i) : c = d
    BY DEF MakerInv, OneMaker
  <2>2. Cardinality(Owned(i)) <= 1
    BY <2>1, OneAtMost
  <2> QED BY <2>2 DEF Owned
<1> QED BY <1>1, <1>2, <1>3, PTL DEF Spec

=============================================================================
