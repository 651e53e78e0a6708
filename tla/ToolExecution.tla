----------------------------- MODULE ToolExecution -----------------------------
(***************************************************************************)
(* Remote tool execution: the gateway that turns a tool invocation into an *)
(* endpoint command, the approval a remediation needs                      *)
(* (apps/api/src/tool-execution), the command and result protocol of the   *)
(* endpoint devices (apps/api/src/endpoint-devices) and the agent that     *)
(* polls it (apps/endpoint-agent/src/index.ts), over the PostgreSQL store. *)
(*                                                                         *)
(* As in ActionOutbox a request reads, checks and then makes its store     *)
(* calls one await at a time: todo[p] lists the calls it has still to      *)
(* make, and a save writes back the row the request read.  A run of the    *)
(* agent and the handler that serves it are one process, because the agent *)
(* awaits the answer; setInterval starts a run whether or not the last one *)
(* has ended, so several runs of one device overlap.                       *)
(***************************************************************************)
EXTENDS Naturals, FiniteSets, Sequences

CONSTANTS
  Invocations,  \* tool invocations of one device
  Diagnostics,  \* idempotency keys of commands requested without a tool
  MaxCommands,  \* bound: endpoint commands, numbered as they are requested
  Users,        \* in-flight API requests of people
  Runs,         \* overlapping runs of the agent
  Risk,         \* the verdict of ToolPolicyService on each invocation
  Faults        \* which faults may happen: "crash", "lostReply"

Commands == 1 .. MaxCommands
NoCommand == 0

Procs == Users \cup Runs
Owners == Invocations \cup Diagnostics

\* evaluateToolInvocation: a tool without approval runs at once; a low-risk
\* remediation needs one; an elevated one is blocked but asks for one too.
Risks == {"allowed", "approval", "elevated", "denied"}

ASSUME ToolAssumption ==
  /\ MaxCommands \in Nat
  /\ Users \cap Runs = {}
  /\ Invocations \cap Diagnostics = {}
  /\ NoCommand \notin Owners
  /\ Risk \in [Invocations -> Risks]
  /\ Faults \subseteq {"crash", "lostReply"}

VARIABLES
  invocation,  \* tool_invocations: status, endpointCommandId, approvalId set
  approval,    \* tool_approvals, one per invocation
  command,     \* endpoint_commands
  result,      \* endpoint_command_results, unique per command
  draft,       \* invocations with a note draft
  todo,        \* the calls each request or run has still to make
  executions,  \* history: times the agent ran each command, counted to 2
  granted,     \* history: invocations whose approval was ever saved as approved
  contended,   \* history: commands that two runs found at once
  raced,       \* history: invocations two people decided on at once
  early        \* history: invocations answered before they named their command

vars == <<invocation, approval, command, result, draft, todo,
          executions, granted, contended, raced, early>>

-----------------------------------------------------------------------------
(* Data *)

Invocation ==
  [status : {"absent", "queued", "approval_required", "policy_denied", "succeeded", "failed"},
   command : Commands \cup {NoCommand},
   linked : BOOLEAN]

Approval ==
  [status : {"absent", "requested", "approved", "denied", "expired", "consumed"},
   overdue : BOOLEAN]

\* overdue: expiresAt has passed; recent: created in the current minute.
Command ==
  [status : {"absent", "queued", "claimed", "succeeded", "failed", "expired"},
   owner : Owners \cup {NoCommand}, overdue : BOOLEAN, recent : BOOLEAN]

Outcomes == {"succeeded", "failed"}

\* A call still to make.  flag: approvalId set (saveInvocation), approval to be
\* consumed (createCommand), last try of the agent (submit, saveResult, reply).
Call(op, own, coms, vals) == [op : {op}, own : own, com : coms, val : vals, flag : BOOLEAN]

Task ==
  Call("saveInvocation", Invocations, Commands \cup {NoCommand},
       {"queued", "approval_required", "policy_denied", "succeeded", "failed"})
    \cup Call("createApproval", Invocations, {NoCommand}, {"requested"})
    \cup Call("saveApproval", Invocations, {NoCommand}, {"approved", "denied", "expired", "consumed"})
    \cup Call("dispatch", Invocations, {NoCommand}, {"queued"})
    \cup Call("createCommand", Owners, {NoCommand}, {"queued"})
    \cup Call("claimRow", {NoCommand}, Commands, {"claimed"})
    \cup Call("execute", {NoCommand}, Commands, {"claimed"})
    \cup Call("submit", {NoCommand}, Commands, Outcomes)
    \cup Call("saveResult", {NoCommand}, Commands, Outcomes)
    \cup Call("saveCommand", {NoCommand}, Commands, Outcomes \cup {"expired"})
    \cup Call("notify", {NoCommand}, Commands, Outcomes)
    \cup Call("reply", {NoCommand}, Commands, {"succeeded"})

Step(op, i, c, val, flag) == [op |-> op, own |-> i, com |-> c, val |-> val, flag |-> flag]

SaveInvocation(i, s, c, linked) == Step("saveInvocation", i, c, s, linked)
CreateApproval(i)      == Step("createApproval", i, NoCommand, "requested", FALSE)
SaveApproval(i, s)     == Step("saveApproval", i, NoCommand, s, FALSE)
Dispatch(i)            == Step("dispatch", i, NoCommand, "queued", FALSE)
CreateCommand(o, used) == Step("createCommand", o, NoCommand, "queued", used)
ClaimRow(c)            == Step("claimRow", NoCommand, c, "claimed", FALSE)
Execute(c)             == Step("execute", NoCommand, c, "claimed", FALSE)
Submit(c, s, last)     == Step("submit", NoCommand, c, s, last)
SaveResult(c, s, last) == Step("saveResult", NoCommand, c, s, last)
SaveCommand(c, s, last) == Step("saveCommand", NoCommand, c, s, last)
Notify(c, s, last)     == Step("notify", NoCommand, c, s, last)
Reply(c, last)         == Step("reply", NoCommand, c, "succeeded", last)

Idle(p) == todo[p] = <<>>
Due(p) == Head(todo[p])
At(p, op) == ~Idle(p) /\ Due(p).op = op
Continue(p, plan) == todo' = [todo EXCEPT ![p] = plan]
Begin(p, plan) == Idle(p) /\ Continue(p, plan)
Advance(p) == Continue(p, Tail(todo[p]))

Init ==
  /\ invocation = [i \in Invocations |-> [status |-> "absent", command |-> NoCommand,
                                          linked |-> FALSE]]
  /\ approval = [i \in Invocations |-> [status |-> "absent", overdue |-> FALSE]]
  /\ command = [c \in Commands |-> [status |-> "absent", owner |-> NoCommand,
                                    overdue |-> FALSE, recent |-> FALSE]]
  /\ result = [c \in Commands |-> "none"]
  /\ draft = {}
  /\ todo = [p \in Procs |-> <<>>]
  /\ executions = [c \in Commands |-> 0]
  /\ granted = {} /\ contended = {} /\ raced = {} /\ early = {}

rows == <<invocation, approval, command, result, draft>>
history == <<executions, granted, contended, raced, early>>

-----------------------------------------------------------------------------
(* What people request *)

\* requestToolInvocation; the id of the invocation is new.
Invoke(p, i) ==
  /\ invocation[i].status = "absent"
  /\ \A q \in Procs : ~Idle(q) => Due(q).own # i
  /\ Begin(p, CASE Risk[i] = "allowed" ->
                     <<SaveInvocation(i, "queued", NoCommand, FALSE), CreateCommand(i, FALSE)>>
                [] Risk[i] \in {"approval", "elevated"} ->
                     <<SaveInvocation(i, "approval_required", NoCommand, FALSE),
                       CreateApproval(i),
                       SaveInvocation(i, "approval_required", NoCommand, TRUE)>>
                [] Risk[i] = "denied" ->
                     <<SaveInvocation(i, "policy_denied", NoCommand, FALSE)>>)
  /\ UNCHANGED <<rows, history>>

\* The requests about to decide, or dispatch, the approval of i.
Deciding(i) == {q \in Users : ~Idle(q) /\ Due(q).own = i
                              /\ Due(q).op \in {"saveApproval", "dispatch", "createCommand"}}

\* Variant: a decision may be taken again.
DecideAgain(p, i, verdict) ==
  /\ approval[i].status # "absent"
  /\ Begin(p, IF approval[i].overdue THEN <<SaveApproval(i, "expired")>>
              ELSE IF verdict = "approved" THEN <<SaveApproval(i, "approved"), Dispatch(i)>>
              ELSE <<SaveApproval(i, "denied")>>)
  /\ raced' = IF Deciding(i) # {} THEN raced \cup {i} ELSE raced
  /\ UNCHANGED <<rows, executions, granted, contended, early>>

\* approveOrDeny, followed for an approval by the dispatch of the controller.
Decide(p, i, verdict) ==
  /\ approval[i].status = "requested"
  /\ Begin(p, IF approval[i].overdue THEN <<SaveApproval(i, "expired")>>
              ELSE IF verdict = "approved" THEN <<SaveApproval(i, "approved"), Dispatch(i)>>
              ELSE <<SaveApproval(i, "denied")>>)
  /\ raced' = IF Deciding(i) # {} THEN raced \cup {i} ELSE raced
  /\ UNCHANGED <<rows, executions, granted, contended, early>>

\* requestCommand; a known idempotency key is answered with its command.
RequestCommand(p, d) ==
  /\ \A c \in Commands : command[c].owner # d
  /\ Begin(p, <<CreateCommand(d, FALSE)>>)
  /\ UNCHANGED <<rows, history>>

\* createDraftFromResult; the draft of an invocation is unique.
CreateDraft(i) ==
  /\ invocation[i].status = "succeeded"
  /\ i \notin draft
  /\ draft' = draft \cup {i}
  /\ UNCHANGED <<invocation, approval, command, result, todo, history>>

-----------------------------------------------------------------------------
(* The store calls of those requests *)

DoSaveInvocation(p) ==
  /\ At(p, "saveInvocation")
  /\ LET t == Due(p) IN
       invocation' = [invocation EXCEPT ![t.own] =
                        [status |-> t.val, command |-> t.com, linked |-> t.flag]]
  /\ Advance(p)
  /\ UNCHANGED <<approval, command, result, draft, history>>

DoCreateApproval(p) ==
  /\ At(p, "createApproval")
  /\ approval' = [approval EXCEPT ![Due(p).own].status = "requested"]
  /\ Advance(p)
  /\ UNCHANGED <<invocation, command, result, draft, history>>

DoSaveApproval(p) ==
  /\ At(p, "saveApproval")
  /\ LET t == Due(p) IN
       /\ approval' = [approval EXCEPT ![t.own].status = t.val]
       /\ granted' = IF t.val = "approved" THEN granted \cup {t.own} ELSE granted
  /\ Advance(p)
  /\ UNCHANGED <<invocation, command, result, draft, executions, contended, raced, early>>

\* Variant: the controller dispatches whatever the approval says now.
DispatchUnchecked(p) ==
  /\ At(p, "dispatch")
  /\ LET i == Due(p).own IN
       Continue(p, IF invocation[i].linked THEN <<CreateCommand(i, TRUE)>> ELSE <<>>)
  /\ UNCHANGED <<rows, history>>

\* dispatchAfterApproval up to its first write: the invocation must know its
\* approval, which must stand and not have expired, and the policy must still
\* ask for an approval and nothing else.
DoDispatch(p) ==
  /\ At(p, "dispatch")
  /\ LET i == Due(p).own IN
       Continue(p, IF /\ invocation[i].linked
                      /\ approval[i].status = "approved" /\ ~approval[i].overdue
                      /\ Risk[i] = "approval"
                   THEN <<CreateCommand(i, TRUE)>> ELSE <<>>)
  /\ UNCHANGED <<rows, history>>

\* The idempotency key of a command: the key given, or the invocation and the
\* minute.  It is unique, and a second insert ends the request.
Duplicate(o) ==
  \E c \in Commands : command[c].owner = o /\ (o \in Diagnostics \/ command[c].recent)

\* What the request does once its command c is stored: the invocation is told
\* its command, and an approval that was used is consumed.
LinkAndConsume(o, c, used) ==
  IF o \in Diagnostics THEN <<>>
  ELSE <<SaveInvocation(o, "queued", c, used)>>
         \o IF used THEN <<SaveApproval(o, "consumed")>> ELSE <<>>

\* createEndpointCommand.
DoCreateCommand(p) ==
  /\ At(p, "createCommand")
  /\ LET t == Due(p)
     IN \/ /\ Duplicate(t.own)
           /\ Continue(p, <<>>)
           /\ UNCHANGED command
        \/ /\ ~Duplicate(t.own)
           /\ \E c \in Commands :
                /\ command[c].status = "absent"
                /\ \A d \in Commands : command[d].status = "absent" => c <= d
                /\ command' = [command EXCEPT ![c] =
                                 [status |-> "queued", owner |-> t.own,
                                  overdue |-> FALSE, recent |-> TRUE]]
                /\ Continue(p, LinkAndConsume(t.own, c, t.flag))
  /\ UNCHANGED <<invocation, approval, result, draft, history>>

-----------------------------------------------------------------------------
(* A run of the agent: claimAndRun *)

\* Variant: a claimed command may be found again.
ClaimableAgain(c) == command[c].status \in {"queued", "claimed"} /\ ~command[c].overdue

Claimable(c) == command[c].status = "queued" /\ ~command[c].overdue

\* claimNextEndpointCommand finds the oldest claimable command ...
FindCommand(r) ==
  \E c \in Commands :
    /\ Claimable(c) /\ \A d \in Commands : Claimable(d) => c <= d
    /\ Begin(r, <<ClaimRow(c)>>)
    /\ contended' = IF \E q \in Runs : At(q, "claimRow") /\ Due(q).com = c
                    THEN contended \cup {c} ELSE contended
    /\ UNCHANGED <<rows, executions, granted, raced, early>>

\* ... and marks it claimed, whatever has become of it.
DoClaimRow(r) ==
  /\ At(r, "claimRow")
  /\ LET c == Due(r).com IN
       /\ command' = [command EXCEPT ![c].status = "claimed"]
       /\ Continue(r, <<Execute(c)>>)
  /\ UNCHANGED <<invocation, approval, result, draft, history>>

\* The agent runs the fixed diagnostic or remediation; when that or the post
\* of its snapshot throws, the failure it posts is its last try.
DoExecute(r) ==
  /\ At(r, "execute")
  /\ LET c == Due(r).com IN
       /\ executions' = [executions EXCEPT ![c] = IF @ < 2 THEN @ + 1 ELSE @]
       /\ \/ \E s \in Outcomes : Continue(r, <<Submit(c, s, FALSE)>>)
          \/ Continue(r, <<Submit(c, "failed", TRUE)>>)
  /\ UNCHANGED <<rows, granted, contended, raced, early>>

\* Any failure of the post makes the agent post a failure, once.
Retry(c, last) == IF last THEN <<>> ELSE <<Submit(c, "failed", TRUE)>>

\* Variant: the command is settled before its result is kept.
AcceptedCommandFirst(c, s, last) ==
  <<SaveCommand(c, s, last), SaveResult(c, s, last), Notify(c, s, last), Reply(c, last)>>

\* Variant: the gateway is not told.
AcceptedSilently(c, s, last) ==
  <<SaveResult(c, s, last), SaveCommand(c, s, last), Reply(c, last)>>

Accepted(c, s, last) ==
  <<SaveResult(c, s, last), SaveCommand(c, s, last), Notify(c, s, last), Reply(c, last)>>

\* submitResult: expiry is checked before an earlier result is looked for.
DoSubmit(r) ==
  /\ At(r, "submit")
  /\ LET t == Due(r) IN
       Continue(r, IF command[t.com].overdue
                   THEN <<SaveCommand(t.com, "expired", t.flag)>> \o Retry(t.com, t.flag)
                   ELSE IF result[t.com] # "none" THEN Retry(t.com, t.flag)
                   ELSE Accepted(t.com, t.val, t.flag))
  /\ UNCHANGED <<rows, history>>

\* (tenantId, commandId) is unique.
DoSaveResult(r) ==
  /\ At(r, "saveResult")
  /\ LET t == Due(r) IN
       IF result[t.com] = "none"
       THEN result' = [result EXCEPT ![t.com] = t.val] /\ Advance(r)
       ELSE Continue(r, Retry(t.com, t.flag)) /\ UNCHANGED result
  /\ UNCHANGED <<invocation, approval, command, draft, history>>

DoSaveCommand(r) ==
  /\ At(r, "saveCommand")
  /\ LET t == Due(r) IN command' = [command EXCEPT ![t.com].status = t.val]
  /\ Advance(r)
  /\ UNCHANGED <<invocation, approval, result, draft, history>>

\* Variant: the gateway passes the reported status on.
ReportedAsIs(s) == IF s = "failed" THEN {"failed"} ELSE Outcomes \cup {"unsupported"}

\* A success may carry a report that says failed or unsupported.
ReportedStatus(s) == IF s = "failed" THEN {"failed"} ELSE Outcomes

\* onCommandResult looks for the invocation that names the command; without
\* one it returns.
DoNotify(r) ==
  /\ At(r, "notify")
  /\ LET t == Due(r)
         named == {i \in Invocations : invocation[i].command = t.com}
     IN \/ /\ named = {}
           /\ Advance(r)
           /\ early' = early \cup ({command[t.com].owner} \cap Invocations)
        \/ \E i \in named : \E s \in ReportedStatus(t.val) :
             /\ Continue(r, <<SaveInvocation(i, s, t.com, invocation[i].linked)>>
                              \o Tail(todo[r]))
             /\ UNCHANGED early
  /\ UNCHANGED <<rows, executions, granted, contended, raced>>

DoReply(r) ==
  /\ At(r, "reply")
  /\ Continue(r, <<>>)
  /\ UNCHANGED <<rows, history>>

-----------------------------------------------------------------------------
(* Time and faults *)

CommandExpires(c) ==
  /\ command[c].status # "absent" /\ ~command[c].overdue
  /\ command' = [command EXCEPT ![c].overdue = TRUE, ![c].recent = FALSE]
  /\ UNCHANGED <<invocation, approval, result, draft, todo, history>>

MinutePasses ==
  /\ \E c \in Commands : command[c].recent
  /\ command' = [c \in Commands |-> [command[c] EXCEPT !.recent = FALSE]]
  /\ UNCHANGED <<invocation, approval, result, draft, todo, history>>

ApprovalExpires(i) ==
  /\ approval[i].status # "absent" /\ ~approval[i].overdue
  /\ approval' = [approval EXCEPT ![i].overdue = TRUE]
  /\ UNCHANGED <<invocation, command, result, draft, todo, history>>

\* The answer does not reach the agent: after a claim the run ends, after a
\* result the agent posts a failure.
ReplyLost(r) ==
  /\ "lostReply" \in Faults
  /\ \/ At(r, "execute") /\ Continue(r, <<>>)
     \/ At(r, "reply") /\ Continue(r, Retry(Due(r).com, Due(r).flag))
  /\ UNCHANGED <<rows, history>>

\* A request of a person, or the agent, dies.
Dies(p) ==
  /\ "crash" \in Faults
  /\ ~Idle(p)
  /\ Continue(p, <<>>)
  /\ UNCHANGED <<rows, history>>

\* The API dies while it handles a result; the agent posts a failure.
HandlerDies(r) ==
  /\ "crash" \in Faults
  /\ \/ /\ \E op \in {"submit", "saveResult", "saveCommand", "notify"} : At(r, op)
        /\ Continue(r, Retry(Due(r).com, Due(r).flag))
     \/ \E c \in Commands, last \in BOOLEAN :
          /\ At(r, "saveInvocation") /\ Tail(todo[r]) = <<Reply(c, last)>>
          /\ Continue(r, Retry(c, last))
  /\ UNCHANGED <<rows, history>>

-----------------------------------------------------------------------------
(* Specification *)

PeopleStep(p) ==
  \/ \E i \in Invocations :
       \/ Invoke(p, i)
       \/ \E verdict \in {"approved", "denied"} : Decide(p, i, verdict)
  \/ \E d \in Diagnostics : RequestCommand(p, d)

\* The next call of an in-flight request or run.
RequestStep(p) ==
  \/ DoSaveInvocation(p) \/ DoCreateApproval(p) \/ DoSaveApproval(p)
  \/ DoDispatch(p) \/ DoCreateCommand(p)
  \/ DoClaimRow(p) \/ DoExecute(p) \/ DoSubmit(p) \/ DoSaveResult(p)
  \/ DoSaveCommand(p) \/ DoNotify(p) \/ DoReply(p)

Next ==
  \/ \E p \in Users : PeopleStep(p)
  \/ \E i \in Invocations : CreateDraft(i) \/ ApprovalExpires(i)
  \/ \E r \in Runs : FindCommand(r) \/ ReplyLost(r) \/ HandlerDies(r)
  \/ \E p \in Procs : RequestStep(p) \/ Dies(p)
  \/ \E c \in Commands : CommandExpires(c)
  \/ MinutePasses

Spec == Init /\ [][Next]_vars

\* Requests go on and the agent's interval keeps starting runs.
Fairness ==
  /\ \A p \in Procs : WF_vars(RequestStep(p))
  /\ \A r \in Runs : WF_vars(FindCommand(r))

FairSpec == Spec /\ Fairness

-----------------------------------------------------------------------------
(* Properties *)

\* The stored rows and the pending calls have their types.
TypeOK ==
  /\ invocation \in [Invocations -> Invocation]
  /\ approval \in [Invocations -> Approval]
  /\ command \in [Commands -> Command]
  /\ result \in [Commands -> Outcomes \cup {"none"}]
  /\ draft \subseteq Invocations
  /\ todo \in [Procs -> Seq(Task)]
  /\ executions \in [Commands -> 0 .. 2]
  /\ granted \subseteq Invocations
  /\ contended \subseteq Commands
  /\ raced \subseteq Invocations
  /\ early \subseteq Invocations

\* No device ever holds a command of a tool that is denied or elevated, nor,
\* before an approval was granted, of one that needs it (Decide, DoDispatch).
ApprovedBeforeCommand ==
  \A c \in Commands :
    command[c].owner \in Invocations =>
      \/ Risk[command[c].owner] = "allowed"
      \/ Risk[command[c].owner] = "approval" /\ command[c].owner \in granted

\* A settled command agrees with the result kept for it, through crashes,
\* duplicate results and concurrent runs (submitResult).
SettledHasResult ==
  \A c \in Commands : command[c].status \in Outcomes => result[c] = command[c].status

\* An invocation is finished by a result of a command of its own, a success by
\* a successful one, and a note draft is about a success (onCommandResult,
\* createDraftFromResult).
FinishedByOwnResult ==
  \A i \in Invocations :
    /\ invocation[i].status \in Outcomes =>
         LET c == invocation[i].command IN
           /\ c # NoCommand /\ command[c].owner = i /\ result[c] # "none"
           /\ invocation[i].status = "succeeded" => result[c] = "succeeded"
    /\ i \in draft => \E c \in Commands : command[c].owner = i /\ result[c] = "succeeded"

\* Results are true, of commands and of invocations alike.
ResultsAreTrue == SettledHasResult /\ FinishedByOwnResult

\* Unless two runs found it at the same moment, the agent executes a command
\* at most once, whatever dies or is lost: a claim is never given back.
ExecutedAtMostOnce == \A c \in Commands \ contended : executions[c] <= 1

\* Unless two administrators decide at once, an invocation becomes at most
\* one command (the single approval, its status check and its consumption).
OneCommandPerInvocation ==
  \A i \in Invocations \ raced :
    Cardinality({c \in Commands : command[c].owner = i}) <= 1

Finished(i) == invocation[i].status \in Outcomes

\* With nothing lost or dying, an invocation that has a command is finished,
\* unless its command expires or is contended, two people decided on it at
\* once, or its result came before it named the command.
InvocationsFinish ==
  \A i \in Invocations :
    invocation[i].status = "queued" ~>
      \/ Finished(i) \/ i \in raced \cup early
      \/ \E c \in Commands : command[c].owner = i /\ (command[c].overdue \/ c \in contended)

-----------------------------------------------------------------------------
(* What the documentation says and the code does not keep *)

\* "duplicate-result replay rejection": a settled command stays settled.
SettledStaysSettled ==
  [][\A c \in Commands : command[c].status \in Outcomes => command'[c].status = command[c].status]_vars

\* "command/result protocol with replay protection": one execution a command.
ExecutedOnce == \A c \in Commands : executions[c] <= 1

\* The approval lifecycle requested -> approved/denied/expired/consumed: a
\* denial is final.
DenialIsFinal ==
  [][\A i \in Invocations : approval[i].status = "denied" => approval'[i].status = "denied"]_vars

\* "approval status=approved, invocation dispatched to endpoint command": a
\* decision nobody else took at the same time leads to a command.
ApprovedIsDispatched ==
  \A i \in Invocations :
    approval[i].status = "approved" ~>
      approval[i].overdue \/ i \in raced \/ \E c \in Commands : command[c].owner = i

\* "result -> invocation updates": the result of a tool's command reaches it.
ResultReachesInvocation ==
  \A i \in Invocations, c \in Commands :
    command[c].owner = i /\ result[c] # "none" ~> Finished(i)

=============================================================================
