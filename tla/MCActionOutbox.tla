--------------------------- MODULE MCActionOutbox ---------------------------
(* Small instances of ActionOutbox for TLC. *)
EXTENDS OutboxRefinement, TLC

CONSTANTS a1, a2, o1, o2, w1, w2

\* The seeded policy with sandbox writeback let through, the same policy as
\* seeded (mock only), and the same with the kill switch on.
SandboxPolicy ==
  [killSwitch |-> FALSE, enabled |-> TRUE, mockOnlyEnforced |-> FALSE,
   allowedActionTypes |-> {"ticket_note"}, approvalRequired |-> TRUE,
   minimumApproverRole |-> "admin", requireHumanReview |-> TRUE,
   requireEvidence |-> FALSE, requireValidation |-> FALSE, policyVersion |-> 1]

MockPolicy == [SandboxPolicy EXCEPT !.mockOnlyEnforced = TRUE]

KilledPolicy == [SandboxPolicy EXCEPT !.killSwitch = TRUE]

SandboxOnly == {SandboxPolicy}

SandboxOrKilled == {SandboxPolicy, KilledPolicy}

SandboxOrMock == {SandboxPolicy, MockPolicy}

Crashes == {"abort", "stall"}

CrashesAndErrors == Crashes \cup {"lostReply", "saveError"}

TargetFaults == {"lostReply", "saveError", "dryRun"}

NoFaults == {}

FailOnce == [a \in Actions |-> "retryable_failure_once"]

AllSucceed == [a \in Actions |-> "success"]

OperatorSymmetry == Permutations(Operators)

WorkerSymmetry == Permutations(Workers)

=============================================================================
