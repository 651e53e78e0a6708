--------------------------- MODULE MCOutboxBridge ---------------------------
(* A small instance of OutboxBridge for TLC. *)
EXTENDS OutboxBridge

CONSTANTS a1, o1, w1, w2

SandboxOnly ==
  {[killSwitch |-> FALSE, enabled |-> TRUE, mockOnlyEnforced |-> FALSE,
    allowedActionTypes |-> {"ticket_note"}, approvalRequired |-> TRUE,
    minimumApproverRole |-> "admin", requireHumanReview |-> TRUE,
    requireEvidence |-> FALSE, requireValidation |-> FALSE, policyVersion |-> 1]}

AllSucceed == [a \in Actions |-> "success"]

SlowOrDead == {"stall", "abort"}

BothBackends == {"postgres-local-outbox", "nats-jetstream"}

=============================================================================
