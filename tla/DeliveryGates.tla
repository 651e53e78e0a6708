---------------------------- MODULE DeliveryGates ----------------------------
(***************************************************************************)
(* The delivery policy of a tenant (or of one connector installation) and  *)
(* the decision DeliveryPolicyService derives from it: an ordered list of  *)
(* gates, of which the first that fails names the decision.  Pure: the     *)
(* modules that store policies or act on decisions extend it.              *)
(*                                                                         *)
(* A request is judged on [actionType, role, evidence, validated,          *)
(* approved, reviewed], the arguments of evaluateDeliveryPolicy.           *)
(***************************************************************************)
EXTENDS Naturals

CONSTANTS ActionTypes,     \* the action types an allowlist may name
          SandboxEnabled   \* SUPPORTPLANE_SANDBOX_WRITEBACK_ENABLED of the process

ASSUME SandboxEnabledAssumption == SandboxEnabled \in BOOLEAN

RoleRank == [viewer |-> 0, operator |-> 1, admin |-> 2, owner |-> 3]

Policy ==
  [killSwitch : BOOLEAN,
   enabled : BOOLEAN,
   mockOnlyEnforced : BOOLEAN,
   allowedActionTypes : SUBSET ActionTypes,
   approvalRequired : BOOLEAN,
   minimumApproverRole : {"operator", "admin", "owner"},
   requireHumanReview : BOOLEAN,
   requireEvidence : BOOLEAN,
   requireValidation : BOOLEAN,
   policyVersion : Nat]

\* The gates in the order the code tries them: each is passed by a policy
\* and a request.
GatePasses(gate, pol, req) ==
  CASE gate = "blocked_by_kill_switch" -> ~pol.killSwitch
    [] gate = "blocked_by_policy_disabled" -> pol.enabled
    [] gate = "blocked_by_action_type" -> req.actionType \in pol.allowedActionTypes
    [] gate = "blocked_by_approval_required" -> pol.approvalRequired => req.approved
    [] gate = "blocked_by_insufficient_approver_role" ->
         RoleRank[req.role] >= RoleRank[pol.minimumApproverRole]
    [] gate = "blocked_by_human_review_required" -> pol.requireHumanReview => req.reviewed
    [] gate = "blocked_by_evidence_required" -> pol.requireEvidence => req.evidence
    [] gate = "blocked_by_connector_validation_required" ->
         pol.requireValidation => req.validated

Gates ==
  << "blocked_by_kill_switch", "blocked_by_policy_disabled", "blocked_by_action_type",
     "blocked_by_approval_required", "blocked_by_insufficient_approver_role",
     "blocked_by_human_review_required", "blocked_by_evidence_required",
     "blocked_by_connector_validation_required" >>

FailingGates(pol, req) == {i \in 1 .. 8 : ~GatePasses(Gates[i], pol, req)}

FirstOf(S) == CHOOSE i \in S : \A j \in S : i <= j

Decision(pol, req) ==
  IF FailingGates(pol, req) # {} THEN Gates[FirstOf(FailingGates(pol, req))]
  ELSE IF SandboxEnabled /\ ~pol.mockOnlyEnforced THEN "sandbox_allowed"
  ELSE IF pol.mockOnlyEnforced THEN "mock_only_allowed"
  ELSE "allowed"

\* The answer when no policy is found in the store.
FallbackDecision == "mock_only_allowed"

AllowedDecisions == {"sandbox_allowed", "mock_only_allowed", "allowed"}

Allowed(decision) == decision \in AllowedDecisions

DeliveryMode(decision) == IF decision = "sandbox_allowed" THEN "sandbox" ELSE "mock"

\* What ActionsService passes: queue() and processClaimedOutbox() fix the
\* role to admin, no evidence bundle, approved and reviewed; queue() also
\* passes connectorValidated = false.
ServiceRequest(type, isValidated) ==
  [actionType |-> type, role |-> "admin", evidence |-> FALSE,
   validated |-> isValidated, approved |-> TRUE, reviewed |-> TRUE]

=============================================================================
