--------------------------- MODULE MCDeliveryPolicy ---------------------------
(* Instances of DeliveryPolicy for TLC. *)
EXTENDS DeliveryPolicy, TLC

CONSTANTS c1, c2, tenant, x1, x2

\* The rows of prisma/seed.ts: dev-tenant allows the sandbox, alt-tenant does not.
SeedRow(mockOnly) ==
  [killSwitch |-> FALSE, enabled |-> TRUE, mockOnlyEnforced |-> mockOnly,
   allowedActionTypes |-> {"ticket_note"}, approvalRequired |-> TRUE,
   minimumApproverRole |-> "admin", requireHumanReview |-> TRUE,
   requireEvidence |-> FALSE, requireValidation |-> FALSE, policyVersion |-> 1]

SeedRows == {SeedRow(TRUE), SeedRow(FALSE)}
DevSeed == {SeedRow(FALSE)}

\* One tightening and one loosening per gate that the requests can tell apart.
GatePatches ==
  {"killSwitch" :> TRUE, "killSwitch" :> FALSE, "minimumApproverRole" :> "owner",
   "minimumApproverRole" :> "operator", "approvalRequired" :> FALSE,
   "requireValidation" :> TRUE, "requireValidation" :> FALSE,
   "mockOnlyEnforced" :> TRUE}

SwitchPatches ==
  {"killSwitch" :> TRUE, "killSwitch" :> FALSE, "requireHumanReview" :> FALSE,
   "allowedActionTypes" :> {}}

AdminSymmetry == Permutations({x1, x2})
=============================================================================
