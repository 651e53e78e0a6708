---------------------------- MODULE DeliveryPolicy ----------------------------
(***************************************************************************)
(* Delivery policies at rest and in use                                    *)
(* (apps/api/src/delivery-policy/delivery-policy.service.ts): the PATCH of *)
(* an administrator reads the row, merges the fields it names and writes   *)
(* the whole row back, one await later; ActionsService asks for a decision *)
(* when an action is queued and again when its item is processed; the      *)
(* readiness report of a connector predicts that decision.                 *)
(*                                                                         *)
(* A policy row belongs to one connector installation or to the tenant as  *)
(* a whole.  No operation creates or deletes one: the seed does.           *)
(***************************************************************************)
EXTENDS DeliveryGates, FiniteSets

CONSTANTS
  Connectors,  \* connector installations of one tenant
  Tenant,      \* the scope of the tenant-wide row, and of an action without connector
  Seeded,      \* the scopes that have a policy row
  Seeds,       \* the rows the seed may write, policyVersion 1
  Verified,    \* installations with lastVerifiedAt; no operation sets it
  Active,      \* installations in status "active" that list write_notes
  Admins,      \* in-flight PATCH requests
  Patches,     \* their bodies: the fields named and their values
  MaxUpdates   \* PATCH requests per scope

Scopes == Connectors \cup {Tenant}

\* The fields that DeliveryPolicyUpdateRequest lets a body name.
Patchable ==
  {"killSwitch", "enabled", "mockOnlyEnforced", "allowedActionTypes", "approvalRequired",
   "minimumApproverRole", "requireHumanReview", "requireEvidence", "requireValidation"}

FieldValues(f) ==
  CASE f = "allowedActionTypes" -> SUBSET ActionTypes
    [] f = "minimumApproverRole" -> {"operator", "admin", "owner"}
    [] OTHER -> BOOLEAN

Field(patch, f, old) == IF f \in DOMAIN patch THEN patch[f] ELSE old

\* The fields of the body over those of the row that was read.
MergedFields(pol, patch, version) ==
  [killSwitch |-> Field(patch, "killSwitch", pol.killSwitch),
   enabled |-> Field(patch, "enabled", pol.enabled),
   mockOnlyEnforced |-> Field(patch, "mockOnlyEnforced", pol.mockOnlyEnforced),
   allowedActionTypes |-> Field(patch, "allowedActionTypes", pol.allowedActionTypes),
   approvalRequired |-> Field(patch, "approvalRequired", pol.approvalRequired),
   minimumApproverRole |-> Field(patch, "minimumApproverRole", pol.minimumApproverRole),
   requireHumanReview |-> Field(patch, "requireHumanReview", pol.requireHumanReview),
   requireEvidence |-> Field(patch, "requireEvidence", pol.requireEvidence),
   requireValidation |-> Field(patch, "requireValidation", pol.requireValidation),
   policyVersion |-> version]

\* Variant: a role the body leaves out falls back to the default.
MergedResetsRole(pol, patch) ==
  [MergedFields(pol, patch, pol.policyVersion + 1)
     EXCEPT !.minimumApproverRole = Field(patch, "minimumApproverRole", "admin")]

\* The row a PATCH writes.
Merged(pol, patch) == MergedFields(pol, patch, pol.policyVersion + 1)

ASSUME PolicyAssumption ==
  /\ Tenant \notin Connectors
  /\ Seeded \subseteq Scopes
  /\ Seeds \subseteq {pol \in Policy : pol.policyVersion = 1}
  /\ Verified \subseteq Connectors
  /\ Active \subseteq Connectors
  /\ MaxUpdates \in Nat
  /\ \A patch \in Patches :
       DOMAIN patch \subseteq Patchable /\ \A f \in DOMAIN patch : patch[f] \in FieldValues(f)

VARIABLES
  stored,    \* delivery_policies, by scope
  inFlight,  \* PATCH requests that have read their row and not yet written it
  accepted,  \* per scope, the policy under which queue() accepted its last item
  updates,   \* history: PATCH requests begun per scope
  saves,     \* history: rows written per scope
  lone       \* history: the scopes no two PATCH requests ever overlapped on

vars == <<stored, inFlight, accepted, updates, saves, lone>>

Request == [admin : Admins, scope : Seeded, read : Policy, patch : Patches]

Init ==
  /\ stored \in [Seeded -> Seeds]
  /\ inFlight = {}
  /\ accepted = [s \in Scopes |-> {}]
  /\ updates = [s \in Seeded |-> 0]
  /\ saves = [s \in Seeded |-> 0]
  /\ lone = Seeded

-----------------------------------------------------------------------------
(* PATCH /delivery-policies/:id *)

BeginUpdate(admin, s, patch) ==
  /\ \A u \in inFlight : u.admin # admin
  /\ updates[s] < MaxUpdates
  /\ inFlight' = inFlight \cup
       {[admin |-> admin, scope |-> s, read |-> stored[s], patch |-> patch]}
  /\ updates' = [updates EXCEPT ![s] = @ + 1]
  /\ lone' = IF \E u \in inFlight : u.scope = s THEN lone \ {s} ELSE lone
  /\ UNCHANGED <<stored, accepted, saves>>

\* saveDeliveryPolicy writes every column of the row.
SaveUpdate(u) ==
  /\ stored' = [stored EXCEPT ![u.scope] = Merged(u.read, u.patch)]
  /\ saves' = [saves EXCEPT ![u.scope] = @ + 1]
  /\ inFlight' = inFlight \ {u}
  /\ UNCHANGED <<accepted, updates, lone>>

\* The request dies before it writes.
AbandonUpdate(u) ==
  /\ inFlight' = inFlight \ {u}
  /\ UNCHANGED <<stored, accepted, updates, saves, lone>>

-----------------------------------------------------------------------------
(* Decisions *)

\* evaluateDeliveryPolicy: the row of exactly that scope, else the fallback.
Evaluate(s, req) ==
  IF s \in Seeded THEN Decision(stored[s], req) ELSE FallbackDecision

QueueDecision(s) == Evaluate(s, ServiceRequest("ticket_note", FALSE))

\* Variant: the call leaves out the last two arguments, whose default is false.
ProcessDecisionUnreviewed(s) ==
  Evaluate(s, [ServiceRequest("ticket_note", s \in Verified)
                 EXCEPT !.approved = FALSE, !.reviewed = FALSE])

ProcessDecision(s) == Evaluate(s, ServiceRequest("ticket_note", s \in Verified))

\* queue() of an approved action on scope s.
QueueItem(s) ==
  /\ Allowed(QueueDecision(s))
  /\ accepted' = [accepted EXCEPT ![s] = IF s \in Seeded THEN {stored[s]} ELSE {}]
  /\ UNCHANGED <<stored, inFlight, updates, saves, lone>>

\* Variant: readiness takes every installation for validated.
ReadinessTakesValidated(c) ==
  LET req == ServiceRequest("ticket_note", TRUE)
  IN IF c \in Seeded THEN Decision(stored[c], req)
     ELSE IF Tenant \in Seeded THEN Decision(stored[Tenant], req)
     ELSE FallbackDecision

\* checkConnectorReadiness: the connector's row, else the tenant's.
ReadinessDecision(c) ==
  LET req == ServiceRequest("ticket_note", c \in Verified)
  IN IF c \in Seeded THEN Decision(stored[c], req)
     ELSE IF Tenant \in Seeded THEN Decision(stored[Tenant], req)
     ELSE FallbackDecision

ReadyForMockDelivery(c) == Allowed(ReadinessDecision(c)) /\ c \in Active

SandboxWritebackReady(c) == ReadinessDecision(c) = "sandbox_allowed" /\ c \in Active

-----------------------------------------------------------------------------
Next ==
  \/ \E admin \in Admins, s \in Seeded, patch \in Patches : BeginUpdate(admin, s, patch)
  \/ \E u \in inFlight : SaveUpdate(u) \/ AbandonUpdate(u)
  \/ \E s \in Scopes : QueueItem(s)

Spec == Init /\ [][Next]_vars

-----------------------------------------------------------------------------
(* Properties *)

\* Every row is a policy, and every pending PATCH holds one.
TypeOK ==
  /\ stored \in [Seeded -> Policy]
  /\ inFlight \subseteq Request
  /\ accepted \in [Scopes -> SUBSET Policy]
  /\ updates \in [Seeded -> 0 .. MaxUpdates]
  /\ saves \in [Seeded -> Nat]
  /\ lone \subseteq Seeded

\* new asks nothing of a request that old did not ask.
NoStricter(new, old) ==
  /\ new.killSwitch => old.killSwitch
  /\ old.enabled => new.enabled
  /\ old.allowedActionTypes \subseteq new.allowedActionTypes
  /\ new.approvalRequired => old.approvalRequired
  /\ RoleRank[new.minimumApproverRole] <= RoleRank[old.minimumApproverRole]
  /\ new.requireHumanReview => old.requireHumanReview
  /\ new.requireEvidence => old.requireEvidence
  /\ new.requireValidation => old.requireValidation

\* An item that queue() accepted is not blocked when it is processed, unless
\* a gate of its policy was tightened in between: the two calls of
\* evaluateDeliveryPolicy in ActionsService pass agreeing arguments.
QueuedStaysDeliverable ==
  \A s \in Seeded : \A pol \in accepted[s] :
    NoStricter(stored[s], pol) => Allowed(ProcessDecision(s))

\* A connector reported ready is not policy-blocked when its items are
\* processed, and where it has a row of its own the mode is as reported
\* (checkConnectorReadiness against evaluateDeliveryPolicy).
ReadinessIsHonest ==
  \A c \in Connectors :
    /\ ReadyForMockDelivery(c) => Allowed(ProcessDecision(c))
    /\ SandboxWritebackReady(c) /\ c \in Seeded => ProcessDecision(c) = "sandbox_allowed"

\* policyVersion never runs ahead of the rows written, and while no two
\* PATCH requests have overlapped on a row it counts them exactly.
VersionCountsUpdates ==
  \A s \in Seeded :
    /\ stored[s].policyVersion <= 1 + saves[s]
    /\ s \in lone => stored[s].policyVersion = 1 + saves[s]

\* Fields that differ between two rows, the version aside.
Changed(old, new) == {f \in Patchable : old[f] # new[f]}

\* Without overlap, a row changes only in the fields a finishing PATCH names.
LoneUpdatesKept ==
  [][\A s \in lone : \A f \in Changed(stored[s], stored'[s]) :
       \E u \in inFlight \ inFlight' : u.scope = s /\ f \in DOMAIN u.patch]_vars

-----------------------------------------------------------------------------
(* What the documentation says of delivery policies and the code does not keep *)

\* "Emergency stop; blocks all delivery immediately": engaged, the kill
\* switch is released only by a PATCH that names it.
KillSwitchStays ==
  [][\A s \in Seeded :
       stored[s].killSwitch /\ ~stored'[s].killSwitch =>
         \E u \in inFlight \ inFlight' : u.scope = s /\ "killSwitch" \in DOMAIN u.patch]_vars

\* "All queue attempts return 403 with blocked_by_kill_switch": the
\* tenant-wide kill switch stops the queueing of every action.
TenantKillSwitchBlocks ==
  Tenant \in Seeded /\ stored[Tenant].killSwitch =>
    \A s \in Scopes \ (Seeded \ {Tenant}) : ~Allowed(QueueDecision(s))

=============================================================================
