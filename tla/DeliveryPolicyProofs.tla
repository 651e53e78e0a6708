------------------------- MODULE DeliveryPolicyProofs -------------------------
(***************************************************************************)
(* Proofs about DeliveryPolicy, for every set of connectors, rows, patches *)
(* and administrators.                                                     *)
(***************************************************************************)
EXTENDS DeliveryPolicy, TLAPS

-----------------------------------------------------------------------------
(* The gates *)

\* A decision allows delivery exactly when no gate fails: the name of a gate
\* is never the name of an allowing decision.
LEMMA AllowedMeansNoGateFails ==
  ASSUME NEW pol, NEW req
  PROVE  Allowed(Decision(pol, req)) <=> FailingGates(pol, req) = {}
<1> DEFINE F == FailingGates(pol, req)
<1>1. CASE F = {}
  BY <1>1 DEF Allowed, Decision, AllowedDecisions
<1>2. CASE F # {}
  <2>1. \E i \in F : \A j \in F : i <= j
    <3>1. F \subseteq 1 .. 8
      BY DEF FailingGates
    <3> HIDE DEF F
    <3> SUFFICES ASSUME \A i \in F : \E j \in F : j < i  PROVE FALSE
      BY <3>1
    <3>2. 1 \notin F  BY <3>1
    <3>3. 2 \notin F  BY <3>1, <3>2
    <3>4. 3 \notin F  BY <3>1, <3>2, <3>3
    <3>5. 4 \notin F  BY <3>1, <3>2, <3>3, <3>4
    <3>6. 5 \notin F  BY <3>1, <3>2, <3>3, <3>4, <3>5
    <3>7. 6 \notin F  BY <3>1, <3>2, <3>3, <3>4, <3>5, <3>6
    <3>8. 7 \notin F  BY <3>1, <3>2, <3>3, <3>4, <3>5, <3>6, <3>7
    <3>9. 8 \notin F  BY <3>1, <3>2, <3>3, <3>4, <3>5, <3>6, <3>7, <3>8
    <3>10. \A i \in 1 .. 8 : i \notin F
      <4>1. \A i \in 1 .. 8 : i = 1 \/ i = 2 \/ i = 3 \/ i = 4 \/ i = 5 \/ i = 6 \/ i = 7 \/ i = 8
        OBVIOUS
      <4> QED  BY <4>1, <3>2, <3>3, <3>4, <3>5, <3>6, <3>7, <3>8, <3>9
    <3>11. F # {}
      BY <1>2
    <3> QED  BY <3>1, <3>10, <3>11
  <2>2. FirstOf(F) \in F
    BY <2>1 DEF FirstOf
  <2>3. FirstOf(F) \in 1 .. 8
    BY <2>2 DEF FailingGates
  <2>4. \A i \in 1 .. 8 : Gates[i] \notin AllowedDecisions
    BY DEF Gates, AllowedDecisions
  <2>5. Decision(pol, req) = Gates[FirstOf(F)]
    BY <1>2 DEF Decision
  <2> QED  BY <1>2, <2>3, <2>4, <2>5 DEF Allowed
<1> QED  BY <1>1, <1>2

\* A policy that is no stricter, asked by a request that offers no less,
\* still allows: evaluateDeliveryPolicy is monotone.
LEMMA LooserAllows ==
  ASSUME NEW new \in Policy, NEW old \in Policy, NoStricter(new, old),
         NEW type, NEW isValidated \in BOOLEAN,
         Allowed(Decision(old, ServiceRequest(type, FALSE)))
  PROVE  Allowed(Decision(new, ServiceRequest(type, isValidated)))
<1> DEFINE before == ServiceRequest(type, FALSE)
           after == ServiceRequest(type, isValidated)
<1>0. /\ Gates[1] = "blocked_by_kill_switch"
      /\ Gates[2] = "blocked_by_policy_disabled"
      /\ Gates[3] = "blocked_by_action_type"
      /\ Gates[4] = "blocked_by_approval_required"
      /\ Gates[5] = "blocked_by_insufficient_approver_role"
      /\ Gates[6] = "blocked_by_human_review_required"
      /\ Gates[7] = "blocked_by_evidence_required"
      /\ Gates[8] = "blocked_by_connector_validation_required"
  BY DEF Gates
<1>1. \A i \in 1 .. 8 : GatePasses(Gates[i], old, before)
  BY AllowedMeansNoGateFails DEF FailingGates
<1>2. /\ GatePasses("blocked_by_kill_switch", old, before)
      /\ GatePasses("blocked_by_policy_disabled", old, before)
      /\ GatePasses("blocked_by_action_type", old, before)
      /\ GatePasses("blocked_by_approval_required", old, before)
      /\ GatePasses("blocked_by_insufficient_approver_role", old, before)
      /\ GatePasses("blocked_by_human_review_required", old, before)
      /\ GatePasses("blocked_by_evidence_required", old, before)
      /\ GatePasses("blocked_by_connector_validation_required", old, before)
  <2>1. 1 \in 1 .. 8 /\ 2 \in 1 .. 8 /\ 3 \in 1 .. 8 /\ 4 \in 1 .. 8
        /\ 5 \in 1 .. 8 /\ 6 \in 1 .. 8 /\ 7 \in 1 .. 8 /\ 8 \in 1 .. 8
    OBVIOUS
  <2> QED  BY <1>1, <1>0, <2>1
<1>3. before.actionType = after.actionType /\ before.role = after.role
      /\ before.evidence = after.evidence /\ before.approved = after.approved
      /\ before.reviewed = after.reviewed /\ before.validated = FALSE
      /\ before.role = "admin"
  BY DEF ServiceRequest
<1> HIDE DEF before, after
<1>4. /\ GatePasses("blocked_by_kill_switch", new, after)
      /\ GatePasses("blocked_by_policy_disabled", new, after)
      /\ GatePasses("blocked_by_action_type", new, after)
      /\ GatePasses("blocked_by_approval_required", new, after)
      /\ GatePasses("blocked_by_human_review_required", new, after)
      /\ GatePasses("blocked_by_evidence_required", new, after)
      /\ GatePasses("blocked_by_connector_validation_required", new, after)
  BY <1>2, <1>3 DEF GatePasses, NoStricter, Policy
<1>5. GatePasses("blocked_by_insufficient_approver_role", new, after)
  <2>1. RoleRank["admin"] = 2 /\ after.role = "admin" /\ before.role = "admin"
    BY <1>3 DEF RoleRank
  <2>2. RoleRank[new.minimumApproverRole] \in Nat /\ RoleRank[old.minimumApproverRole] \in Nat
    BY DEF RoleRank, Policy
  <2>3. RoleRank["admin"] >= RoleRank[old.minimumApproverRole]
    BY <1>2, <2>1 DEF GatePasses
  <2>4. RoleRank[new.minimumApproverRole] <= RoleRank[old.minimumApproverRole]
    BY DEF NoStricter
  <2>5. RoleRank["admin"] >= RoleRank[new.minimumApproverRole]
    BY <2>1, <2>2, <2>3, <2>4
  <2> QED  BY <2>1, <2>5 DEF GatePasses
<1>6. \A i \in 1 .. 8 : GatePasses(Gates[i], new, after)
  <2>1. \A i \in 1 .. 8 : i = 1 \/ i = 2 \/ i = 3 \/ i = 4 \/ i = 5 \/ i = 6 \/ i = 7 \/ i = 8
    OBVIOUS
  <2> QED  BY <1>4, <1>5, <1>0, <2>1
<1>7. FailingGates(new, after) = {}
  BY <1>6 DEF FailingGates
<1> QED  BY <1>7, AllowedMeansNoGateFails DEF after

\* A PATCH turns a policy row into a policy row of the next version.
LEMMA MergedIsPolicy ==
  ASSUME NEW pol \in Policy, NEW patch \in Patches
  PROVE  Merged(pol, patch) \in Policy /\ Merged(pol, patch).policyVersion = pol.policyVersion + 1
<1>1. \A f \in DOMAIN patch : patch[f] \in FieldValues(f)
  BY PolicyAssumption
<1>2. \A f \in {"killSwitch", "enabled", "mockOnlyEnforced", "approvalRequired",
                "requireHumanReview", "requireEvidence", "requireValidation"} :
        \A old \in BOOLEAN : Field(patch, f, old) \in BOOLEAN
  BY <1>1 DEF Field, FieldValues
<1>3. Field(patch, "allowedActionTypes", pol.allowedActionTypes) \in SUBSET ActionTypes
  BY <1>1 DEF Field, FieldValues, Policy
<1>4. Field(patch, "minimumApproverRole", pol.minimumApproverRole)
        \in {"operator", "admin", "owner"}
  BY <1>1 DEF Field, FieldValues, Policy
<1>5. pol.policyVersion + 1 \in Nat
  BY DEF Policy
<1> QED  BY <1>2, <1>3, <1>4, <1>5 DEF Merged, MergedFields, Policy

-----------------------------------------------------------------------------
(* The inductive invariant *)

\* A lone row is as its only pending PATCH has read it, no snapshot is newer
\* than the rows written, and what queue() accepted was allowed.
PolicyInv ==
  /\ TypeOK
  /\ VersionCountsUpdates
  /\ \A u \in inFlight :
       /\ u.read.policyVersion <= 1 + saves[u.scope]
       /\ u.scope \in lone =>
            /\ u.read = stored[u.scope]
            /\ \A v \in inFlight : v.scope = u.scope => v = u
  /\ \A s \in Scopes : \A pol \in accepted[s] :
       Allowed(Decision(pol, ServiceRequest("ticket_note", FALSE)))

\* The seed writes version 1 and nothing is pending.
LEMMA InitPolicyInv == Init => PolicyInv
<1> SUFFICES ASSUME Init  PROVE PolicyInv
  OBVIOUS
<1>1. TypeOK
  BY PolicyAssumption DEF Init, TypeOK, Scopes
<1>2. VersionCountsUpdates
  BY PolicyAssumption DEF Init, VersionCountsUpdates
<1>3. inFlight = {} /\ \A s \in Scopes : accepted[s] = {}
  BY DEF Init
<1> QED  BY <1>1, <1>2, <1>3 DEF PolicyInv

\* BeginUpdate: the new snapshot is the row itself; a second one on the same
\* row takes the row out of lone.
LEMMA BeginUpdateKeeps ==
  ASSUME PolicyInv, NEW admin \in Admins, NEW s \in Seeded, NEW patch \in Patches,
         BeginUpdate(admin, s, patch)
  PROVE  PolicyInv'
<1> DEFINE new == [admin |-> admin, scope |-> s, read |-> stored[s], patch |-> patch]
<1>1. /\ inFlight' = inFlight \cup {new}
      /\ new.scope = s /\ new.read = stored[s]
      /\ updates[s] < MaxUpdates /\ updates' = [updates EXCEPT ![s] = @ + 1]
      /\ lone' = (IF \E u \in inFlight : u.scope = s THEN lone \ {s} ELSE lone)
      /\ stored' = stored /\ accepted' = accepted /\ saves' = saves
  BY DEF BeginUpdate
<1>2. new \in Request
  BY DEF PolicyInv, TypeOK, Request
<1> HIDE DEF new
<1>3. TypeOK'
  BY <1>1, <1>2, PolicyAssumption DEF PolicyInv, TypeOK
<1>4. lone' \subseteq lone
  BY <1>1
<1>5. VersionCountsUpdates'
  BY <1>1, <1>4 DEF PolicyInv, VersionCountsUpdates
<1>6. \A u \in inFlight' : u.read.policyVersion <= 1 + saves'[u.scope]
  BY <1>1 DEF PolicyInv, VersionCountsUpdates
<1>7. \A u \in inFlight' : u.scope \in lone' => u.read = stored'[u.scope]
  BY <1>1, <1>4 DEF PolicyInv
<1>8. \A u, v \in inFlight' : u.scope \in lone' /\ v.scope = u.scope => v = u
  BY <1>1, <1>4 DEF PolicyInv
<1>9. \A t \in Scopes : \A pol \in accepted'[t] :
        Allowed(Decision(pol, ServiceRequest("ticket_note", FALSE)))
  BY <1>1 DEF PolicyInv
<1> QED  BY <1>3, <1>5, <1>6, <1>7, <1>8, <1>9 DEF PolicyInv

\* SaveUpdate: on a lone row the version read is the version stored.
LEMMA SaveUpdateKeeps ==
  ASSUME PolicyInv, NEW u \in inFlight, SaveUpdate(u)
  PROVE  PolicyInv'
<1> DEFINE row == Merged(u.read, u.patch)
<1>1. /\ stored' = [stored EXCEPT ![u.scope] = row]
      /\ saves' = [saves EXCEPT ![u.scope] = @ + 1]
      /\ inFlight' = inFlight \ {u}
      /\ accepted' = accepted /\ updates' = updates /\ lone' = lone
  BY DEF SaveUpdate
<1>2. u.scope \in Seeded /\ u.read \in Policy /\ u.patch \in Patches
  BY DEF PolicyInv, TypeOK, Request
<1>3. row \in Policy /\ row.policyVersion = u.read.policyVersion + 1
  BY <1>2, MergedIsPolicy
<1>4. u.read.policyVersion \in Nat
  BY <1>2 DEF Policy
<1> HIDE DEF row
<1>5. TypeOK'
  BY <1>1, <1>2, <1>3 DEF PolicyInv, TypeOK
<1>6. stored \in [Seeded -> Policy] /\ saves \in [Seeded -> Nat]
      /\ \A s \in Seeded : stored[s].policyVersion \in Nat
  BY DEF PolicyInv, TypeOK, Policy
<1>7. /\ stored'[u.scope] = row /\ saves'[u.scope] = saves[u.scope] + 1
      /\ \A s \in Seeded \ {u.scope} : stored'[s] = stored[s] /\ saves'[s] = saves[s]
  BY <1>1, <1>2, <1>6
<1>8. u.read.policyVersion <= 1 + saves[u.scope]
      /\ (u.scope \in lone => u.read.policyVersion = 1 + saves[u.scope])
  BY <1>2 DEF PolicyInv, VersionCountsUpdates
<1>9. VersionCountsUpdates'
  <2> SUFFICES ASSUME NEW s \in Seeded
               PROVE  /\ stored'[s].policyVersion <= 1 + saves'[s]
                      /\ s \in lone => stored'[s].policyVersion = 1 + saves'[s]
    BY <1>1 DEF VersionCountsUpdates
  <2>1. CASE s = u.scope
    BY <2>1, <1>3, <1>4, <1>6, <1>7, <1>8
  <2>2. CASE s # u.scope
    BY <2>2, <1>7 DEF PolicyInv, VersionCountsUpdates
  <2> QED  BY <2>1, <2>2
<1>10. \A v \in inFlight' :
         /\ v.read.policyVersion <= 1 + saves'[v.scope]
         /\ v.scope \in lone' =>
              /\ v.read = stored'[v.scope]
              /\ \A w \in inFlight' : w.scope = v.scope => w = v
  <2> SUFFICES ASSUME NEW v \in inFlight, v # u
               PROVE  /\ v.read.policyVersion <= 1 + saves'[v.scope]
                      /\ v.scope \in lone =>
                           /\ v.read = stored'[v.scope]
                           /\ \A w \in inFlight : w.scope = v.scope => w = v
    BY <1>1
  <2>1. v.scope \in Seeded /\ v.read.policyVersion \in Nat
        /\ v.read.policyVersion <= 1 + saves[v.scope]
    BY DEF PolicyInv, TypeOK, Request, Policy
  <2>2. saves'[v.scope] >= saves[v.scope]
    BY <2>1, <1>6, <1>7
  <2>3. v.read.policyVersion <= 1 + saves'[v.scope]
    BY <2>1, <2>2, <1>5, <1>6 DEF TypeOK
  <2>4. v.scope \in lone => v.scope # u.scope
    BY DEF PolicyInv
  <2> QED  BY <2>1, <2>3, <2>4, <1>7 DEF PolicyInv
<1>11. \A s \in Scopes : \A pol \in accepted'[s] :
         Allowed(Decision(pol, ServiceRequest("ticket_note", FALSE)))
  BY <1>1 DEF PolicyInv
<1> QED  BY <1>5, <1>9, <1>10, <1>11 DEF PolicyInv

\* AbandonUpdate only forgets a request.
LEMMA AbandonUpdateKeeps ==
  ASSUME PolicyInv, NEW u \in inFlight, AbandonUpdate(u)
  PROVE  PolicyInv'
BY DEF PolicyInv, TypeOK, VersionCountsUpdates, AbandonUpdate

\* QueueItem remembers the row under which the item was allowed.
LEMMA QueueItemKeeps ==
  ASSUME PolicyInv, NEW s \in Scopes, QueueItem(s)
  PROVE  PolicyInv'
<1>1. /\ Allowed(QueueDecision(s))
      /\ accepted' = [accepted EXCEPT ![s] = IF s \in Seeded THEN {stored[s]} ELSE {}]
      /\ stored' = stored /\ inFlight' = inFlight /\ updates' = updates
      /\ saves' = saves /\ lone' = lone
  BY DEF QueueItem
<1>2. TypeOK'
  BY <1>1 DEF PolicyInv, TypeOK
<1>3. s \in Seeded => Allowed(Decision(stored[s], ServiceRequest("ticket_note", FALSE)))
  BY <1>1 DEF QueueDecision, Evaluate
<1>4. \A t \in Scopes : \A pol \in accepted'[t] :
        Allowed(Decision(pol, ServiceRequest("ticket_note", FALSE)))
  BY <1>1, <1>3 DEF PolicyInv, TypeOK
<1> QED  BY <1>1, <1>2, <1>4 DEF PolicyInv, VersionCountsUpdates

\* Every step keeps the invariant.
LEMMA NextKeeps == PolicyInv /\ [Next]_vars => PolicyInv'
<1> SUFFICES ASSUME PolicyInv, [Next]_vars  PROVE PolicyInv'
  OBVIOUS
<1>1. CASE \E admin \in Admins, s \in Seeded, patch \in Patches : BeginUpdate(admin, s, patch)
  BY <1>1, BeginUpdateKeeps
<1>2. CASE \E u \in inFlight : SaveUpdate(u) \/ AbandonUpdate(u)
  BY <1>2, SaveUpdateKeeps, AbandonUpdateKeeps
<1>3. CASE \E s \in Scopes : QueueItem(s)
  BY <1>3, QueueItemKeeps
<1>4. CASE UNCHANGED vars
  BY <1>4 DEF vars, PolicyInv, TypeOK, VersionCountsUpdates
<1> QED  BY <1>1, <1>2, <1>3, <1>4 DEF Next

LEMMA PolicyInvAlways == Spec => []PolicyInv
BY InitPolicyInv, NextKeeps, PTL DEF Spec

-----------------------------------------------------------------------------
(* What follows *)

\* Version numbers never overtake the writes, and count them on a lone row.
THEOREM VersionsCount == Spec => []VersionCountsUpdates
<1>1. PolicyInv => VersionCountsUpdates
  BY DEF PolicyInv
<1> QED  BY <1>1, PolicyInvAlways, PTL

\* What queue() let in, processClaimedOutbox() lets out, whatever the policy,
\* unless a gate was tightened.
THEOREM QueuedDeliverable == Spec => []QueuedStaysDeliverable
<1>1. PolicyInv => QueuedStaysDeliverable
  <2> SUFFICES ASSUME PolicyInv, NEW s \in Seeded, NEW pol \in accepted[s],
                      NoStricter(stored[s], pol)
               PROVE  Allowed(ProcessDecision(s))
    BY DEF QueuedStaysDeliverable
  <2>1. s \in Scopes
    BY PolicyAssumption
  <2>2. stored[s] \in Policy /\ pol \in Policy
        /\ Allowed(Decision(pol, ServiceRequest("ticket_note", FALSE)))
    BY <2>1 DEF PolicyInv, TypeOK
  <2>3. (s \in Verified) \in BOOLEAN
    OBVIOUS
  <2>4. Allowed(Decision(stored[s], ServiceRequest("ticket_note", s \in Verified)))
    BY <2>2, <2>3, LooserAllows
  <2> QED  BY <2>4 DEF ProcessDecision, Evaluate
<1> QED  BY <1>1, PolicyInvAlways, PTL

\* A PATCH that no other overlapped changes only the fields it names.
THEOREM LoneUpdates == Spec => LoneUpdatesKept
<1> DEFINE Kept ==
      \A s \in lone : \A f \in Changed(stored[s], stored'[s]) :
        \E u \in inFlight \ inFlight' : u.scope = s /\ f \in DOMAIN u.patch
<1>1. PolicyInv /\ [Next]_vars => [Kept]_vars
  <2> SUFFICES ASSUME PolicyInv, Next, NEW s \in lone, NEW f \in Changed(stored[s], stored'[s])
               PROVE  \E u \in inFlight \ inFlight' : u.scope = s /\ f \in DOMAIN u.patch
    OBVIOUS
  <2>1. stored'[s][f] # stored[s][f] /\ f \in Patchable
    BY DEF Changed
  <2>2. PICK u \in inFlight : SaveUpdate(u)
    BY <2>1 DEF Next, BeginUpdate, AbandonUpdate, QueueItem
  <2>3. /\ stored' = [stored EXCEPT ![u.scope] = Merged(u.read, u.patch)]
        /\ inFlight' = inFlight \ {u}
    BY <2>2 DEF SaveUpdate
  <2>4. u.scope = s /\ stored'[s] = Merged(u.read, u.patch)
    BY <2>1, <2>3 DEF PolicyInv, TypeOK
  <2>5. u.read = stored[s]
    BY <2>4 DEF PolicyInv
  <2>6. f \notin DOMAIN u.patch => Merged(u.read, u.patch)[f] = u.read[f]
    BY <2>1 DEF Patchable, Merged, MergedFields, Field
  <2> QED  BY <2>1, <2>3, <2>4, <2>5, <2>6
<1> QED  BY <1>1, PolicyInvAlways, PTL DEF Spec, LoneUpdatesKept

\* A connector reported ready is not policy-blocked when its items are
\* processed, whatever rows are stored: the report and the processing ask the
\* same row with the same arguments, and where the installation has none the
\* fallback blocks nothing.
THEOREM ReadinessHonest == Spec => []ReadinessIsHonest
<1>1. ReadinessIsHonest
  <2> SUFFICES ASSUME NEW c \in Connectors
               PROVE  /\ ReadyForMockDelivery(c) => Allowed(ProcessDecision(c))
                      /\ SandboxWritebackReady(c) /\ c \in Seeded =>
                           ProcessDecision(c) = "sandbox_allowed"
    BY DEF ReadinessIsHonest
  <2>1. CASE c \in Seeded
    BY <2>1 DEF ReadyForMockDelivery, SandboxWritebackReady, ReadinessDecision, ProcessDecision,
       Evaluate
  <2>2. CASE c \notin Seeded
    <3>1. Allowed(FallbackDecision)
      BY DEF Allowed, FallbackDecision, AllowedDecisions
    <3> QED BY <2>2, <3>1 DEF ProcessDecision, Evaluate
  <2> QED BY <2>1, <2>2
<1> QED BY <1>1, PTL

=============================================================================
