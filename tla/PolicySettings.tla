---------------------------- MODULE PolicySettings ----------------------------
(* The two panels that show and change policies: DeliveryPolicyPanel.tsx,     *)
(* with a copy of the list and of the policy chosen from it, and              *)
(* AdminPolicyPanel.tsx, with copies of a delivery policy and of the          *)
(* connector, AI and retention policies.  Each loads again whenever its       *)
(* delivery policy is set, and nothing stops a load that is under way from    *)
(* showing what it read before a change.  A policy is cut down to one switch. *)
EXTENDS WebTab, Sequences

CONSTANTS
    Deliveries,   \* delivery policies of the tenant
    Tabs,         \* what fetchAll loads, in its order: a sequence
    PolicyTools   \* what the administrator uses in the visit

TabKinds == {"delivery", "connector", "ai", "retention"}
Switches == TabKinds \ {"delivery"}
Policies == Deliveries \cup Switches

ASSUME PolicyAssumption ==
    /\ Tabs \in Seq(TabKinds) /\ Tabs # << >>
    /\ PolicyTools \subseteq {"panel", "editor", "validation", "readiness"}
    /\ Deliveries \cap TabKinds = {}

VARIABLES
    inForce,   \* the rows of the API
    chips,     \* policies of the delivery panel, once they have been fetched
    chosen,    \* selectedPolicy: a copy of a row, with its id as domain
    checks,    \* validation, readiness: the policy each was made for, as a set
    checking,  \* validationLoading, readinessLoading
    editor,    \* selectedDelivery and the three policies of the editor: copies
    savingIn,  \* the panels whose inputs are disabled
    changedIn  \* history: the policies each panel has changed

policyVars == <<inForce, chips, chosen, checks, checking, editor, savingIn, changedIn>>

Checks == {"validation", "readiness"}
Only(x, on) == [y \in {x} |-> on]
Updated(f, g) == [x \in DOMAIN f \cup DOMAIN g |-> IF x \in DOMAIN g THEN g[x] ELSE f[x]]

\* `id` is the policy a request is about, or the one selected when a load began.
PolicyTask(kind, step, id, left, data) ==
    [kind |-> kind, step |-> step, id |-> id, left |-> left, data |-> data]
Listing(selection) == PolicyTask("policies", "asked", selection, << >>, << >>)
FetchAll(selection) == PolicyTask("all", "asked", selection, Tabs, << >>)

PoliciesIdle ==
    /\ chips = << >> /\ chosen = << >> /\ editor = << >>
    /\ checks = [c \in Checks |-> {}]
    /\ checking = {} /\ savingIn = {}
    /\ changedIn = [panel |-> {}, editor |-> {}]

\* The cockpit shows both panels; the effects of both run.
PoliciesInit ==
    /\ inForce \in [Policies -> {FALSE}]
    /\ PoliciesIdle
    /\ tasks = One(Listing({})) (+) One(FetchAll({}))

----------------------------------------------------------------------------
\* A policy of the list is chosen: its copy is shown, earlier checks are gone,
\* and the list loads anew.
ChoosePolicy(d) ==
    /\ d \in DOMAIN chips
    /\ "panel" \in PolicyTools
    /\ Started
    /\ chosen' = Only(d, chips[d])
    /\ checks' = [c \in Checks |-> {}]
    /\ Waits(Listing({d}))
    /\ crossed' = (crossed \/ Loading("switch") \/ checking # {})
    /\ UNCHANGED <<inForce, chips, checking, editor, savingIn, changedIn>>

\* A switch of the delivery panel: handleUpdate, up to its await.
SwitchPolicy(d) ==
    /\ d \in DOMAIN chosen
    /\ "panel" \in PolicyTools
    /\ "panel" \notin savingIn
    /\ Started
    /\ savingIn' = savingIn \cup {"panel"}
    /\ Waits(PolicyTask("switch", "asked", {d}, << >>, Only(d, ~chosen[d])))
    /\ crossed' = (crossed \/ Loading("policies"))
    /\ UNCHANGED <<inForce, chips, chosen, checks, checking, editor, changedIn>>

\* The buttons Validate Policy and Connector Readiness.
CheckPolicy(c) ==
    /\ c \in PolicyTools
    /\ chosen # << >>
    /\ c \notin checking
    /\ Started
    /\ checking' = checking \cup {c}
    /\ Waits(PolicyTask(c, "asked", DOMAIN chosen, << >>, << >>))
    /\ crossed' = (crossed \/ Loading("switch"))
    /\ UNCHANGED <<inForce, chips, chosen, checks, editor, savingIn, changedIn>>

\* A switch on a tab of the editor; one request at a time over all tabs.
EditPolicy(p) ==
    /\ p \in DOMAIN editor
    /\ "editor" \in PolicyTools
    /\ "editor" \notin savingIn
    /\ Started
    /\ savingIn' = savingIn \cup {"editor"}
    /\ Waits(PolicyTask("edit", "asked", {p}, << >>, Only(p, ~editor[p])))
    /\ crossed' = (crossed \/ Loading("all"))
    /\ UNCHANGED <<inForce, chips, chosen, checks, checking, editor, changedIn>>

----------------------------------------------------------------------------
PanelOf(t) == IF t.kind \in {"all", "edit"} THEN "editor" ELSE "panel"

\* The API has made a change.
PolicyChanged(t) ==
    /\ t.step = "asked" /\ t.kind \in {"switch", "edit"}
    /\ inForce' = Updated(inForce, t.data)
    /\ changedIn' = [changedIn EXCEPT ![PanelOf(t)] = @ \cup t.id]
    /\ GoesOn(t, [t EXCEPT !.step = "served"])
    /\ UNCHANGED <<chips, chosen, checks, checking, editor, savingIn, crossed>>

\* What a load asks for next.
Wanted(t) == IF t.kind = "policies" \/ Head(t.left) = "delivery" THEN Deliveries ELSE {Head(t.left)}

\* The API has read what a load asks for.
PolicyRead(t) ==
    /\ t.step = "asked" /\ t.kind \in {"policies", "all"}
    /\ GoesOn(t, [t EXCEPT !.step = "served", !.data = [p \in Wanted(t) |-> inForce[p]]])
    /\ UNCHANGED <<policyVars, crossed>>

\* fetchPolicies ends: the list is shown, and without a policy chosen when it
\* began the first one is chosen, for which the list loads anew.
PoliciesListed(t) ==
    /\ t.kind = "policies" /\ t.step = "served"
    /\ chips' = t.data
    /\ IF t.id = {}
       THEN \E d \in Deliveries :
              chosen' = Only(d, t.data[d]) /\ GoesOn(t, Listing({d}))
       ELSE Ended(t) /\ UNCHANGED chosen
    /\ UNCHANGED <<inForce, checks, checking, editor, savingIn, changedIn, crossed>>

\* handleUpdate ends: the policy answered is chosen, whichever was meanwhile.
Switched(t) ==
    /\ t.kind = "switch" /\ t.step = "served"
    /\ chosen' = t.data
    /\ chips' = Updated(chips, t.data)
    /\ savingIn' = savingIn \ {"panel"}
    /\ GoesOn(t, Listing(t.id))
    /\ UNCHANGED <<inForce, checks, checking, editor, changedIn, crossed>>

\* A check is answered; one that fails is ignored.
PolicyChecked(t) ==
    /\ t.kind \in Checks
    /\ checks' \in {checks, [checks EXCEPT ![t.kind] = t.id]}
    /\ checking' = checking \ {t.kind}
    /\ Ended(t)
    /\ UNCHANGED <<inForce, chips, chosen, editor, savingIn, changedIn, crossed>>

\* fetchAll goes on with its next request, if there is one.
NextTab(t) ==
    IF Len(t.left) = 1 THEN EmptyBag
    ELSE One([t EXCEPT !.step = "asked", !.left = Tail(t.left), !.data = << >>])

\* One request of fetchAll is answered.  The list sets selectedDelivery only
\* when there was none, and then everything loads anew.
TabLoaded(t) ==
    /\ t.kind = "all" /\ t.step = "served"
    /\ IF Head(t.left) # "delivery"
       THEN /\ editor' = Updated(editor, t.data)
            /\ tasks' = (tasks (-) One(t)) (+) NextTab(t)
       ELSE IF t.id # {}
       THEN /\ tasks' = (tasks (-) One(t)) (+) NextTab(t)
            /\ UNCHANGED editor
       ELSE \E d \in Deliveries :
              /\ editor' = Updated(editor, Only(d, t.data[d]))
              /\ tasks' = (tasks (-) One(t)) (+) NextTab(t) (+) One(FetchAll({d}))
    /\ UNCHANGED <<inForce, chips, chosen, checks, checking, savingIn, changedIn, crossed>>

\* A change made in the editor is answered; everything loads anew after one of
\* the delivery policy.
Edited(t) ==
    /\ t.kind = "edit" /\ t.step = "served"
    /\ editor' = Updated(editor, t.data)
    /\ savingIn' = savingIn \ {"editor"}
    /\ IF t.id \subseteq Deliveries THEN GoesOn(t, FetchAll(t.id)) ELSE Ended(t)
    /\ UNCHANGED <<inForce, chips, chosen, checks, checking, changedIn, crossed>>

\* A load or a change fails, or its answer is lost: what is shown stays.
PolicyRequestFails(t) ==
    /\ t.kind \notin Checks
    /\ savingIn' = IF t.kind \in {"switch", "edit"} THEN savingIn \ {PanelOf(t)} ELSE savingIn
    /\ crossed' = (crossed \/ (t.kind \in {"switch", "edit"} /\ t.step = "served"))
    /\ Ended(t)
    /\ UNCHANGED <<inForce, chips, chosen, checks, checking, editor, changedIn>>

PoliciesNext ==
    \/ \E d \in Deliveries : ChoosePolicy(d) \/ SwitchPolicy(d)
    \/ \E c \in Checks : CheckPolicy(c)
    \/ \E p \in Policies : EditPolicy(p)
    \/ /\ UNCHANGED requests
       /\ \E t \in InFlight :
             \/ PolicyChanged(t) \/ PolicyRead(t) \/ PoliciesListed(t) \/ Switched(t) \/ PolicyChecked(t)
             \/ TabLoaded(t) \/ Edited(t) \/ PolicyRequestFails(t)

----------------------------------------------------------------------------
PoliciesTypeOK ==
    /\ TabTypeOK
    /\ inForce \in [Policies -> BOOLEAN]
    /\ chips = << >> \/ chips \in [Deliveries -> BOOLEAN]
    /\ chosen = << >> \/ \E d \in Deliveries : chosen \in [{d} -> BOOLEAN]
    /\ checks \in [Checks -> SUBSET Deliveries] /\ checking \subseteq Checks
    /\ DOMAIN editor \subseteq Policies /\ \A p \in DOMAIN editor : editor[p] \in BOOLEAN
    /\ savingIn \subseteq {"panel", "editor"}
    /\ changedIn \in [{"panel", "editor"} -> SUBSET Policies]

\* When nothing is under way each panel shows the policies as they are stored,
\* through every change, reload and failure: unless a change overlapped a load
\* of its panel or lost its answer, and except for policies that the other panel changed, which a
\* load does not refresh (fetchPolicies and fetchAll keep a selected policy).
PoliciesAsStored ==
    tasks = EmptyBag /\ ~crossed =>
      /\ \A d \in DOMAIN chips \ changedIn.editor : chips[d] = inForce[d]
      /\ \A d \in DOMAIN chosen \ changedIn.editor : chosen[d] = inForce[d]
      /\ \A p \in DOMAIN editor \ changedIn.panel : editor[p] = inForce[p]

\* A validation or readiness report is shown under the policy it was made for,
\* unless another policy was chosen or changed while it was under way.
ChecksOfChosen ==
    ~crossed => \A c \in Checks : checks[c] \subseteq DOMAIN chosen
=============================================================================
