-------------------------- MODULE AiRequestsProofs --------------------------
(***************************************************************************)
(* Theorems of AiRequests and of the policies under it, for every set of   *)
(* administrators, requests, bodies and providers.                         *)
(*                                                                         *)
(* What is left of a request is always sorted by Rank, so the first of the *)
(* remaining awaits says which of them are over: a request whose "policy"  *)
(* is behind it was permitted, one whose "prompt" is behind it has seen    *)
(* its question, one whose "retention" is behind it has read what it may   *)
(* keep.  None of these facts is undone by another request.                *)
(***************************************************************************)
EXTENDS AiRequests, SequenceTheorems, TLAPS

-----------------------------------------------------------------------------
(* Policies *)

LEMMA DefaultTyped ==
  ASSUME NEW t \in Types
  PROVE  Default[t] \in Config[t] /\ Default[t].version = 1
<1> USE PoliciesAssumption
<1>1. CASE t = "ai"
  BY <1>1 DEF Default, Config
<1>2. CASE t = "retention"
  BY <1>2 DEF Default, Config, Modes
<1>3. CASE t = "connector"
  BY <1>3 DEF Default, Config
<1> QED  BY <1>1, <1>2, <1>3

LEMMA ConfigVersion ==
  ASSUME NEW t \in Types, NEW config \in Config[t]
  PROVE  config.version \in Nat /\ "version" \in DOMAIN config
<1> USE PoliciesAssumption
<1>1. CASE t = "ai"
  BY <1>1 DEF Config
<1>2. CASE t = "retention"
  BY <1>2 DEF Config
<1>3. CASE t = "connector"
  BY <1>3 DEF Config
<1> QED  BY <1>1, <1>2, <1>3

\* A merge keeps the shape of the policy and counts one version.
LEMMA MergedTyped ==
  ASSUME NEW t \in Types, NEW config \in Config[t], NEW body \in Bodies[t]
  PROVE  /\ Merged(config, body) \in Config[t]
         /\ Merged(config, body).version = config.version + 1
<1> DEFINE M == Merged(config, body)
<1>1. M = [f \in DOMAIN config |-> IF f = "version" THEN config.version + 1
                                   ELSE IF f \in DOMAIN body THEN body[f] ELSE config[f]]
  BY DEF Merged
<1>2. \A f \in DOMAIN body : f # "version" /\ [Default[t] EXCEPT ![f] = body[f]] \in Config[t]
  BY PoliciesAssumption
<1>3. M.version = config.version + 1
  BY <1>1, ConfigVersion
<1>4. CASE t = "ai"
  <2>1. /\ DOMAIN config = {"draft", "providers", "version"}
        /\ config.draft \in BOOLEAN /\ config.providers \in SUBSET AiProviders
        /\ config.version \in Nat
    BY <1>4 DEF Config
  <2>2. DOMAIN Default[t] = {"draft", "providers", "version"}
    BY <1>4 DEF Default
  <2>3. "draft" \in DOMAIN body => body["draft"] \in BOOLEAN
    BY <1>2, <1>4, <2>2 DEF Config
  <2>4. "providers" \in DOMAIN body => body["providers"] \in SUBSET AiProviders
    BY <1>2, <1>4, <2>2 DEF Config
  <2>5. M["draft"] \in BOOLEAN /\ M["providers"] \in SUBSET AiProviders /\ M["version"] \in Nat
    BY <1>1, <2>1, <2>3, <2>4
  <2>6. M = [draft |-> M["draft"], providers |-> M["providers"], version |-> M["version"]]
    BY <1>1, <2>1
  <2> QED  BY <2>5, <2>6, <1>3, <1>4 DEF Config
<1>5. CASE t = "retention"
  <2>1. /\ DOMAIN config = {"enabled", "prompt", "output", "version"}
        /\ config.enabled \in BOOLEAN /\ config.prompt \in Modes /\ config.output \in Modes
        /\ config.version \in Nat
    BY <1>5 DEF Config
  <2>2. DOMAIN Default[t] = {"enabled", "prompt", "output", "version"}
    BY <1>5 DEF Default
  <2>3. "enabled" \in DOMAIN body => body["enabled"] \in BOOLEAN
    BY <1>2, <1>5, <2>2 DEF Config
  <2>4. "prompt" \in DOMAIN body => body["prompt"] \in Modes
    BY <1>2, <1>5, <2>2 DEF Config
  <2>5. "output" \in DOMAIN body => body["output"] \in Modes
    BY <1>2, <1>5, <2>2 DEF Config
  <2>6. M["enabled"] \in BOOLEAN /\ M["prompt"] \in Modes /\ M["output"] \in Modes /\ M["version"] \in Nat
    BY <1>1, <2>1, <2>3, <2>4, <2>5
  <2>7. M = [enabled |-> M["enabled"], prompt |-> M["prompt"], output |-> M["output"],
             version |-> M["version"]]
    BY <1>1, <2>1
  <2> QED  BY <2>6, <2>7, <1>3, <1>5 DEF Config
<1>6. CASE t = "connector"
  <2>1. /\ DOMAIN config = {"killSwitch", "version"}
        /\ config.killSwitch \in BOOLEAN /\ config.version \in Nat
    BY <1>6 DEF Config
  <2>2. DOMAIN Default[t] = {"killSwitch", "version"}
    BY <1>6 DEF Default
  <2>3. "killSwitch" \in DOMAIN body => body["killSwitch"] \in BOOLEAN
    BY <1>2, <1>6, <2>2 DEF Config
  <2>4. M["killSwitch"] \in BOOLEAN /\ M["version"] \in Nat
    BY <1>1, <2>1, <2>3
  <2>5. M = [killSwitch |-> M["killSwitch"], version |-> M["version"]]
    BY <1>1, <2>1
  <2> QED  BY <2>4, <2>5, <1>3, <1>6 DEF Config
<1> QED  BY <1>4, <1>5, <1>6, PoliciesAssumption

-----------------------------------------------------------------------------
(* The policies' invariant *)

Saves(t) == [call : {"find", "write"}, type : {t}, config : Config[t], row : Nat]

RowsOf(t) == [config : Config[t], version : Nat]

PolicyTypes ==
  /\ rows = [t \in Types |-> rows[t]]
  /\ \A t \in Types : rows[t] \in Seq(RowsOf(t))
  /\ intended = [t \in Types |-> intended[t]]
  /\ \A t \in Types : intended[t] \in Config[t]
  /\ saving = [p \in Admins |-> saving[p]]
  /\ \A p \in Admins : \E t \in Types : saving[p] \in Seq(Saves(t))
  /\ puts \in 0 .. MaxUpdates
  /\ lone \subseteq Types

\* A save that found a row found one that is there: rows are never removed,
\* and only the first of a request's saves can have looked for it.
RowsFound ==
  \A p \in Admins :
    /\ saving[p] # <<>> => saving[p][1].row <= Len(rows[saving[p][1].type])
    /\ \A k \in 2 .. Len(saving[p]) : saving[p][k].row = 0

Stands(t) ==
  \/ rows[t] = <<>> /\ intended[t] = Default[t]
  \/ /\ Len(rows[t]) = 1
     /\ rows[t][1] = [config |-> intended[t], version |-> intended[t].version]

\* What is left of the only request for a policy: the saves of a first PUT,
\* or the one save that makes the row what was intended.
Planned(t, plan) ==
  /\ plan[1].call = "write" => plan[1].row = Len(rows[t])
  /\ \/ /\ Len(plan) = 2
        /\ rows[t] = <<>>
        /\ plan[1].config = Default[t]
        /\ plan[2].call = "find"
        /\ plan[2].config = intended[t]
        /\ intended[t].version = 2
     \/ /\ Len(plan) = 1
        /\ plan[1].config = intended[t]
        /\ \/ rows[t] = <<>> /\ intended[t] = Default[t]
           \/ Len(rows[t]) = 1 /\ intended[t].version = rows[t][1].version + 1

LoneInv ==
  \A t \in lone :
    /\ \A p, q \in Saving(t) : p = q
    /\ Saving(t) = {} => Stands(t)
    /\ \A p \in Saving(t) : Planned(t, saving[p])

PolicyInv == PolicyTypes /\ RowsFound /\ LoneInv

LEMMA SavingTyped ==
  ASSUME PolicyTypes, NEW t \in Types, NEW p \in Admins, saving[p] # <<>>, saving[p][1].type = t
  PROVE  saving[p] \in Seq(Saves(t)) /\ saving[p][1] \in Saves(t)
<1>1. PICK u \in Types : saving[p] \in Seq(Saves(u))
  BY DEF PolicyTypes
<1>2. saving[p][1] \in Saves(u)
  BY <1>1
<1>3. u = t
  BY <1>2 DEF Saves
<1> QED  BY <1>1, <1>2, <1>3

LEMMA HeadType ==
  ASSUME PolicyTypes, NEW p \in Admins, saving[p] # <<>>
  PROVE  saving[p][1].type \in Types /\ Head(saving[p]) = saving[p][1]
<1>1. PICK u \in Types : saving[p] \in Seq(Saves(u))
  BY DEF PolicyTypes
<1>2. saving[p][1] \in Saves(u) /\ Head(saving[p]) = saving[p][1]
  BY <1>1
<1> QED  BY <1>2 DEF Saves

LEMMA PolicyInitInv == PolicyInit => PolicyInv
<1> SUFFICES ASSUME PolicyInit PROVE PolicyInv
  OBVIOUS
<1>1. PolicyTypes
  <2>1. \A t \in Types : rows[t] \in Seq(RowsOf(t)) /\ intended[t] \in Config[t]
    BY DefaultTyped DEF PolicyInit
  <2>2. \A p \in Admins : saving[p] \in Seq(Saves("ai"))
    BY DEF PolicyInit
  <2>3. "ai" \in Types
    BY AiAssumption
  <2> QED  BY <2>1, <2>2, <2>3, PoliciesAssumption DEF PolicyInit, PolicyTypes
<1>2. RowsFound
  BY DEF PolicyInit, RowsFound
<1>3. \A t \in Types : Saving(t) = {} /\ Stands(t)
  BY DEF PolicyInit, Saving, Stands
<1> QED  BY <1>1, <1>2, <1>3 DEF PolicyInit, PolicyInv, LoneInv

\* A request begins: another policy's requests are as they were, and its own
\* policy stays lone only if it has no other.
LEMMA BeganStep ==
  ASSUME PolicyInv, NEW p \in Admins, NEW t \in Types, NEW calls \in Seq(Saves(t)), calls # <<>>,
         Began(p, t, calls)
  PROVE  /\ saving' = [saving EXCEPT ![p] = calls]
         /\ saving' = [q \in Admins |-> saving'[q]]
         /\ \A q \in Admins : \E u \in Types : saving'[q] \in Seq(Saves(u))
         /\ lone' \subseteq lone
         /\ \A u \in Types \ {t} : Saving(u)' = Saving(u) /\ \A q \in Saving(u) : saving'[q] = saving[q]
         /\ t \in lone' => Saving(t) = {} /\ Saving(t)' = {p} /\ saving'[p] = calls
<1>1. saving[p] = <<>> /\ saving' = [saving EXCEPT ![p] = calls]
  BY DEF Began
<1>2. saving = [q \in Admins |-> saving[q]] /\ \A q \in Admins : \E u \in Types : saving[q] \in Seq(Saves(u))
  BY DEF PolicyInv, PolicyTypes
<1>3. \A q \in Admins : saving'[q] = IF q = p THEN calls ELSE saving[q]
  BY <1>1, <1>2
<1>4. calls[1] \in Saves(t) /\ Head(calls) = calls[1]
  OBVIOUS
<1>5. Head(calls).type = t
  BY <1>4 DEF Saves
<1>6. \A u \in Types \ {t} : Saving(u)' = Saving(u) /\ \A q \in Saving(u) : saving'[q] = saving[q]
  BY <1>1, <1>3, <1>5 DEF Saving
<1>7. lone' \subseteq lone /\ (t \in lone' => Saving(t) = {})
  BY DEF Began
<1>8. Saving(t) = {} => Saving(t)' = {p}
  BY <1>1, <1>3, <1>5 DEF Saving
<1>9. saving' = [q \in Admins |-> saving'[q]]
  BY <1>1, <1>2
<1>10. \A q \in Admins : \E u \in Types : saving'[q] \in Seq(Saves(u))
  BY <1>2, <1>3
<1> QED  BY <1>1, <1>3, <1>6, <1>7, <1>8, <1>9, <1>10

\* Beginning keeps the invariant if the plan fits the policy.
LEMMA BeganKeeps ==
  ASSUME PolicyInv, NEW p \in Admins, NEW t \in Types, NEW calls \in Seq(Saves(t)), calls # <<>>,
         Began(p, t, calls), UNCHANGED rows,
         \A k \in 1 .. Len(calls) : calls[k].row = 0,
         intended' = [intended EXCEPT ![t] = intended'[t]], intended'[t] \in Config[t],
         puts' \in 0 .. MaxUpdates,
         t \in lone /\ Saving(t) = {} => Planned(t, calls)'
  PROVE  PolicyInv'
<1>1. /\ saving' = [saving EXCEPT ![p] = calls]
      /\ saving' = [q \in Admins |-> saving'[q]]
      /\ \A q \in Admins : \E u \in Types : saving'[q] \in Seq(Saves(u))
      /\ lone' \subseteq lone
      /\ \A u \in Types \ {t} : Saving(u)' = Saving(u) /\ \A q \in Saving(u) : saving'[q] = saving[q]
      /\ t \in lone' => Saving(t) = {} /\ Saving(t)' = {p} /\ saving'[p] = calls
  BY BeganStep
<1>2. PolicyTypes'
  <2>1. /\ rows' = [u \in Types |-> rows'[u]]
        /\ \A u \in Types : rows'[u] \in Seq(RowsOf(u))
    BY DEF PolicyInv, PolicyTypes
  <2>2. /\ intended' = [u \in Types |-> intended'[u]]
        /\ \A u \in Types : intended'[u] \in Config[u]
    BY DEF PolicyInv, PolicyTypes
  <2>3. lone' \subseteq Types
    BY <1>1 DEF PolicyInv, PolicyTypes
  <2> QED  BY <1>1, <2>1, <2>2, <2>3 DEF PolicyTypes, Saves, RowsOf
<1>3. RowsFound'
  <2> SUFFICES ASSUME NEW q \in Admins
               PROVE  /\ saving'[q] # <<>> => saving'[q][1].row <= Len(rows'[saving'[q][1].type])
                      /\ \A k \in 2 .. Len(saving'[q]) : saving'[q][k].row = 0
    BY DEF RowsFound
  <2>1. CASE q = p
    <3>1. saving'[q] = calls /\ calls[1] \in Saves(t) /\ Len(calls) \in Nat /\ Len(calls) >= 1
      BY <1>1, <2>1 DEF PolicyInv, PolicyTypes
    <3>2. calls[1].type = t /\ Len(rows'[t]) \in Nat
      BY <3>1 DEF Saves, PolicyInv, PolicyTypes
    <3> QED  BY <3>1, <3>2
  <2>2. CASE q # p
    <3>1. saving'[q] = saving[q]
      BY <1>1, <2>2 DEF PolicyInv, PolicyTypes
    <3> QED  BY <3>1 DEF PolicyInv, RowsFound
  <2> QED  BY <2>1, <2>2
<1>4. LoneInv'
  <2> SUFFICES ASSUME NEW u \in lone'
               PROVE  /\ \A x, y \in Saving(u)' : x = y
                      /\ Saving(u)' = {} => Stands(u)'
                      /\ \A q \in Saving(u)' : Planned(u, saving[q])'
    BY DEF LoneInv
  <2>1. u \in lone /\ u \in Types
    BY <1>1 DEF PolicyInv, PolicyTypes
  <2>2. CASE u = t
    BY <1>1, <2>1, <2>2
  <2>3. CASE u # t
    <3>1. intended'[u] = intended[u] /\ rows' = rows
      BY <2>1, <2>3 DEF PolicyInv, PolicyTypes
    <3>2. Saving(u)' = Saving(u) /\ \A q \in Saving(u) : saving'[q] = saving[q]
      BY <1>1, <2>1, <2>3
    <3> QED  BY <2>1, <3>1, <3>2 DEF PolicyInv, LoneInv, Stands, Planned
  <2> QED  BY <2>2, <2>3
<1> QED  BY <1>2, <1>3, <1>4 DEF PolicyInv

LEMMA FindTyped ==
  ASSUME NEW t \in Types, NEW config \in Config[t]
  PROVE  /\ Find(t, config) \in Saves(t)
         /\ Find(t, config).call = "find" /\ Find(t, config).row = 0
         /\ Find(t, config).config = config
BY DEF Find, Saves

LEMMA GetPolicyStep ==
  ASSUME PolicyInv, NEW p \in Admins, NEW t \in Types, GetPolicy(p, t)
  PROVE  PolicyInv'
<1> DEFINE calls == <<Find(t, Default[t])>>
<1>1. calls \in Seq(Saves(t)) /\ calls # <<>> /\ Len(calls) = 1 /\ calls[1] = Find(t, Default[t])
  BY DefaultTyped, FindTyped
<1>2. /\ Began(p, t, calls) /\ rows[t] = <<>>
      /\ UNCHANGED <<rows, intended, puts>>
  BY DEF GetPolicy
<1>3. ASSUME t \in lone /\ Saving(t) = {}
      PROVE  Planned(t, calls)'
  <2>1. Stands(t)
    BY <1>3 DEF PolicyInv, LoneInv
  <2>2. rows'[t] = <<>> /\ intended'[t] = Default[t]
    BY <1>2, <2>1 DEF Stands
  <2> QED  BY <1>1, <2>2, DefaultTyped, FindTyped DEF Planned
<1>4. /\ intended' = [intended EXCEPT ![t] = intended'[t]]
      /\ intended'[t] \in Config[t] /\ puts' \in 0 .. MaxUpdates
  BY <1>2 DEF PolicyInv, PolicyTypes
<1>5. \A k \in 1 .. Len(calls) : calls[k].row = 0
  BY <1>1, DefaultTyped, FindTyped
<1> HIDE DEF calls
<1> QED  BY <1>1, <1>2, <1>3, <1>4, <1>5, BeganKeeps

LEMMA UpdatePolicyStep ==
  ASSUME PolicyInv, NEW p \in Admins, NEW t \in Types, NEW body \in Bodies[t], UpdatePolicy(p, t, body)
  PROVE  PolicyInv'
<1> DEFINE D == Default[t]
           first == <<Find(t, D), Find(t, Merged(D, body))>>
           later(i) == <<Find(t, Merged(rows[t][i].config, body))>>
<1>1. PICK i \in Found(t) : Began(p, t, IF i = 0 THEN first ELSE later(i))
  BY DEF UpdatePolicy
<1>2. /\ intended' = [intended EXCEPT ![t] = Merged(intended[t], body)]
      /\ puts < MaxUpdates /\ puts' = puts + 1 /\ rows' = rows
  BY DEF UpdatePolicy
<1>3. intended[t] \in Config[t] /\ intended'[t] = Merged(intended[t], body)
  BY <1>2 DEF PolicyInv, PolicyTypes
<1>4. /\ intended' = [intended EXCEPT ![t] = intended'[t]]
      /\ intended'[t] \in Config[t] /\ puts' \in 0 .. MaxUpdates
  BY <1>2, <1>3, MergedTyped, PoliciesAssumption DEF PolicyInv, PolicyTypes
<1>5. D \in Config[t] /\ D.version = 1
  BY DefaultTyped
<1>6. Merged(D, body) \in Config[t] /\ Merged(D, body).version = 2
  BY <1>5, MergedTyped
<1>7. t \in lone /\ Saving(t) = {} => Stands(t)
  BY DEF PolicyInv, LoneInv
<1>8. rows[t] \in Seq(RowsOf(t))
  BY DEF PolicyInv, PolicyTypes
<1>9. CASE i = 0
  <2>1. rows[t] = <<>>
    BY <1>8, <1>9 DEF Found
  <2>2. first \in Seq(Saves(t)) /\ first # <<>> /\ Len(first) = 2
        /\ first[1] = Find(t, D) /\ first[2] = Find(t, Merged(D, body))
    BY <1>5, <1>6, FindTyped
  <2>3. first[1].row = 0 /\ first[1].call = "find" /\ first[1].config = D
        /\ first[2].call = "find" /\ first[2].row = 0 /\ first[2].config = Merged(D, body)
    BY <1>5, <1>6, <2>2, FindTyped
  <2>4. ASSUME t \in lone /\ Saving(t) = {}
        PROVE  Planned(t, first)'
    <3>1. intended[t] = D
      BY <1>7, <2>1, <2>4 DEF Stands
    <3>2. intended'[t] = Merged(D, body) /\ rows'[t] = <<>>
      BY <1>2, <1>3, <2>1, <3>1
    <3> HIDE DEF first, D
    <3> QED  BY <1>6, <2>2, <2>3, <3>2 DEF Planned, D
  <2>5. Began(p, t, first)
    <3> HIDE DEF first
    <3> QED  BY <1>1, <1>9
  <2>6. \A k \in 1 .. Len(first) : first[k].row = 0
    <3> HIDE DEF first
    <3> QED  BY <2>2, <2>3
  <2> HIDE DEF first, D
  <2> QED  BY <1>2, <1>4, <2>2, <2>4, <2>5, <2>6, BeganKeeps
<1>10. CASE i # 0
  <2>0. PICK new : new = Merged(rows[t][i].config, body)
    OBVIOUS
  <2> DEFINE plan == <<Find(t, new)>>
  <2>1. i \in DOMAIN rows[t] /\ rows[t] # <<>> /\ rows[t][i] \in RowsOf(t)
    BY <1>1, <1>8, <1>10 DEF Found
  <2>2. rows[t][i].config \in Config[t]
    BY <2>1 DEF RowsOf
  <2>3. new \in Config[t] /\ new.version = rows[t][i].config.version + 1
    BY <2>0, <2>2, MergedTyped
  <2>4. Began(p, t, plan)
    BY <1>1, <1>10, <2>0
  <2>5. plan \in Seq(Saves(t)) /\ plan # <<>> /\ Len(plan) = 1 /\ plan[1] = Find(t, new)
    BY <2>3, FindTyped
  <2>6. plan[1].row = 0 /\ plan[1].call = "find" /\ plan[1].config = new
    BY <2>3, <2>5, FindTyped
  <2>7. ASSUME t \in lone /\ Saving(t) = {}
        PROVE  Planned(t, plan)'
    <3>1. Len(rows[t]) = 1 /\ rows[t][1] = [config |-> intended[t], version |-> intended[t].version]
      BY <1>7, <2>1, <2>7 DEF Stands
    <3>2. i = 1 /\ rows[t][i].config = intended[t] /\ rows[t][1].version = intended[t].version
      BY <2>1, <3>1, <1>8
    <3>3. intended'[t] = new /\ rows'[t] = rows[t]
      BY <1>2, <1>3, <2>0, <3>2
    <3>4. intended'[t].version = rows[t][1].version + 1
      BY <2>3, <3>2, <3>3
    <3> HIDE DEF plan
    <3> QED  BY <2>5, <2>6, <3>1, <3>3, <3>4 DEF Planned
  <2>8. \A k \in 1 .. Len(plan) : plan[k].row = 0
    <3> HIDE DEF plan
    <3> QED  BY <2>5, <2>6
  <2> HIDE DEF plan
  <2> QED  BY <1>2, <1>4, <2>4, <2>5, <2>7, <2>8, BeganKeeps
<1> QED  BY <1>9, <1>10

\* What one administrator's request does to its own plan leaves the other
\* policies, and the other requests for this one, as they were.
LEMMA OtherSaves ==
  ASSUME PolicyTypes, NEW p \in Admins, saving[p] # <<>>,
         NEW plan, saving' = [saving EXCEPT ![p] = plan],
         plan # <<>> => Head(plan).type = saving[p][1].type
  PROVE  /\ saving' = [q \in Admins |-> saving'[q]] /\ saving'[p] = plan
         /\ \A q \in Admins \ {p} : saving'[q] = saving[q]
         /\ \A t \in Types \ {saving[p][1].type} : Saving(t)' = Saving(t) /\ p \notin Saving(t)
         /\ p \in Saving(saving[p][1].type)
         /\ \A q \in Admins \ {p} : \A t \in Types : q \in Saving(t)' <=> q \in Saving(t)
<1>1. saving = [q \in Admins |-> saving[q]]
  BY DEF PolicyTypes
<1>2. \A q \in Admins : saving'[q] = IF q = p THEN plan ELSE saving[q]
  BY <1>1
<1>3. saving[p][1].type \in Types /\ Head(saving[p]) = saving[p][1]
  BY HeadType
<1>4. \A t \in Types \ {saving[p][1].type} : p \notin Saving(t) /\ p \notin Saving(t)'
  BY <1>2, <1>3 DEF Saving
<1>5. \A q \in Admins \ {p} : \A t \in Types : q \in Saving(t)' <=> q \in Saving(t)
  BY <1>2 DEF Saving
<1>6. \A t \in Types : Saving(t) \subseteq Admins /\ Saving(t)' \subseteq Admins
  BY DEF Saving
<1>7. p \in Saving(saving[p][1].type)
  BY <1>3 DEF Saving
<1>8. ASSUME NEW t \in Types \ {saving[p][1].type} PROVE Saving(t)' = Saving(t)
  <2>1. \A q \in Admins : q \in Saving(t)' <=> q \in Saving(t)
    BY <1>4, <1>5
  <2> QED  BY <1>6, <2>1
<1>9. saving' = [q \in Admins |-> saving'[q]]
  BY <1>1
<1> QED  BY <1>2, <1>4, <1>5, <1>7, <1>8, <1>9

LEMMA FindRowStep ==
  ASSUME PolicyInv, NEW p \in Admins, FindRow(p)
  PROVE  PolicyInv'
<1>1. PICK t : t = saving[p][1].type
  OBVIOUS
<1>2. saving[p] # <<>> /\ UNCHANGED <<rows, intended, puts, lone>>
  BY DEF FindRow
<1>3. t \in Types /\ Head(saving[p]) = saving[p][1] /\ saving[p] \in Seq(Saves(t)) /\ saving[p][1] \in Saves(t)
  BY <1>1, <1>2, HeadType, SavingTyped DEF PolicyInv
<1>4. PICK i \in Found(t) :
        saving' = [saving EXCEPT ![p][1].call = "write", ![p][1].row = i]
  BY <1>1, <1>3 DEF FindRow
<1>5. PICK plan : plan = [saving[p] EXCEPT ![1] = [saving[p][1] EXCEPT !.call = "write", !.row = i]]
  OBVIOUS
<1>6. saving' = [saving EXCEPT ![p] = plan]
  BY <1>3, <1>4, <1>5 DEF PolicyInv, PolicyTypes
<1>7. rows[t] \in Seq(RowsOf(t))
  BY <1>3 DEF PolicyInv, PolicyTypes
<1>8. i \in Nat /\ i <= Len(rows[t]) /\ (Len(rows[t]) \in {0, 1} => i = Len(rows[t]))
  <2>1. CASE rows[t] = <<>>
    BY <2>1 DEF Found
  <2>2. CASE rows[t] # <<>>
    <3>1. i \in 1 .. Len(rows[t]) /\ Len(rows[t]) \in Nat
      BY <1>7, <2>2 DEF Found
    <3>3. i \in Nat /\ i <= Len(rows[t])
      BY <3>1
    <3>4. ASSUME Len(rows[t]) \in {0, 1} PROVE i = Len(rows[t])
      <4>1. CASE Len(rows[t]) = 0
        BY <3>1, <4>1
      <4>2. CASE Len(rows[t]) = 1
        BY <3>1, <4>2
      <4> QED  BY <3>4, <4>1, <4>2
    <3> QED  BY <3>3, <3>4
  <2> QED  BY <2>1, <2>2
<1>9. /\ plan \in Seq(Saves(t)) /\ plan # <<>> /\ Len(plan) = Len(saving[p])
      /\ plan[1] = [saving[p][1] EXCEPT !.call = "write", !.row = i]
      /\ \A k \in 2 .. Len(plan) : plan[k] = saving[p][k]
  <2>1. [saving[p][1] EXCEPT !.call = "write", !.row = i] \in Saves(t)
    BY <1>3, <1>8 DEF Saves
  <2>2. Len(saving[p]) \in Nat /\ Len(saving[p]) >= 1 /\ DOMAIN saving[p] = 1 .. Len(saving[p])
    BY <1>2, <1>3
  <2>3. plan \in Seq(Saves(t)) /\ Len(plan) = Len(saving[p])
    <3> HIDE DEF Saves
    <3> QED  BY <1>3, <1>5, <2>1, <2>2
  <2>4. plan[1] = [saving[p][1] EXCEPT !.call = "write", !.row = i]
    BY <1>5, <2>2
  <2>5. \A k \in 2 .. Len(plan) : plan[k] = saving[p][k]
    BY <1>5, <2>2, <2>3
  <2> QED  BY <2>2, <2>3, <2>4, <2>5
<1>10. plan[1].type = t /\ plan[1].call = "write" /\ plan[1].row = i /\ plan[1].config = saving[p][1].config
  BY <1>3, <1>9 DEF Saves
<1>11. Head(plan).type = saving[p][1].type
  <2>1. Head(plan) = plan[1]
    BY <1>9
  <2> QED  BY <1>1, <1>10, <2>1
<1>12. /\ saving' = [q \in Admins |-> saving'[q]] /\ saving'[p] = plan
       /\ \A q \in Admins \ {p} : saving'[q] = saving[q]
       /\ \A u \in Types \ {t} : Saving(u)' = Saving(u) /\ p \notin Saving(u)
       /\ p \in Saving(t)
       /\ \A q \in Admins \ {p} : \A u \in Types : q \in Saving(u)' <=> q \in Saving(u)
  BY <1>1, <1>2, <1>6, <1>11, OtherSaves DEF PolicyInv
<1>13. PolicyTypes'
  <2>1. \A q \in Admins : \E u \in Types : saving'[q] \in Seq(Saves(u))
    BY <1>3, <1>9, <1>12 DEF PolicyInv, PolicyTypes
  <2>2. /\ rows' = [u \in Types |-> rows'[u]] /\ \A u \in Types : rows'[u] \in Seq(RowsOf(u))
        /\ intended' = [u \in Types |-> intended'[u]] /\ \A u \in Types : intended'[u] \in Config[u]
        /\ puts' \in 0 .. MaxUpdates /\ lone' \subseteq Types
    BY <1>2 DEF PolicyInv, PolicyTypes
  <2> QED  BY <1>12, <2>1, <2>2 DEF PolicyTypes, Saves, RowsOf
<1>14. RowsFound'
  <2> SUFFICES ASSUME NEW q \in Admins
               PROVE  /\ saving'[q] # <<>> => saving'[q][1].row <= Len(rows'[saving'[q][1].type])
                      /\ \A k \in 2 .. Len(saving'[q]) : saving'[q][k].row = 0
    BY DEF RowsFound
  <2>1. CASE q = p
    <3>1. \A k \in 2 .. Len(plan) : saving[p][k].row = 0
      BY <1>9 DEF PolicyInv, RowsFound
    <3> QED  BY <1>2, <1>8, <1>9, <1>10, <1>12, <2>1, <3>1
  <2>2. CASE q # p
    BY <1>2, <1>12, <2>2 DEF PolicyInv, RowsFound
  <2> QED  BY <2>1, <2>2
<1>15. LoneInv'
  <2> SUFFICES ASSUME NEW u \in lone'
               PROVE  /\ \A x, y \in Saving(u)' : x = y
                      /\ Saving(u)' = {} => Stands(u)'
                      /\ \A q \in Saving(u)' : Planned(u, saving[q])'
    BY DEF LoneInv
  <2>1. u \in lone /\ u \in Types
    BY <1>2 DEF PolicyInv, PolicyTypes
  <2>2. Saving(u)' = Saving(u)
    <3>1. p \in Saving(t)'
      BY <1>9, <1>11, <1>12, <1>1 DEF Saving
    <3>2. Saving(t) \subseteq Admins /\ Saving(t)' \subseteq Admins
      BY DEF Saving
    <3> QED  BY <1>12, <2>1, <3>1, <3>2
  <2>3. ASSUME NEW q \in Saving(u)' PROVE Planned(u, saving[q])'
    <3>1. Planned(u, saving[q]) /\ q \in Admins
      BY <2>1, <2>2, <2>3 DEF PolicyInv, LoneInv, Saving
    <3>2. CASE q = p
      <4>1. u = t
        BY <1>12, <2>1, <2>2, <3>2
      <4>2. Planned(t, saving[p]) /\ Len(rows[t]) \in {0, 1}
        <5>1. Planned(t, saving[p])
          BY <3>1, <3>2, <4>1
        <5>2. rows[t] = <<>> \/ Len(rows[t]) = 1
          BY <5>1 DEF Planned
        <5>3. rows[t] = <<>> => Len(rows[t]) = 0
          OBVIOUS
        <5>4. Len(rows[t]) \in {0, 1}
          BY <5>2, <5>3
        <5> QED  BY <5>1, <5>4
      <4>3. plan[1].row = Len(rows[t])
        BY <1>8, <1>10, <4>2
      <4>4. Len(plan) = 2 => plan[2] = saving[p][2]
        BY <1>9
      <4> QED  BY <1>2, <1>9, <1>10, <1>12, <3>2, <4>1, <4>2, <4>3, <4>4 DEF Planned
    <3>3. CASE q # p
      BY <1>2, <1>12, <3>1, <3>3 DEF Planned
    <3> QED  BY <3>2, <3>3
  <2> QED  BY <1>2, <2>1, <2>2, <2>3 DEF PolicyInv, LoneInv, Stands
<1> QED  BY <1>13, <1>14, <1>15 DEF PolicyInv

\* A write of a lone policy is the first save of a row or an update of it.
LEMMA WriteRowStep ==
  ASSUME PolicyInv, NEW p \in Admins, WriteRow(p)
  PROVE  PolicyInv'
<1>1. PICK t : t = saving[p][1].type
  OBVIOUS
<1>2. saving[p] # <<>> /\ UNCHANGED <<intended, puts, lone>>
  BY DEF WriteRow
<1>3. t \in Types /\ Head(saving[p]) = saving[p][1] /\ saving[p] \in Seq(Saves(t)) /\ saving[p][1] \in Saves(t)
  BY <1>1, <1>2, HeadType, SavingTyped DEF PolicyInv
<1>4. PICK s : s = saving[p][1]
  OBVIOUS
<1>5. s.call = "write" /\ s.type = t /\ s.config \in Config[t] /\ s.row \in Nat
  BY <1>2, <1>3, <1>4 DEF WriteRow, Saves
<1>6. rows[t] \in Seq(RowsOf(t)) /\ s.row <= Len(rows[t]) /\ Len(rows[t]) \in Nat
      /\ rows = [u \in Types |-> rows[u]]
  <2>1. s.row <= Len(rows[t])
    BY <1>1, <1>2, <1>4 DEF PolicyInv, RowsFound
  <2> QED  BY <1>3, <2>1 DEF PolicyInv, PolicyTypes
<1>7. PICK plan : plan = IF s.row = 0 /\ t = "connector" /\ rows[t] # <<>> THEN <<>> ELSE Tail(saving[p])
  OBVIOUS
<1>8. PICK new : new = IF s.row = 0 /\ t = "connector" /\ rows[t] # <<>> THEN rows[t]
                       ELSE IF s.row = 0 THEN Append(rows[t], [config |-> s.config, version |-> 1])
                       ELSE [rows[t] EXCEPT ![s.row] = [config |-> s.config, version |-> rows[t][s.row].version + 1]]
  OBVIOUS
<1>9. /\ saving' = [saving EXCEPT ![p] = plan]
      /\ rows' = [u \in Types |-> rows'[u]]
      /\ rows'[t] = new /\ \A u \in Types \ {t} : rows'[u] = rows[u]
  <2>1. Head(saving[p]) = s /\ s.type = t
    BY <1>3, <1>4, <1>5
  <2>2. CASE s.row = 0 /\ t = "connector" /\ rows[t] # <<>>
    <3>1. saving' = [saving EXCEPT ![p] = <<>>] /\ rows' = rows
      BY <2>1, <2>2 DEF WriteRow
    <3>2. new = rows[t] /\ plan = <<>>
      BY <1>7, <1>8, <2>2
    <3> QED  BY <1>3, <1>6, <3>1, <3>2
  <2>3. CASE ~(s.row = 0 /\ t = "connector" /\ rows[t] # <<>>)
    <3>1. saving' = [saving EXCEPT ![p] = Tail(saving[p])]
      BY <2>1, <2>3 DEF WriteRow
    <3>2. plan = Tail(saving[p])
      BY <1>7, <2>3
    <3>3. new = IF s.row = 0 THEN Append(rows[t], [config |-> s.config, version |-> 1])
                ELSE [rows[t] EXCEPT ![s.row] =
                        [config |-> s.config, version |-> rows[t][s.row].version + 1]]
      BY <1>8, <2>3
    <3>4. CASE s.row = 0
      <4>1. rows' = [rows EXCEPT ![t] = Append(rows[t], [config |-> s.config, version |-> 1])]
        BY <2>1, <2>3, <3>4 DEF WriteRow
      <4> QED  BY <1>3, <1>6, <3>1, <3>2, <3>3, <3>4, <4>1
    <3>5. CASE s.row # 0
      <4>1. rows' = [rows EXCEPT ![t][s.row] =
                       [config |-> s.config, version |-> rows[t][s.row].version + 1]]
        BY <2>1, <2>3, <3>5 DEF WriteRow
      <4> QED  BY <1>3, <1>6, <3>1, <3>2, <3>3, <3>5, <4>1
    <3> QED  BY <3>4, <3>5
  <2> QED  BY <2>2, <2>3
<1>10. plan \in Seq(Saves(t)) /\ (plan # <<>> => Head(plan) = plan[1] /\ plan[1].type = t)
  <2>1. plan \in Seq(Saves(t))
    BY <1>2, <1>3, <1>7
  <2>2. plan # <<>> => Head(plan) = plan[1] /\ plan[1] \in Saves(t)
    BY <2>1
  <2> QED  BY <2>1, <2>2 DEF Saves
<1>11. new \in Seq(RowsOf(t)) /\ Len(new) >= Len(rows[t]) /\ Len(new) \in Nat
  <2>1. CASE s.row = 0
    <3>1. [config |-> s.config, version |-> 1] \in RowsOf(t)
      BY <1>5 DEF RowsOf
    <3> QED  BY <1>6, <1>8, <2>1, <3>1
  <2>2. CASE s.row # 0
    <3>1. s.row \in 1 .. Len(rows[t]) /\ rows[t][s.row] \in RowsOf(t)
      BY <1>5, <1>6, <2>2
    <3>2. [config |-> s.config, version |-> rows[t][s.row].version + 1] \in RowsOf(t)
      BY <1>5, <3>1 DEF RowsOf
    <3>3. new = [rows[t] EXCEPT ![s.row] = [config |-> s.config, version |-> rows[t][s.row].version + 1]]
      BY <1>8, <2>2
    <3> HIDE DEF RowsOf
    <3> QED  BY <1>6, <3>1, <3>2, <3>3
  <2> QED  BY <2>1, <2>2
<1>12. /\ saving' = [q \in Admins |-> saving'[q]] /\ saving'[p] = plan
       /\ \A q \in Admins \ {p} : saving'[q] = saving[q]
       /\ \A u \in Types \ {t} : Saving(u)' = Saving(u) /\ p \notin Saving(u)
       /\ p \in Saving(t)
       /\ \A q \in Admins \ {p} : \A u \in Types : q \in Saving(u)' <=> q \in Saving(u)
  <2>1. plan # <<>> => Head(plan).type = saving[p][1].type
    BY <1>1, <1>10
  <2> QED  BY <1>1, <1>2, <1>9, <2>1, OtherSaves DEF PolicyInv
<1>13. rows'[t] = new /\ (\A u \in Types \ {t} : rows'[u] = rows[u]) /\ rows' = [u \in Types |-> rows'[u]]
  BY <1>9
<1>14. PolicyTypes'
  <2>1. \A q \in Admins : \E u \in Types : saving'[q] \in Seq(Saves(u))
    BY <1>3, <1>10, <1>12 DEF PolicyInv, PolicyTypes
  <2>2. \A u \in Types : rows'[u] \in Seq(RowsOf(u))
    BY <1>11, <1>13 DEF PolicyInv, PolicyTypes
  <2>3. /\ intended' = [u \in Types |-> intended'[u]] /\ \A u \in Types : intended'[u] \in Config[u]
        /\ puts' \in 0 .. MaxUpdates /\ lone' \subseteq Types
    BY <1>2 DEF PolicyInv, PolicyTypes
  <2> QED  BY <1>12, <1>13, <2>1, <2>2, <2>3 DEF PolicyTypes, Saves, RowsOf
<1>15. plan # <<>> => Len(saving[p]) >= 2 /\ plan[1] = saving[p][2] /\ plan[1].row = 0
  <2>1. plan # <<>> => Len(saving[p]) >= 2 /\ plan = Tail(saving[p])
    BY <1>2, <1>3, <1>7
  <2>2. plan # <<>> => plan[1] = saving[p][2]
    BY <1>3, <2>1
  <2>3. plan # <<>> => saving[p][2].row = 0
    BY <1>3, <2>1 DEF PolicyInv, RowsFound
  <2> QED  BY <2>1, <2>2, <2>3
<1>16. RowsFound'
  <2> SUFFICES ASSUME NEW q \in Admins
               PROVE  /\ saving'[q] # <<>> => saving'[q][1].row <= Len(rows'[saving'[q][1].type])
                      /\ \A k \in 2 .. Len(saving'[q]) : saving'[q][k].row = 0
    BY DEF RowsFound
  <2>1. CASE q = p
    <3>1. ASSUME NEW k \in 2 .. Len(plan) PROVE plan[k].row = 0
      <4>1. plan = Tail(saving[p]) /\ k + 1 \in 2 .. Len(saving[p])
        BY <1>2, <1>3, <1>7, <3>1
      <4>2. plan[k] = saving[p][k + 1]
        BY <1>2, <1>3, <3>1, <4>1
      <4> QED  BY <4>1, <4>2 DEF PolicyInv, RowsFound
    <3> QED  BY <1>3, <1>10, <1>11, <1>12, <1>13, <1>15, <2>1, <3>1
  <2>2. CASE q # p
    <3>1. saving'[q] = saving[q]
      BY <1>12, <2>2
    <3>2. ASSUME saving[q] # <<>> PROVE saving[q][1].row <= Len(rows'[saving[q][1].type])
      <4>1. PICK u \in Types : u = saving[q][1].type
        BY <3>2, HeadType DEF PolicyInv
      <4>2. saving[q][1].row <= Len(rows[u])
        BY <3>2, <4>1 DEF PolicyInv, RowsFound
      <4>3. saving[q][1] \in Saves(u)
        BY <3>2, <4>1, SavingTyped DEF PolicyInv
      <4>4. saving[q][1].row \in Nat
        BY <4>3 DEF Saves
      <4>5. CASE u = t
        BY <1>6, <1>11, <1>13, <4>1, <4>2, <4>4, <4>5
      <4>6. CASE u # t
        BY <1>13, <4>1, <4>2, <4>6
      <4> QED  BY <4>5, <4>6
    <3>3. \A k \in 2 .. Len(saving[q]) : saving[q][k].row = 0
      BY DEF PolicyInv, RowsFound
    <3> QED  BY <3>1, <3>2, <3>3
  <2> QED  BY <2>1, <2>2
<1>17. ASSUME t \in lone
       PROVE  /\ \A x, y \in Saving(t)' : x = y
              /\ Saving(t)' = {} => Stands(t)'
              /\ \A q \in Saving(t)' : Planned(t, saving[q])'
  <2>1. Saving(t) = {p} /\ Planned(t, saving[p])
    BY <1>12, <1>17 DEF PolicyInv, LoneInv
  <2>2. Saving(t)' \subseteq {p} /\ (plan = <<>> <=> Saving(t)' = {})
    <3>1. \A q \in Saving(t)' : q \in Admins /\ q = p
      BY <1>3, <1>12, <2>1 DEF Saving
    <3>2. plan # <<>> => p \in Saving(t)'
      BY <1>10, <1>12 DEF Saving
    <3>3. plan = <<>> => p \notin Saving(t)'
      BY <1>12 DEF Saving
    <3> QED  BY <3>1, <3>2, <3>3
  <2>3. s.row = Len(rows[t])
    BY <1>4, <1>5, <2>1 DEF Planned
  <2>4. CASE Len(saving[p]) = 2
    <3>1. /\ rows[t] = <<>> /\ s.config = Default[t] /\ saving[p][2].config = intended[t]
          /\ saving[p][2].call = "find" /\ intended[t].version = 2
      BY <1>4, <2>1, <2>4 DEF Planned
    <3>2. s.row = 0
      BY <2>3, <3>1
    <3>3. plan = Tail(saving[p]) /\ new = <<[config |-> s.config, version |-> 1]>>
      BY <1>7, <1>8, <3>1, <3>2
    <3>4. Len(plan) = 1 /\ plan # <<>>
      BY <1>2, <1>3, <2>4, <3>3
    <3>5. Len(new) = 1 /\ new[1].version = 1
      BY <3>3
    <3>6. Planned(t, saving[p])'
      BY <1>2, <1>12, <1>13, <1>15, <3>1, <3>4, <3>5 DEF Planned
    <3> QED  BY <2>2, <3>4, <3>6
  <2>5. CASE Len(saving[p]) = 1
    <3>1. /\ s.config = intended[t]
          /\ \/ rows[t] = <<>> /\ intended[t] = Default[t]
             \/ Len(rows[t]) = 1 /\ intended[t].version = rows[t][1].version + 1
      BY <1>4, <2>1, <2>5 DEF Planned
    <3>2. plan = <<>>
      BY <1>15, <2>5
    <3>3. Len(new) = 1 /\ new[1] = [config |-> intended[t], version |-> intended[t].version]
      <4>1. CASE rows[t] = <<>> /\ intended[t] = Default[t]
        <5>1. s.row = 0
          BY <2>3, <4>1
        <5>2. new = <<[config |-> s.config, version |-> 1]>>
          BY <1>8, <4>1, <5>1
        <5> QED  BY <3>1, <4>1, <5>2, DefaultTyped, <1>3
      <4>2. CASE Len(rows[t]) = 1 /\ intended[t].version = rows[t][1].version + 1
        <5>1. s.row = 1 /\ 1 \in DOMAIN rows[t]
          BY <1>6, <2>3, <4>2
        <5>2. new = [rows[t] EXCEPT ![1] = [config |-> s.config, version |-> rows[t][1].version + 1]]
          BY <1>8, <5>1
        <5>3. Len(new) = 1 /\ new[1] = [config |-> s.config, version |-> rows[t][1].version + 1]
          BY <1>6, <4>2, <5>1, <5>2
        <5> QED  BY <3>1, <4>2, <5>3
      <4> QED  BY <3>1, <4>1, <4>2
    <3>4. Stands(t)'
      BY <1>2, <1>13, <3>3 DEF Stands
    <3> QED  BY <2>2, <3>2, <3>4
  <2> QED  BY <2>1, <2>4, <2>5 DEF Planned
<1>18. LoneInv'
  <2> SUFFICES ASSUME NEW u \in lone, u # t
               PROVE  /\ \A x, y \in Saving(u)' : x = y
                      /\ Saving(u)' = {} => Stands(u)'
                      /\ \A q \in Saving(u)' : Planned(u, saving[q])'
    BY <1>2, <1>17 DEF LoneInv
  <2>1. u \in Types /\ Saving(u)' = Saving(u) /\ p \notin Saving(u) /\ rows'[u] = rows[u]
    BY <1>12, <1>13 DEF PolicyInv, PolicyTypes
  <2>2. \A q \in Saving(u) : q \in Admins /\ saving'[q] = saving[q]
    BY <1>12, <2>1 DEF Saving
  <2> QED  BY <1>2, <2>1, <2>2 DEF PolicyInv, LoneInv, Stands, Planned
<1> QED  BY <1>14, <1>16, <1>18 DEF PolicyInv

LEMMA StopSavingStep ==
  ASSUME PolicyInv, NEW p \in Admins, StopSaving(p)
  PROVE  PolicyInv'
<1>1. PICK t : t = saving[p][1].type
  OBVIOUS
<1>2. /\ saving[p] # <<>> /\ saving' = [saving EXCEPT ![p] = <<>>]
      /\ UNCHANGED <<rows, intended, puts>>
  BY DEF StopSaving
<1>3. t \in Types /\ lone' = lone \ {t}
  BY <1>1, <1>2, HeadType DEF PolicyInv, StopSaving
<1>4. /\ saving' = [q \in Admins |-> saving'[q]] /\ saving'[p] = <<>>
      /\ \A q \in Admins \ {p} : saving'[q] = saving[q]
      /\ \A u \in Types \ {t} : Saving(u)' = Saving(u) /\ p \notin Saving(u)
  BY <1>1, <1>2, OtherSaves DEF PolicyInv
<1>5. PolicyTypes'
  <2>1. ASSUME NEW q \in Admins PROVE \E u \in Types : saving'[q] \in Seq(Saves(u))
    <3>1. CASE q = p
      <4>1. saving'[q] \in Seq(Saves(t))
        BY <1>4, <3>1
      <4> QED  BY <1>3, <4>1
    <3>2. CASE q # p
      BY <1>4, <3>2 DEF PolicyInv, PolicyTypes
    <3> QED  BY <3>1, <3>2
  <2>2. /\ rows' = [u \in Types |-> rows'[u]] /\ \A u \in Types : rows'[u] \in Seq(RowsOf(u))
        /\ intended' = [u \in Types |-> intended'[u]] /\ \A u \in Types : intended'[u] \in Config[u]
        /\ puts' \in 0 .. MaxUpdates /\ lone' \subseteq Types
    BY <1>2, <1>3 DEF PolicyInv, PolicyTypes
  <2> QED  BY <1>4, <2>1, <2>2 DEF PolicyTypes, Saves, RowsOf
<1>6. RowsFound'
  BY <1>2, <1>4 DEF PolicyInv, RowsFound
<1>7. LoneInv'
  <2> SUFFICES ASSUME NEW u \in lone, u # t
               PROVE  /\ \A x, y \in Saving(u)' : x = y
                      /\ Saving(u)' = {} => Stands(u)'
                      /\ \A q \in Saving(u)' : Planned(u, saving[q])'
    BY <1>3 DEF LoneInv
  <2>1. u \in Types /\ Saving(u)' = Saving(u) /\ p \notin Saving(u)
    BY <1>4 DEF PolicyInv, PolicyTypes
  <2>2. \A q \in Saving(u) : q \in Admins /\ saving'[q] = saving[q]
    BY <1>4, <2>1 DEF Saving
  <2> QED  BY <1>2, <2>1, <2>2 DEF PolicyInv, LoneInv, Stands, Planned
<1> QED  BY <1>5, <1>6, <1>7 DEF PolicyInv

LEMMA PolicyStep == PolicyInv /\ PolicyNext => PolicyInv'
BY GetPolicyStep, UpdatePolicyStep, FindRowStep, WriteRowStep, StopSavingStep DEF PolicyNext

LEMMA PolicyStutter == PolicyInv /\ UNCHANGED policyVars => PolicyInv'
<1> SUFFICES ASSUME PolicyInv, UNCHANGED policyVars PROVE PolicyInv'
  OBVIOUS
<1> USE DEF policyVars
<1>1. PolicyTypes'
  BY DEF PolicyInv, PolicyTypes, Saves, RowsOf
<1>2. RowsFound'
  BY DEF PolicyInv, RowsFound
<1>3. LoneInv'
  BY DEF PolicyInv, LoneInv, Saving, Stands, Planned
<1> QED  BY <1>1, <1>2, <1>3 DEF PolicyInv

-----------------------------------------------------------------------------
(* The awaits of a request, in one order for every feature *)

StepNames == {"policy", "ask", "prompt", "model", "summary", "retention", "reply", "audit"}

Rank(step) ==
  CASE step = "policy" -> 1 [] step = "ask" -> 2 [] step = "prompt" -> 3 [] step = "model" -> 4
    [] step = "summary" -> 5 [] step = "retention" -> 6 [] step = "reply" -> 7 [] step = "audit" -> 8

Sorted(left) == \A i, j \in DOMAIN left : i < j => Rank(left[i]) < Rank(left[j])

Has(left, step) == \E i \in DOMAIN left : left[i] = step

LEMMA Ranks ==
  /\ Rank("policy") = 1 /\ Rank("ask") = 2 /\ Rank("prompt") = 3 /\ Rank("model") = 4
  /\ Rank("summary") = 5 /\ Rank("retention") = 6 /\ Rank("reply") = 7 /\ Rank("audit") = 8
BY DEF Rank

LEMMA RankIsNat == \A step \in StepNames : Rank(step) \in Nat
BY Ranks DEF StepNames

\* Taking the first await off a sorted list leaves a sorted list of the others.
LEMMA TailSorted ==
  ASSUME NEW left \in Seq(StepNames), left # <<>>, Sorted(left)
  PROVE  /\ Tail(left) \in Seq(StepNames) /\ Sorted(Tail(left))
         /\ Head(left) \in StepNames
         /\ \A step : Has(Tail(left), step) <=> Has(left, step) /\ step # Head(left)
         /\ \A step : Has(left, step) => Rank(step) >= Rank(Head(left))
<1>1. /\ Tail(left) \in Seq(StepNames) /\ Len(left) \in Nat /\ Len(left) >= 1
      /\ DOMAIN left = 1 .. Len(left) /\ DOMAIN Tail(left) = 1 .. Len(left) - 1
      /\ \A i \in 1 .. Len(left) - 1 : Tail(left)[i] = left[i + 1]
      /\ Head(left) = left[1]
  OBVIOUS
<1>2. \A i \in DOMAIN left : left[i] \in StepNames /\ Rank(left[i]) \in Nat
  BY RankIsNat
<1>3. Sorted(Tail(left))
  <2> SUFFICES ASSUME NEW i \in DOMAIN Tail(left), NEW j \in DOMAIN Tail(left), i < j
               PROVE  Rank(Tail(left)[i]) < Rank(Tail(left)[j])
    BY DEF Sorted
  <2>1. i + 1 \in DOMAIN left /\ j + 1 \in DOMAIN left /\ i + 1 < j + 1
    BY <1>1
  <2> QED  BY <1>1, <2>1 DEF Sorted
<1>4. \A i \in 2 .. Len(left) : Rank(left[1]) < Rank(left[i])
  BY <1>1 DEF Sorted
<1>5. ASSUME NEW step PROVE Has(Tail(left), step) <=> Has(left, step) /\ step # Head(left)
  <2>1. ASSUME NEW i \in DOMAIN Tail(left), Tail(left)[i] = step
        PROVE  Has(left, step) /\ step # Head(left)
    <3>1. i + 1 \in 2 .. Len(left) /\ left[i + 1] = step
      BY <1>1, <2>1
    <3>2. Rank(left[1]) < Rank(step) /\ Rank(left[1]) \in Nat
      BY <1>1, <1>2, <1>4, <3>1
    <3> QED  BY <1>1, <3>1, <3>2 DEF Has
  <2>2. ASSUME NEW i \in DOMAIN left, left[i] = step, step # Head(left)
        PROVE  Has(Tail(left), step)
    <3>1. i - 1 \in DOMAIN Tail(left) /\ Tail(left)[i - 1] = step
      BY <1>1, <2>2
    <3> QED  BY <3>1 DEF Has
  <2> QED  BY <2>1, <2>2 DEF Has
<1>6. ASSUME NEW step, Has(left, step) PROVE Rank(step) >= Rank(Head(left))
  <2>1. PICK i \in DOMAIN left : left[i] = step
    BY <1>6 DEF Has
  <2>2. i = 1 \/ i \in 2 .. Len(left)
    BY <1>1
  <2>3. Rank(step) \in Nat /\ Rank(left[1]) \in Nat
    BY <1>1, <1>2, <2>1
  <2> QED  BY <1>1, <1>4, <2>1, <2>2, <2>3
<1> QED  BY <1>1, <1>2, <1>3, <1>5, <1>6

LEMMA NothingLeft == \A step : ~Has(<<>>, step)
BY DEF Has

\* What each feature begins with.
LEMMA StepsSorted ==
  ASSUME NEW f \in Features
  PROVE  /\ Steps(f) \in Seq(StepNames) /\ Steps(f) # <<>> /\ Sorted(Steps(f))
         /\ Has(Steps(f), "model") /\ Has(Steps(f), "retention")
         /\ f # "greeting" => Has(Steps(f), "policy")
         /\ Has(Steps(f), "prompt") => Has(Steps(f), "ask")
         /\ Has(Steps(f), "reply") => Has(Steps(f), "prompt")
<1>1. CASE f = "draft"
  <2>1. Steps(f) = <<"policy", "model", "retention", "audit">>
    BY <1>1 DEF Steps
  <2>2. Sorted(Steps(f))
    BY <2>1, Ranks DEF Sorted
  <2> QED  BY <2>1, <2>2 DEF Has, StepNames
<1>2. CASE f = "summary"
  <2>1. Steps(f) = <<"policy", "model", "summary", "retention", "audit">>
    BY <1>2 DEF Steps
  <2>2. Sorted(Steps(f))
    BY <2>1, Ranks DEF Sorted
  <2> QED  BY <2>1, <2>2 DEF Has, StepNames
<1>3. CASE f = "greeting"
  <2>1. Steps(f) = <<"model", "retention", "audit">>
    BY <1>3 DEF Steps
  <2>2. Sorted(Steps(f))
    BY <2>1, Ranks DEF Sorted
  <2>3. \A step : Has(Steps(f), step) <=> step \in {"model", "retention", "audit"}
    BY <2>1 DEF Has
  <2>4. Steps(f) \in Seq(StepNames) /\ Steps(f) # <<>>
    BY <2>1 DEF StepNames
  <2> QED  BY <1>3, <2>2, <2>3, <2>4
<1>4. CASE f = "chat"
  <2>1. Steps(f) = <<"policy", "ask", "prompt", "model", "retention", "reply", "audit">>
    BY <1>4 DEF Steps
  <2>2. Sorted(Steps(f))
    BY <2>1, Ranks DEF Sorted
  <2> QED  BY <2>1, <2>2 DEF Has, StepNames
<1> QED  BY <1>1, <1>2, <1>3, <1>4 DEF Features

-----------------------------------------------------------------------------
(* The requests' invariant *)

KeptType == [prompt : Modes, output : Modes]

RequestType ==
  [feature : Features \cup {"none"}, provider : AiProviders \cup {"none"}, left : Seq(StepNames),
   outcome : Outcomes, decision : KeptType, context : Nat]

AiTypes ==
  /\ request \in [Requests -> RequestType]
  /\ messages \in Seq([role : {"user", "assistant"}, of : Requests])
  /\ \A r \in Requests : request[r].context <= Len(messages)
  /\ kept \in [Requests -> KeptType]
  /\ summaries \subseteq Requests
  /\ permitted \subseteq Requests
  /\ keepable \in [Requests -> SUBSET KeptType]
  /\ unread \subseteq Requests

\* What is left of a request is in order; one not made has done nothing.
InOrder ==
  \A r \in Requests :
    /\ Sorted(request[r].left)
    /\ request[r].feature = "none" => request[r].left = <<>> /\ request[r].outcome = "none"

\* Every policy an open request may read is one that counts for permitted.
WasAllowed ==
  \A r \in Requests :
    /\ Open(r) /\ PolicyAllows(request[r].feature, request[r].provider) => r \in permitted
    /\ /\ request[r].feature # "greeting"
       /\ Has(request[r].left, "model") /\ ~Has(request[r].left, "policy")
       => r \in permitted
    /\ Answered(r) /\ request[r].feature # "greeting" => r \in permitted

\* ... and every one it may read after the answer one that counts for keepable.
WillBeKept ==
  \A r \in Requests :
    /\ Has(request[r].left, "model") => Has(request[r].left, "retention")
    /\ Has(request[r].left, "retention") /\ ~Has(request[r].left, "model") => Answered(r)
    /\ Open(r) /\ Answered(r) => Keepable \subseteq keepable[r]
    /\ /\ r \notin unread
       /\ Has(request[r].left, "reply") \/ Has(request[r].left, "audit")
       /\ ~Has(request[r].left, "retention")
       => request[r].decision \in keepable[r]

Question(r) == [role |-> "user", of |-> r]

\* The question is saved, then read, then answered.
ChatOrder ==
  /\ \A r \in Requests :
       /\ Has(request[r].left, "prompt") /\ ~Has(request[r].left, "ask")
          => \E i \in DOMAIN messages : messages[i] = Question(r)
       /\ Has(request[r].left, "reply") /\ ~Has(request[r].left, "prompt")
          => \E i \in 1 .. request[r].context : messages[i] = Question(r)
  /\ \A j \in DOMAIN messages :
       messages[j].role = "assistant" =>
         /\ request[messages[j].of].feature # "none"
         /\ ~Has(request[messages[j].of].left, "prompt")
         /\ \E i \in 1 .. j - 1 :
              /\ messages[i] = Question(messages[j].of)
              /\ i <= request[messages[j].of].context

\* An await of a request goes one further in its list, or ends it unanswered.
Advances(r, new) ==
  /\ request' = [request EXCEPT ![r] = new]
  /\ new \in RequestType
  /\ new.feature = request[r].feature /\ new.provider = request[r].provider
  /\ request[r].left # <<>>
  /\ \/ new.left = Tail(request[r].left)
     \/ new.left = <<>> /\ new.outcome \in {"none", "blocked_by_policy"}

Inv == PolicyInv /\ AiTypes /\ InOrder /\ WasAllowed /\ WillBeKept /\ ChatOrder

LEMMA ConfigsInForce ==
  ASSUME PolicyTypes, NEW t \in Types
  PROVE  InForce(t) \subseteq Config[t] /\ InForce(t) # {}
<1>1. rows[t] \in Seq(RowsOf(t))
  BY DEF PolicyTypes
<1>2. \A i \in DOMAIN rows[t] : rows[t][i].config \in Config[t]
  <2>1. \A i \in DOMAIN rows[t] : rows[t][i] \in RowsOf(t)
    BY <1>1
  <2> QED  BY <2>1 DEF RowsOf
<1>3. rows[t] # <<>> => 1 \in DOMAIN rows[t]
  BY <1>1
<1> QED  BY <1>2, <1>3, DefaultTyped DEF InForce

LEMMA KeepableTyped ==
  ASSUME PolicyTypes
  PROVE  /\ Keepable \subseteq KeptType
         /\ \A config \in InForce("retention") : KeptUnder(config) \in Keepable /\ KeptUnder(config) \in KeptType
<1>1. InForce("retention") \subseteq [enabled : BOOLEAN, prompt : Modes, output : Modes, version : Nat]
  <2>1. "retention" \in Types
    BY AiAssumption
  <2> QED  BY <2>1, ConfigsInForce DEF Config
<1>2. \A config \in InForce("retention") : KeptUnder(config) \in KeptType
  BY <1>1 DEF KeptUnder, KeptType, Modes
<1> QED  BY <1>2 DEF Keepable

LEMMA KeepableTypes == PolicyTypes => Keepable \subseteq KeptType
BY KeepableTyped

LEMMA MessageTypes ==
  ASSUME AiTypes
  PROVE  \A j \in DOMAIN messages : messages[j].of \in Requests /\ messages[j].role \in {"user", "assistant"}
<1>1. PICK M : M = [role : {"user", "assistant"}, of : Requests]
  OBVIOUS
<1>2. messages \in Seq(M)
  BY <1>1 DEF AiTypes
<1>3. \A j \in DOMAIN messages : messages[j] \in M
  BY <1>2
<1> QED  BY <1>1, <1>3

LEMMA DoneAdvances ==
  ASSUME AiTypes, NEW r \in Requests, Open(r), NEW req \in RequestType,
         req.feature = request[r].feature, req.provider = request[r].provider,
         req.left = request[r].left, Done(r, req)
  PROVE  /\ Advances(r, request'[r])
         /\ request'[r] = [req EXCEPT !.left = Tail(req.left)]
         /\ request'[r].left = Tail(request[r].left)
         /\ request'[r].outcome = req.outcome /\ request'[r].decision = req.decision
         /\ request'[r].context = req.context
<1> DEFINE new == [req EXCEPT !.left = Tail(req.left)]
<1>1. Tail(req.left) \in Seq(StepNames)
  BY DEF RequestType, Open
<1>2. /\ new \in RequestType /\ new.left = Tail(req.left)
      /\ new.feature = req.feature /\ new.provider = req.provider
      /\ new.outcome = req.outcome /\ new.decision = req.decision /\ new.context = req.context
  BY <1>1 DEF RequestType
<1>3. request' = [request EXCEPT ![r] = new]
  BY DEF Done
<1>4. request'[r] = new
  BY <1>3 DEF AiTypes
<1> HIDE DEF new
<1> QED  BY <1>2, <1>3, <1>4 DEF Advances, Open, new

LEMMA EndedAdvances ==
  ASSUME AiTypes, NEW r \in Requests, Open(r), NEW outcome \in {"none", "blocked_by_policy"},
         Ended(r, outcome)
  PROVE  /\ Advances(r, request'[r])
         /\ request'[r].left = <<>> /\ request'[r].outcome = outcome
         /\ request'[r].decision = request[r].decision /\ request'[r].context = request[r].context
<1> DEFINE new == [request[r] EXCEPT !.left = <<>>, !.outcome = outcome]
<1>1. request[r] \in RequestType
  BY DEF AiTypes
<1>2. /\ new \in RequestType /\ new.left = <<>> /\ new.outcome = outcome
      /\ new.feature = request[r].feature /\ new.provider = request[r].provider
      /\ new.decision = request[r].decision /\ new.context = request[r].context
  <2>1. <<>> \in Seq(StepNames) /\ outcome \in Outcomes
    BY DEF Outcomes
  <2>2. new.left = <<>> /\ new.outcome = outcome
    BY <1>1 DEF RequestType
  <2>3. new \in RequestType
    BY <1>1, <2>1 DEF RequestType
  <2>4. /\ new.feature = request[r].feature /\ new.provider = request[r].provider
        /\ new.decision = request[r].decision /\ new.context = request[r].context
    OBVIOUS
  <2> QED  BY <2>2, <2>3, <2>4
<1>3. request' = [request EXCEPT ![r] = new]
  BY DEF Ended, AiTypes
<1>4. request'[r] = new
  BY <1>3 DEF AiTypes
<1> HIDE DEF new
<1> QED  BY <1>2, <1>3, <1>4 DEF Advances, Open

\* Whichever provider replies, its reply counts as an answer.
LEMMA RepliesAnswer == ASSUME NEW r PROVE Replies(r) \subseteq {"succeeded", "fallback_mock"}
BY DEF Replies, MockReplies, RuntimeReplies

\* Every await of a request advances it.
LEMMA StepAdvances ==
  ASSUME PolicyTypes, AiTypes, NEW r \in Requests, RequestStep(r)
  PROVE  /\ Advances(r, request'[r]) /\ UNCHANGED <<policyVars, permitted>>
         /\ request'[r].context = request[r].context \/ ReadChat(r)
         /\ \/ request'[r].outcome = request[r].outcome
            \/ CallModel(r)
            \/ request'[r].left = <<>> /\ ~Answered(r)'
         /\ request'[r].decision = request[r].decision \/ ReadRetention(r) \/ RetentionUnread(r)
<1>1. request[r] \in RequestType
  BY DEF AiTypes
<1>2. CASE CheckPolicy(r)
  <2>1. Open(r) /\ UNCHANGED <<policyVars, permitted>>
    BY <1>2 DEF CheckPolicy, At, Open
  <2>2. Done(r, request[r]) \/ Ended(r, "blocked_by_policy")
    BY <1>2 DEF CheckPolicy
  <2>3. "blocked_by_policy" \notin {"succeeded", "fallback_mock"}
    OBVIOUS
  <2> QED  BY <1>1, <2>1, <2>2, <2>3, DoneAdvances, EndedAdvances DEF Answered
<1>3. CASE AskChat(r)
  <2>1. Open(r) /\ UNCHANGED <<policyVars, permitted>> /\ Done(r, request[r])
    BY <1>3 DEF AskChat, At, Open
  <2> QED  BY <1>1, <2>1, DoneAdvances
<1>4. CASE ReadChat(r)
  <2> DEFINE req == [request[r] EXCEPT !.context = Len(messages)]
  <2>1. Open(r) /\ UNCHANGED <<policyVars, permitted>> /\ Done(r, req)
    BY <1>4 DEF ReadChat, At, Open
  <2>2. Len(messages) \in Nat
    BY DEF AiTypes
  <2>3. /\ req \in RequestType /\ req.feature = request[r].feature
        /\ req.provider = request[r].provider /\ req.left = request[r].left
        /\ req.outcome = request[r].outcome /\ req.decision = request[r].decision
    BY <1>1, <2>2 DEF RequestType
  <2> HIDE DEF req
  <2> QED  BY <1>4, <2>1, <2>3, DoneAdvances
<1>5. CASE CallModel(r)
  <2>1. PICK outcome \in {"succeeded", "fallback_mock"} : Done(r, [request[r] EXCEPT !.outcome = outcome])
    BY <1>5, RepliesAnswer DEF CallModel
  <2> DEFINE req == [request[r] EXCEPT !.outcome = outcome]
  <2>2. Open(r) /\ UNCHANGED <<policyVars, permitted>> /\ Done(r, req)
    BY <1>5, <2>1 DEF CallModel, At, Open
  <2>3. /\ req \in RequestType /\ req.feature = request[r].feature
        /\ req.provider = request[r].provider /\ req.left = request[r].left
        /\ req.context = request[r].context /\ req.decision = request[r].decision
    BY <1>1 DEF RequestType, Outcomes
  <2> HIDE DEF req
  <2> QED  BY <1>5, <2>2, <2>3, DoneAdvances
<1>6. CASE ModelFails(r)
  <2>1. Open(r) /\ UNCHANGED <<policyVars, permitted>> /\ Ended(r, "none")
    BY <1>6 DEF ModelFails, At, Open
  <2> QED  BY <2>1, EndedAdvances DEF Answered
<1>7. CASE StoreSummary(r)
  <2>1. Open(r) /\ UNCHANGED <<policyVars, permitted>> /\ Done(r, request[r])
    BY <1>7 DEF StoreSummary, At, Open
  <2> QED  BY <1>1, <2>1, DoneAdvances
<1>8. CASE ReadRetention(r)
  <2>1. PICK config \in InForce("retention") :
          Done(r, [request[r] EXCEPT !.decision = KeptUnder(config)])
    BY <1>8 DEF ReadRetention
  <2> DEFINE req == [request[r] EXCEPT !.decision = KeptUnder(config)]
  <2>2. Open(r) /\ UNCHANGED <<policyVars, permitted>> /\ Done(r, req)
    BY <1>8, <2>1 DEF ReadRetention, At, Open
  <2>3. /\ req \in RequestType /\ req.feature = request[r].feature
        /\ req.provider = request[r].provider /\ req.left = request[r].left
        /\ req.context = request[r].context /\ req.outcome = request[r].outcome
    BY <1>1, KeepableTyped DEF RequestType
  <2> HIDE DEF req
  <2> QED  BY <1>8, <2>2, <2>3, DoneAdvances
<1>9. CASE RetentionUnread(r)
  <2> DEFINE req == [request[r] EXCEPT !.decision = KeepAll]
  <2>1. Open(r) /\ UNCHANGED <<policyVars, permitted>> /\ (Ended(r, "none") \/ Done(r, req))
    BY <1>9 DEF RetentionUnread, At, Open
  <2>2. /\ req \in RequestType /\ req.feature = request[r].feature
        /\ req.provider = request[r].provider /\ req.left = request[r].left
        /\ req.context = request[r].context /\ req.outcome = request[r].outcome
    BY <1>1 DEF RequestType, KeepAll, KeptType, Modes
  <2> HIDE DEF req
  <2> QED  BY <1>9, <2>1, <2>2, DoneAdvances, EndedAdvances DEF Answered
<1>10. CASE StoreReply(r)
  <2>1. Open(r) /\ UNCHANGED <<policyVars, permitted>> /\ Done(r, request[r])
    BY <1>10 DEF StoreReply, At, Open
  <2> QED  BY <1>1, <2>1, DoneAdvances
<1>11. CASE AuditGeneration(r)
  <2>1. Open(r) /\ UNCHANGED <<policyVars, permitted>> /\ Done(r, request[r])
    BY <1>11 DEF AuditGeneration, At, Open
  <2> QED  BY <1>1, <2>1, DoneAdvances
<1> QED  BY <1>2, <1>3, <1>4, <1>5, <1>6, <1>7, <1>8, <1>9, <1>10, <1>11 DEF RequestStep

\* What advancing means for the request itself and for the others.
LEMMA AdvanceFacts ==
  ASSUME AiTypes, InOrder, NEW r \in Requests, NEW new, Advances(r, new)
  PROVE  /\ request' \in [Requests -> RequestType] /\ request'[r] = new
         /\ \A q \in Requests \ {r} : request'[q] = request[q]
         /\ Open(r) /\ request[r].feature # "none"
         /\ \A q \in Requests : request'[q].feature = request[q].feature /\ request'[q].provider = request[q].provider
         /\ InOrder'
         /\ \A step : Has(new.left, step) => Has(request[r].left, step) /\ step # Head(request[r].left)
         /\ \A step : Has(request[r].left, step) => Rank(step) >= Rank(Head(request[r].left))
         /\ \/ \A step : Has(new.left, step) <=> Has(request[r].left, step) /\ step # Head(request[r].left)
            \/ (\A step : ~Has(new.left, step)) /\ new.left = <<>> /\ ~Answered(r)'
<1>1. /\ request' \in [Requests -> RequestType] /\ request'[r] = new
      /\ \A q \in Requests \ {r} : request'[q] = request[q]
      /\ new.feature = request[r].feature /\ new.provider = request[r].provider
      /\ request[r].left # <<>> /\ new \in RequestType
      /\ \/ new.left = Tail(request[r].left)
         \/ new.left = <<>> /\ new.outcome \in {"none", "blocked_by_policy"}
  <2>1. request \in [Requests -> RequestType] /\ request' = [request EXCEPT ![r] = new] /\ new \in RequestType
    BY DEF Advances, AiTypes
  <2>2. /\ request' \in [Requests -> RequestType] /\ request'[r] = new
        /\ \A q \in Requests \ {r} : request'[q] = request[q]
    BY <2>1
  <2>3. /\ new.feature = request[r].feature /\ new.provider = request[r].provider
        /\ request[r].left # <<>>
        /\ \/ new.left = Tail(request[r].left)
           \/ new.left = <<>> /\ new.outcome \in {"none", "blocked_by_policy"}
    BY DEF Advances
  <2> QED  BY <2>1, <2>2, <2>3
<1>2. request[r].left \in Seq(StepNames) /\ Sorted(request[r].left)
  BY DEF AiTypes, RequestType, InOrder
<1>3. request[r].feature # "none" /\ Open(r)
  BY <1>1 DEF InOrder, Open
<1>4. /\ Sorted(Tail(request[r].left))
      /\ \A step : Has(Tail(request[r].left), step)
                     <=> Has(request[r].left, step) /\ step # Head(request[r].left)
      /\ \A step : Has(request[r].left, step) => Rank(step) >= Rank(Head(request[r].left))
  BY <1>1, <1>2, TailSorted
<1>5. Sorted(<<>>)
  BY DEF Sorted
<1>6. InOrder'
  BY <1>1, <1>3, <1>4, <1>5 DEF InOrder
<1>7. new.outcome \in {"none", "blocked_by_policy"} => ~Answered(r)'
  BY <1>1 DEF Answered
<1> QED  BY <1>1, <1>3, <1>4, <1>6, <1>7, NothingLeft

\* A step of a request leaves the policies, and what is permitted, alone.
LEMMA StepWasAllowed ==
  ASSUME Inv, NEW r \in Requests, RequestStep(r)
  PROVE  WasAllowed'
<1> DEFINE new == request'[r]
<1>1. /\ Advances(r, new) /\ UNCHANGED <<policyVars, permitted>>
      /\ request'[r].outcome = request[r].outcome \/ CallModel(r) \/ ~Answered(r)'
  BY StepAdvances DEF Inv, PolicyInv
<1>2. /\ \A q \in Requests \ {r} : request'[q] = request[q]
      /\ Open(r)
      /\ \A q \in Requests : request'[q].feature = request[q].feature /\ request'[q].provider = request[q].provider
      /\ \A step : Has(new.left, step) => Has(request[r].left, step) /\ step # Head(request[r].left)
      /\ \A step : Has(request[r].left, step) => Rank(step) >= Rank(Head(request[r].left))
      /\ \/ \A step : Has(new.left, step) <=> Has(request[r].left, step) /\ step # Head(request[r].left)
         \/ (\A step : ~Has(new.left, step)) /\ new.left = <<>> /\ ~Answered(r)'
  BY <1>1, AdvanceFacts DEF Inv
<1> HIDE DEF new
<1>3. \A f, prov : PolicyAllows(f, prov)' <=> PolicyAllows(f, prov)
  BY <1>1 DEF policyVars, PolicyAllows, InForce, Allows
<1>4. \A q \in Requests : Open(q)' => Open(q)
  BY <1>2 DEF Open
<1>5. ASSUME NEW q \in Requests, Open(q)', PolicyAllows(request[q].feature, request[q].provider)'
      PROVE  q \in permitted'
  BY <1>1, <1>2, <1>3, <1>4, <1>5 DEF Inv, WasAllowed
<1>6. ASSUME request[r].feature # "greeting", Has(new.left, "model"), ~Has(new.left, "policy")
      PROVE  r \in permitted
  <2>1. CASE Has(request[r].left, "policy")
    <3>1. Head(request[r].left) = "policy" /\ \A step : Has(new.left, step)
             <=> Has(request[r].left, step) /\ step # Head(request[r].left)
      BY <1>2, <1>6, <2>1
    <3>2. CheckPolicy(r)
      BY <3>1 DEF RequestStep, CheckPolicy, AskChat, ReadChat, CallModel, ModelFails, StoreSummary,
                  ReadRetention, RetentionUnread, StoreReply, AuditGeneration, At
    <3>3. ~Ended(r, "blocked_by_policy")
      <4>1. SUFFICES ASSUME Ended(r, "blocked_by_policy") PROVE FALSE
        OBVIOUS
      <4>2. new.left = <<>>
        BY <4>1, <1>2, EndedAdvances DEF Inv, new
      <4> QED  BY <1>6, <4>2, NothingLeft
    <3>4. PolicyAllows(request[r].feature, request[r].provider)
      BY <3>2, <3>3 DEF CheckPolicy, PolicyAllows
    <3> QED  BY <1>2, <3>4 DEF Inv, WasAllowed
  <2>2. CASE ~Has(request[r].left, "policy")
    BY <1>2, <1>6, <2>2 DEF Inv, WasAllowed
  <2> QED  BY <2>1, <2>2
<1>7. ASSUME Answered(r)', request[r].feature # "greeting"
      PROVE  r \in permitted
  <2>1. CASE CallModel(r)
    <3>1. Head(request[r].left) = "model" /\ request[r].left # <<>>
      BY <2>1 DEF CallModel, At
    <3>2. Has(request[r].left, "model")
      <4>1. request[r].left \in Seq(StepNames)
        BY DEF Inv, AiTypes, RequestType
      <4>2. 1 \in DOMAIN request[r].left /\ request[r].left[1] = "model"
        BY <3>1, <4>1
      <4> QED  BY <4>2 DEF Has
    <3>3. ~Has(request[r].left, "policy")
      BY <1>2, <3>1, Ranks
    <3> QED  BY <1>7, <3>2, <3>3 DEF Inv, WasAllowed
  <2>2. CASE request'[r].outcome = request[r].outcome
    BY <1>7, <2>2 DEF Inv, WasAllowed, Answered
  <2> QED  BY <1>1, <1>7, <2>1, <2>2
<1>8. ASSUME NEW q \in Requests, q # r
      PROVE  /\ Answered(q)' => Answered(q)
             /\ Has(request[q].left, "model")' => Has(request[q].left, "model")
             /\ ~Has(request[q].left, "policy")' => ~Has(request[q].left, "policy")
  BY <1>2, <1>8 DEF Answered
<1> QED
  <2> SUFFICES ASSUME NEW q \in Requests
               PROVE  /\ (/\ request[q].feature # "greeting"
                          /\ Has(request[q].left, "model") /\ ~Has(request[q].left, "policy"))'
                         => q \in permitted'
                      /\ (Answered(q) /\ request[q].feature # "greeting")' => q \in permitted'
    BY <1>2, <1>3, <1>5 DEF WasAllowed
  <2>1. CASE q = r
    BY <1>1, <1>2, <1>6, <1>7, <2>1 DEF new
  <2>2. CASE q # r
    BY <1>1, <1>2, <1>8, <2>2 DEF Inv, WasAllowed
  <2> QED  BY <2>1, <2>2

LEMMA HasHead ==
  ASSUME AiTypes, NEW r \in Requests, NEW step, At(r, step)
  PROVE  Has(request[r].left, step) /\ Head(request[r].left) = step /\ Open(r)
<1>1. request[r].left \in Seq(StepNames) /\ request[r].left # <<>> /\ Head(request[r].left) = step
  BY DEF AiTypes, RequestType, At
<1>2. 1 \in DOMAIN request[r].left /\ request[r].left[1] = step
  BY <1>1
<1> QED  BY <1>1, <1>2 DEF Has, Open

LEMMA StepTypes ==
  ASSUME Inv, NEW r \in Requests, RequestStep(r)
  PROVE  AiTypes'
<1>1. /\ Advances(r, request'[r]) /\ UNCHANGED permitted
      /\ request'[r].context = request[r].context \/ ReadChat(r)
  BY StepAdvances DEF Inv, PolicyInv
<1>2. /\ request' \in [Requests -> RequestType]
      /\ \A q \in Requests \ {r} : request'[q] = request[q]
  BY <1>1, AdvanceFacts DEF Inv
<1>3. /\ messages' \in Seq([role : {"user", "assistant"}, of : Requests]) /\ Len(messages') \in Nat
      /\ messages' = messages \/ Len(messages') = Len(messages) + 1
  <2>1. messages \in Seq([role : {"user", "assistant"}, of : Requests])
    BY DEF Inv, AiTypes
  <2>2. \A role \in {"user", "assistant"} : [role |-> role, of |-> r] \in [role : {"user", "assistant"}, of : Requests]
    OBVIOUS
  <2>3. \/ messages' = messages
        \/ \E role \in {"user", "assistant"} : messages' = Append(messages, [role |-> role, of |-> r])
    BY DEF RequestStep, CheckPolicy, AskChat, ReadChat, CallModel, ModelFails, StoreSummary,
           ReadRetention, RetentionUnread, StoreReply, AuditGeneration
  <2>4. ASSUME NEW role \in {"user", "assistant"}, messages' = Append(messages, [role |-> role, of |-> r])
        PROVE  /\ messages' \in Seq([role : {"user", "assistant"}, of : Requests])
               /\ Len(messages') = Len(messages) + 1
    <3> DEFINE M == [role : {"user", "assistant"}, of : Requests]
               m == [role |-> role, of |-> r]
    <3>1. m \in M /\ messages \in Seq(M) /\ messages' = Append(messages, m)
      BY <2>1, <2>2, <2>4
    <3> HIDE DEF M, m
    <3>2. messages' \in Seq(M) /\ Len(messages') = Len(messages) + 1
      BY <3>1
    <3> QED  BY <3>2 DEF M
  <2>5. \/ messages' = messages
        \/ /\ messages' \in Seq([role : {"user", "assistant"}, of : Requests])
           /\ Len(messages') = Len(messages) + 1
    BY <2>3, <2>4
  <2>6. messages' \in Seq([role : {"user", "assistant"}, of : Requests])
    BY <2>1, <2>5
  <2>7. Len(messages') \in Nat
    BY <2>6
  <2> QED  BY <2>5, <2>6, <2>7
<1>4. \A q \in Requests : request'[q].context <= Len(messages')
  <2>1. Len(messages') >= Len(messages) /\ Len(messages) \in Nat
    BY <1>3 DEF Inv, AiTypes
  <2>2. \A q \in Requests : request[q].context <= Len(messages) /\ request[q].context \in Nat
    BY DEF Inv, AiTypes, RequestType
  <2>3. request'[r].context <= Len(messages')
    <3>1. CASE request'[r].context = request[r].context
      BY <1>3, <2>1, <2>2, <3>1
    <3>2. CASE ReadChat(r)
      <4> DEFINE req == [request[r] EXCEPT !.context = Len(messages)]
      <4>1. request[r] \in RequestType
        BY DEF Inv, AiTypes
      <4>2. /\ req \in RequestType /\ req.feature = request[r].feature
            /\ req.provider = request[r].provider /\ req.left = request[r].left
            /\ req.context = Len(messages)
        BY <2>1, <4>1 DEF RequestType
      <4>3. Done(r, req) /\ At(r, "prompt") /\ messages' = messages
        BY <3>2 DEF ReadChat
      <4> HIDE DEF req
      <4>4. request'[r].context = Len(messages)
        BY <4>2, <4>3, DoneAdvances, HasHead DEF Inv
      <4> QED  BY <2>1, <4>3, <4>4
    <3> QED  BY <1>1, <3>1, <3>2
  <2> QED  BY <1>2, <1>3, <2>1, <2>2, <2>3
<1>5. kept' \in [Requests -> KeptType]
  <2>1. request[r].decision \in KeptType /\ kept \in [Requests -> KeptType]
    BY DEF Inv, AiTypes, RequestType
  <2>2. CASE StoreReply(r)
    BY <2>1, <2>2 DEF StoreReply, KeptType
  <2>3. CASE AuditGeneration(r)
    BY <2>1, <2>3 DEF AuditGeneration
  <2>4. CASE kept' = kept
    BY <2>1, <2>4
  <2> QED  BY <2>2, <2>3, <2>4 DEF RequestStep, CheckPolicy, AskChat, ReadChat, CallModel, ModelFails,
             StoreSummary, ReadRetention, RetentionUnread
<1>6. summaries' \subseteq Requests /\ unread' \subseteq Requests /\ permitted' \subseteq Requests
  <2>1. summaries \subseteq Requests /\ unread \subseteq Requests /\ permitted \subseteq Requests
    BY DEF Inv, AiTypes
  <2>2. summaries' \in {summaries, summaries \cup {r}} /\ unread' \in {unread, unread \cup {r}}
    BY DEF RequestStep, CheckPolicy, AskChat, ReadChat, CallModel, ModelFails, StoreSummary,
           ReadRetention, RetentionUnread, StoreReply, AuditGeneration
  <2> QED  BY <1>1, <2>1, <2>2
<1>7. keepable' \in [Requests -> SUBSET KeptType]
  <2>1. keepable \in [Requests -> SUBSET KeptType] /\ Keepable \subseteq KeptType
    BY KeepableTyped DEF Inv, PolicyInv, AiTypes
  <2>2. keepable' = keepable \/ keepable' = [keepable EXCEPT ![r] = Keepable]
    BY DEF RequestStep, CheckPolicy, AskChat, ReadChat, CallModel, ModelFails, StoreSummary,
           ReadRetention, RetentionUnread, StoreReply, AuditGeneration
  <2> QED  BY <2>1, <2>2
<1> QED  BY <1>2, <1>3, <1>4, <1>5, <1>6, <1>7 DEF AiTypes, RequestType, KeptType

LEMMA StepWillBeKept ==
  ASSUME Inv, NEW r \in Requests, RequestStep(r)
  PROVE  WillBeKept'
<1> DEFINE new == request'[r]
<1>1. /\ Advances(r, new) /\ UNCHANGED <<policyVars, permitted>>
      /\ \/ request'[r].outcome = request[r].outcome
         \/ CallModel(r)
         \/ request'[r].left = <<>> /\ ~Answered(r)'
      /\ request'[r].decision = request[r].decision \/ ReadRetention(r) \/ RetentionUnread(r)
  BY StepAdvances DEF Inv, PolicyInv
<1>2. /\ \A q \in Requests \ {r} : request'[q] = request[q]
      /\ Open(r)
      /\ \A step : Has(new.left, step) => Has(request[r].left, step) /\ step # Head(request[r].left)
      /\ \A step : Has(request[r].left, step) => Rank(step) >= Rank(Head(request[r].left))
      /\ \/ \A step : Has(new.left, step) <=> Has(request[r].left, step) /\ step # Head(request[r].left)
         \/ (\A step : ~Has(new.left, step)) /\ new.left = <<>> /\ ~Answered(r)'
  BY <1>1, AdvanceFacts DEF Inv
<1> HIDE DEF new
<1>3. Keepable' = Keepable
  BY <1>1 DEF policyVars, Keepable, InForce, KeptUnder
<1>4. /\ \A q \in Requests \ {r} : keepable'[q] = keepable[q]
      /\ keepable'[r] = keepable[r] \/ CallModel(r)
      /\ unread \subseteq unread'
  <2>1. \/ keepable' = keepable
        \/ CallModel(r) /\ keepable' = [keepable EXCEPT ![r] = Keepable]
    BY DEF RequestStep, CheckPolicy, AskChat, ReadChat, CallModel, ModelFails, StoreSummary,
           ReadRetention, RetentionUnread, StoreReply, AuditGeneration
  <2>2. unread \subseteq unread'
    BY DEF RequestStep, CheckPolicy, AskChat, ReadChat, CallModel, ModelFails, StoreSummary,
           ReadRetention, RetentionUnread, StoreReply, AuditGeneration
  <2> QED  BY <2>1, <2>2 DEF Inv, AiTypes
<1>5. CallModel(r) => At(r, "model") /\ keepable'[r] = Keepable /\ Answered(r)'
  <2> SUFFICES ASSUME CallModel(r) PROVE At(r, "model") /\ keepable'[r] = Keepable /\ Answered(r)'
    OBVIOUS
  <2>1. PICK outcome \in {"succeeded", "fallback_mock"} : Done(r, [request[r] EXCEPT !.outcome = outcome])
    BY RepliesAnswer DEF CallModel
  <2> DEFINE req == [request[r] EXCEPT !.outcome = outcome]
  <2>2. request[r] \in RequestType
    BY DEF Inv, AiTypes
  <2>3. /\ req \in RequestType /\ req.feature = request[r].feature
        /\ req.provider = request[r].provider /\ req.left = request[r].left /\ req.outcome = outcome
    BY <2>2 DEF RequestType, Outcomes
  <2>4. Done(r, req)
    BY <2>1
  <2> HIDE DEF req
  <2>5. request'[r].outcome = outcome
    BY <1>2, <2>3, <2>4, DoneAdvances DEF Inv
  <2>6. At(r, "model") /\ keepable'[r] = Keepable
    BY DEF CallModel, Inv, AiTypes
  <2> QED  BY <2>5, <2>6 DEF Answered
<1>6. (ReadRetention(r) \/ RetentionUnread(r)) => At(r, "retention")
  BY DEF ReadRetention, RetentionUnread
<1>7. Has(new.left, "model") => Has(new.left, "retention")
  <2>1. SUFFICES ASSUME Has(new.left, "model") PROVE Has(new.left, "retention")
    OBVIOUS
  <2>2. Has(request[r].left, "model") /\ Has(request[r].left, "retention")
    BY <1>2, <2>1 DEF Inv, WillBeKept
  <2>3. "retention" # Head(request[r].left)
    BY <1>2, <2>2, Ranks
  <2> QED  BY <1>2, <2>1, <2>2, <2>3
<1>8. Has(new.left, "retention") /\ ~Has(new.left, "model") => Answered(r)'
  <2>1. SUFFICES ASSUME Has(new.left, "retention"), ~Has(new.left, "model") PROVE Answered(r)'
    OBVIOUS
  <2>2. \A step : Has(new.left, step) <=> Has(request[r].left, step) /\ step # Head(request[r].left)
    BY <1>2, <2>1
  <2>3. CASE Has(request[r].left, "model")
    <3>1. Head(request[r].left) = "model"
      BY <2>1, <2>2, <2>3
    <3>2. CallModel(r) \/ ModelFails(r)
      BY <3>1 DEF RequestStep, CheckPolicy, AskChat, ReadChat, CallModel, ModelFails, StoreSummary,
                  ReadRetention, RetentionUnread, StoreReply, AuditGeneration, At
    <3>3. ModelFails(r) => new.left = <<>>
      BY <1>2, EndedAdvances DEF ModelFails, Inv, new
    <3> QED  BY <1>5, <2>1, <3>2, <3>3, NothingLeft
  <2>4. CASE ~Has(request[r].left, "model")
    <3>1. Answered(r)
      BY <2>1, <2>2, <2>4 DEF Inv, WillBeKept
    <3>2. CallModel(r) => Has(request[r].left, "model")
      BY <1>5, HasHead DEF Inv
    <3>3. new.left # <<>>
      BY <2>1, NothingLeft
    <3>4. request'[r].outcome = request[r].outcome
      BY <1>1, <2>4, <3>2, <3>3 DEF new
    <3> QED  BY <3>1, <3>4 DEF Answered
  <2> QED  BY <2>3, <2>4
<1>9. Open(r)' /\ Answered(r)' => Keepable \subseteq keepable'[r]
  <2>1. CASE CallModel(r)
    BY <1>5, <2>1
  <2>2. CASE ~CallModel(r)
    <3>1. SUFFICES ASSUME Open(r)', Answered(r)' PROVE Keepable \subseteq keepable'[r]
      OBVIOUS
    <3>2. request'[r].outcome = request[r].outcome
      BY <1>1, <2>2, <3>1
    <3>3. Answered(r) /\ keepable'[r] = keepable[r]
      BY <1>4, <2>2, <3>1, <3>2 DEF Answered
    <3> QED  BY <1>2, <3>3 DEF Inv, WillBeKept
  <2> QED  BY <2>1, <2>2
<1>10. ASSUME r \notin unread', Has(new.left, "reply") \/ Has(new.left, "audit"), ~Has(new.left, "retention")
       PROVE  request'[r].decision \in keepable'[r]
  <2>1. \A step : Has(new.left, step) <=> Has(request[r].left, step) /\ step # Head(request[r].left)
    BY <1>2, <1>10
  <2>2. r \notin unread
    BY <1>4, <1>10
  <2>3. CASE Has(request[r].left, "retention")
    <3>1. Head(request[r].left) = "retention"
      BY <1>10, <2>1, <2>3
    <3>2. ReadRetention(r) \/ RetentionUnread(r)
      BY <3>1 DEF RequestStep, CheckPolicy, AskChat, ReadChat, CallModel, ModelFails, StoreSummary,
                  ReadRetention, RetentionUnread, StoreReply, AuditGeneration, At
    <3>3. ReadRetention(r)
      BY <1>10, <3>2 DEF RetentionUnread
    <3>4. PICK config \in InForce("retention") :
            Done(r, [request[r] EXCEPT !.decision = KeptUnder(config)])
      BY <3>3 DEF ReadRetention
    <3> DEFINE req == [request[r] EXCEPT !.decision = KeptUnder(config)]
    <3>5. request[r] \in RequestType /\ KeptUnder(config) \in KeptType /\ KeptUnder(config) \in Keepable
      BY KeepableTyped DEF Inv, PolicyInv, AiTypes
    <3>6. /\ req \in RequestType /\ req.feature = request[r].feature
          /\ req.provider = request[r].provider /\ req.left = request[r].left
          /\ req.decision = KeptUnder(config)
      BY <3>5 DEF RequestType
    <3>7. Done(r, req)
      BY <3>4
    <3> HIDE DEF req
    <3>8. request'[r].decision \in Keepable
      BY <1>2, <3>5, <3>6, <3>7, DoneAdvances DEF Inv
    <3>9. ~Has(request[r].left, "model")
      BY <1>2, <3>1, Ranks
    <3>10. Keepable \subseteq keepable[r]
      BY <1>2, <2>3, <3>9 DEF Inv, WillBeKept
    <3>11. keepable' = keepable
      BY <3>3 DEF ReadRetention
    <3> QED  BY <3>8, <3>10, <3>11
  <2>4. CASE ~Has(request[r].left, "retention")
    <3>1. request[r].decision \in keepable[r]
      BY <1>10, <2>1, <2>2, <2>4 DEF Inv, WillBeKept
    <3>2. ~CallModel(r)
      <4>1. SUFFICES ASSUME CallModel(r) PROVE FALSE
        OBVIOUS
      <4>2. Has(request[r].left, "model")
        BY <1>5, <4>1, HasHead DEF Inv
      <4> QED  BY <2>4, <4>2 DEF Inv, WillBeKept
    <3>3. ~(ReadRetention(r) \/ RetentionUnread(r))
      BY <1>6, <2>4, HasHead DEF Inv
    <3> QED  BY <1>1, <1>4, <3>1, <3>2, <3>3
  <2> QED  BY <2>3, <2>4
<1> QED
  <2> SUFFICES ASSUME NEW q \in Requests
               PROVE  /\ (Has(request[q].left, "model") => Has(request[q].left, "retention"))'
                      /\ (Has(request[q].left, "retention") /\ ~Has(request[q].left, "model") => Answered(q))'
                      /\ (Open(q) /\ Answered(q) => Keepable \subseteq keepable[q])'
                      /\ (/\ q \notin unread
                          /\ Has(request[q].left, "reply") \/ Has(request[q].left, "audit")
                          /\ ~Has(request[q].left, "retention")
                          => request[q].decision \in keepable[q])'
    BY DEF WillBeKept
  <2>1. CASE q = r
    BY <1>3, <1>7, <1>8, <1>9, <1>10, <2>1 DEF new
  <2>2. CASE q # r
    <3>1. request'[q] = request[q] /\ keepable'[q] = keepable[q] /\ (q \notin unread' => q \notin unread)
      BY <1>2, <1>4, <2>2
    <3> QED  BY <1>3, <3>1 DEF Inv, WillBeKept, Open, Answered
  <2> QED  BY <2>1, <2>2

LEMMA StepChatOrder ==
  ASSUME Inv, NEW r \in Requests, RequestStep(r)
  PROVE  ChatOrder'
<1> DEFINE new == request'[r]
<1>1. /\ Advances(r, new)
      /\ request'[r].context = request[r].context \/ ReadChat(r)
  BY StepAdvances DEF Inv, PolicyInv
<1>2. /\ \A q \in Requests \ {r} : request'[q] = request[q]
      /\ Open(r) /\ request[r].feature # "none"
      /\ \A q \in Requests : request'[q].feature = request[q].feature
      /\ \A step : Has(new.left, step) => Has(request[r].left, step) /\ step # Head(request[r].left)
      /\ \A step : Has(request[r].left, step) => Rank(step) >= Rank(Head(request[r].left))
      /\ \/ \A step : Has(new.left, step) <=> Has(request[r].left, step) /\ step # Head(request[r].left)
         \/ (\A step : ~Has(new.left, step)) /\ new.left = <<>> /\ ~Answered(r)'
  BY <1>1, AdvanceFacts DEF Inv
<1> HIDE DEF new
<1>3. /\ messages \in Seq([role : {"user", "assistant"}, of : Requests]) /\ Len(messages) \in Nat
      /\ DOMAIN messages = 1 .. Len(messages)
      /\ \A q \in Requests : request[q].context \in Nat /\ request[q].context <= Len(messages)
      /\ \A j \in DOMAIN messages : messages[j].of \in Requests
  <2>1. messages \in Seq([role : {"user", "assistant"}, of : Requests])
    BY DEF Inv, AiTypes
  <2>3. \A j \in DOMAIN messages : messages[j].of \in Requests
    BY MessageTypes DEF Inv
  <2>4. Len(messages) \in Nat /\ DOMAIN messages = 1 .. Len(messages)
    BY <2>1
  <2>5. \A q \in Requests : request[q].context \in Nat /\ request[q].context <= Len(messages)
    BY DEF Inv, AiTypes, RequestType
  <2> QED  BY <2>1, <2>3, <2>4, <2>5
<1>4. \/ messages' = messages
      \/ AskChat(r) /\ messages' = Append(messages, Question(r))
      \/ StoreReply(r) /\ messages' = Append(messages, [role |-> "assistant", of |-> r])
  BY DEF RequestStep, CheckPolicy, AskChat, ReadChat, CallModel, ModelFails, StoreSummary,
         ReadRetention, RetentionUnread, StoreReply, AuditGeneration, Question
<1>5. ASSUME NEW m, messages' = Append(messages, m)
      PROVE  /\ DOMAIN messages' = 1 .. Len(messages) + 1
             /\ \A i \in DOMAIN messages : messages'[i] = messages[i]
             /\ messages'[Len(messages) + 1] = m
  BY <1>3, <1>5
<1>6. \A i \in DOMAIN messages : i \in DOMAIN messages' /\ messages'[i] = messages[i]
  <2>1. CASE messages' = messages
    BY <2>1
  <2>2. ASSUME NEW m, messages' = Append(messages, m)
        PROVE  \A i \in DOMAIN messages : i \in DOMAIN messages' /\ messages'[i] = messages[i]
    BY <1>3, <1>5, <2>2
  <2> QED  BY <1>4, <2>1, <2>2
<1>7. AskChat(r) => Len(messages) + 1 \in DOMAIN messages' /\ messages'[Len(messages) + 1] = Question(r)
  <2>1. AskChat(r) => messages' = Append(messages, Question(r))
    BY DEF AskChat, Question
  <2>2. Len(messages) + 1 \in 1 .. Len(messages) + 1
    BY <1>3
  <2> QED  BY <1>5, <2>1, <2>2
<1>8. ASSUME NEW j \in DOMAIN messages', messages'[j].role = "assistant", j \notin DOMAIN messages
      PROVE  StoreReply(r) /\ j = Len(messages) + 1 /\ messages'[j].of = r
  <2>1. CASE AskChat(r) /\ messages' = Append(messages, Question(r))
    BY <1>3, <1>5, <1>8, <2>1 DEF Question
  <2>2. CASE StoreReply(r) /\ messages' = Append(messages, [role |-> "assistant", of |-> r])
    BY <1>3, <1>5, <1>8, <2>2
  <2> QED  BY <1>4, <1>8, <2>1, <2>2
<1>9. ReadChat(r) => Has(request[r].left, "prompt") /\ Head(request[r].left) = "prompt"
  BY HasHead DEF ReadChat, Inv
<1>10. ASSUME Has(new.left, "prompt"), ~Has(new.left, "ask")
       PROVE  \E i \in DOMAIN messages' : messages'[i] = Question(r)
  <2>1. CASE Has(request[r].left, "ask")
    <3>1. Head(request[r].left) = "ask"
      BY <1>2, <1>10, <2>1
    <3>2. AskChat(r)
      BY <3>1 DEF RequestStep, CheckPolicy, AskChat, ReadChat, CallModel, ModelFails, StoreSummary,
                  ReadRetention, RetentionUnread, StoreReply, AuditGeneration, At
    <3> QED  BY <1>7, <3>2
  <2>2. CASE ~Has(request[r].left, "ask")
    BY <1>2, <1>6, <1>10, <2>2 DEF Inv, ChatOrder
  <2> QED  BY <2>1, <2>2
<1>11. ASSUME Has(new.left, "reply"), ~Has(new.left, "prompt")
       PROVE  \E i \in 1 .. request'[r].context : messages'[i] = Question(r)
  <2>1. CASE Has(request[r].left, "prompt")
    <3>1. Head(request[r].left) = "prompt"
      BY <1>2, <1>11, <2>1
    <3>2. ReadChat(r)
      BY <3>1 DEF RequestStep, CheckPolicy, AskChat, ReadChat, CallModel, ModelFails, StoreSummary,
                  ReadRetention, RetentionUnread, StoreReply, AuditGeneration, At
    <3>3. ~Has(request[r].left, "ask")
      BY <1>2, <3>1, Ranks
    <3>4. PICK i \in DOMAIN messages : messages[i] = Question(r)
      BY <2>1, <3>3 DEF Inv, ChatOrder
    <3> DEFINE req == [request[r] EXCEPT !.context = Len(messages)]
    <3>5. request[r] \in RequestType
      BY DEF Inv, AiTypes
    <3>6. /\ req \in RequestType /\ req.feature = request[r].feature
          /\ req.provider = request[r].provider /\ req.left = request[r].left
          /\ req.context = Len(messages)
      BY <1>3, <3>5 DEF RequestType
    <3>7. Done(r, req)
      BY <3>2 DEF ReadChat
    <3> HIDE DEF req
    <3>8. request'[r].context = Len(messages)
      BY <1>2, <3>6, <3>7, DoneAdvances DEF Inv
    <3> QED  BY <1>3, <1>6, <3>4, <3>8
  <2>2. CASE ~Has(request[r].left, "prompt")
    <3>1. request'[r].context = request[r].context
      BY <1>1, <1>9, <2>2
    <3>2. PICK i \in 1 .. request[r].context : messages[i] = Question(r)
      BY <1>2, <1>11, <2>2 DEF Inv, ChatOrder
    <3>3. i \in DOMAIN messages
      BY <1>3, <3>2
    <3> QED  BY <1>6, <3>1, <3>2, <3>3
  <2> QED  BY <2>1, <2>2
<1>12. ASSUME NEW j \in DOMAIN messages', messages'[j].role = "assistant"
       PROVE  /\ request'[messages'[j].of].feature # "none"
              /\ ~Has(request'[messages'[j].of].left, "prompt")
              /\ \E i \in 1 .. j - 1 :
                   /\ messages'[i] = Question(messages'[j].of)
                   /\ i <= request'[messages'[j].of].context
  <2>1. CASE j \in DOMAIN messages
    <3>1. messages'[j] = messages[j] /\ messages[j].of \in Requests
      BY <1>3, <1>6, <2>1
    <3>2. PICK q \in Requests : q = messages[j].of
      BY <3>1
    <3>3. /\ request[q].feature # "none" /\ ~Has(request[q].left, "prompt")
          /\ \E i \in 1 .. j - 1 : messages[i] = Question(q) /\ i <= request[q].context
      BY <1>12, <2>1, <3>1, <3>2 DEF Inv, ChatOrder
    <3>4. \A i \in 1 .. j - 1 : messages'[i] = messages[i]
      BY <1>3, <1>6, <2>1
    <3>5. CASE q = r
      <4>1. request'[r].context = request[r].context /\ ~Has(request'[r].left, "prompt")
        BY <1>1, <1>2, <1>9, <3>3, <3>5 DEF new
      <4> QED  BY <1>2, <3>1, <3>2, <3>3, <3>4, <3>5, <4>1
    <3>6. CASE q # r
      BY <1>2, <3>1, <3>2, <3>3, <3>4, <3>6
    <3> QED  BY <3>5, <3>6
  <2>2. CASE j \notin DOMAIN messages
    <3>1. StoreReply(r) /\ j = Len(messages) + 1 /\ messages'[j].of = r
      BY <1>8, <1>12, <2>2
    <3>2. Has(request[r].left, "reply") /\ Head(request[r].left) = "reply"
      BY <3>1, HasHead DEF StoreReply, Inv
    <3>3. ~Has(request[r].left, "prompt")
      BY <1>2, <3>2, Ranks
    <3>4. PICK i \in 1 .. request[r].context : messages[i] = Question(r)
      BY <3>2, <3>3 DEF Inv, ChatOrder
    <3>5. i \in 1 .. j - 1 /\ i \in DOMAIN messages /\ i <= request[r].context
      BY <1>3, <3>1, <3>4
    <3>6. request'[r].context = request[r].context /\ ~Has(request'[r].left, "prompt")
      BY <1>1, <1>2, <1>9, <3>3 DEF new
    <3> QED  BY <1>2, <1>6, <3>1, <3>4, <3>5, <3>6
  <2> QED  BY <2>1, <2>2
<1>13. ASSUME NEW q \in Requests
       PROVE  /\ (Has(request[q].left, "prompt") /\ ~Has(request[q].left, "ask"))'
                   => \E i \in DOMAIN messages' : messages'[i] = Question(q)
              /\ (Has(request[q].left, "reply") /\ ~Has(request[q].left, "prompt"))'
                   => \E i \in 1 .. request'[q].context : messages'[i] = Question(q)
  <2>1. CASE q = r
    BY <1>10, <1>11, <2>1 DEF new
  <2>2. CASE q # r
    <3>1. request'[q] = request[q] /\ 1 .. request[q].context \subseteq DOMAIN messages
      BY <1>2, <1>3, <2>2
    <3> QED  BY <1>6, <3>1 DEF Inv, ChatOrder
  <2> QED  BY <2>1, <2>2
<1> QED  BY <1>12, <1>13 DEF ChatOrder, Question

LEMMA StartKeeps ==
  ASSUME Inv, NEW r \in Requests, NEW f \in Purposes[r], NEW prov \in Selections,
         StartRequest(r, f, prov)
  PROVE  AiTypes' /\ InOrder' /\ WasAllowed' /\ WillBeKept' /\ ChatOrder'
<1>1. f \in Features /\ prov \in AiProviders \cup {"none"} /\ f # "none"
  BY AiAssumption DEF Features
<1>2. /\ request[r].feature = "none" /\ request[r].left = <<>> /\ request[r].outcome = "none"
      /\ request[r] \in RequestType
  BY DEF StartRequest, Inv, InOrder, AiTypes
<1>3. PICK new : new = [request[r] EXCEPT !.feature = f, !.provider = prov, !.left = Steps(f)]
  OBVIOUS
<1>4. /\ Steps(f) \in Seq(StepNames) /\ Steps(f) # <<>> /\ Sorted(Steps(f))
      /\ Has(Steps(f), "model") /\ Has(Steps(f), "retention")
      /\ f # "greeting" => Has(Steps(f), "policy")
      /\ Has(Steps(f), "prompt") => Has(Steps(f), "ask")
      /\ Has(Steps(f), "reply") => Has(Steps(f), "prompt")
  BY <1>1, StepsSorted
<1>5. /\ new \in RequestType /\ new.feature = f /\ new.provider = prov /\ new.left = Steps(f)
      /\ new.outcome = "none" /\ new.context = request[r].context
  <2>1. new.feature = f /\ new.provider = prov /\ new.left = Steps(f)
    BY <1>2, <1>3 DEF RequestType
  <2>2. new.outcome = "none" /\ new.context = request[r].context
    BY <1>2, <1>3
  <2>3. new \in RequestType
    BY <1>1, <1>2, <1>3, <1>4 DEF RequestType
  <2> QED  BY <2>1, <2>2, <2>3
<1>6. /\ request' \in [Requests -> RequestType] /\ request'[r] = new
      /\ \A q \in Requests \ {r} : request'[q] = request[q]
  <2>1. request \in [Requests -> RequestType]
    BY DEF Inv, AiTypes
  <2>2. request' = [request EXCEPT ![r] = new]
    BY <1>3, <2>1 DEF StartRequest
  <2> QED  BY <1>5, <2>1, <2>2
<1>7. /\ UNCHANGED <<policyVars, messages, kept, summaries, keepable, unread>>
      /\ permitted' = IF PolicyAllows(f, prov) THEN permitted \cup {r} ELSE permitted
  BY DEF StartRequest
<1>8. /\ \A g, h : PolicyAllows(g, h)' <=> PolicyAllows(g, h)
      /\ Keepable' = Keepable
  BY <1>7 DEF policyVars, PolicyAllows, InForce, Allows, Keepable, KeptUnder
<1>9. ~Answered(r)'
  BY <1>5, <1>6 DEF Answered
<1>10. AiTypes'
  <2>1. \A q \in Requests : request'[q].context <= Len(messages')
    BY <1>5, <1>6, <1>7 DEF Inv, AiTypes
  <2>2. permitted' \subseteq Requests
    BY <1>7 DEF Inv, AiTypes
  <2> QED  BY <1>6, <1>7, <2>1, <2>2 DEF Inv, AiTypes, RequestType, KeptType
<1>11. InOrder'
  BY <1>1, <1>4, <1>5, <1>6 DEF Inv, InOrder
<1>12. WasAllowed'
  <2> SUFFICES ASSUME NEW q \in Requests
               PROVE  /\ (Open(q) /\ PolicyAllows(request[q].feature, request[q].provider))' => q \in permitted'
                      /\ (/\ request[q].feature # "greeting"
                          /\ Has(request[q].left, "model") /\ ~Has(request[q].left, "policy"))'
                         => q \in permitted'
                      /\ (Answered(q) /\ request[q].feature # "greeting")' => q \in permitted'
    BY DEF WasAllowed
  <2>1. CASE q = r
    BY <1>4, <1>5, <1>6, <1>7, <1>8, <1>9, <2>1
  <2>2. CASE q # r
    BY <1>6, <1>7, <1>8, <2>2 DEF Inv, WasAllowed, Open, Answered
  <2> QED  BY <2>1, <2>2
<1>13. WillBeKept'
  <2> SUFFICES ASSUME NEW q \in Requests
               PROVE  /\ (Has(request[q].left, "model") => Has(request[q].left, "retention"))'
                      /\ (Has(request[q].left, "retention") /\ ~Has(request[q].left, "model") => Answered(q))'
                      /\ (Open(q) /\ Answered(q) => Keepable \subseteq keepable[q])'
                      /\ (/\ q \notin unread
                          /\ Has(request[q].left, "reply") \/ Has(request[q].left, "audit")
                          /\ ~Has(request[q].left, "retention")
                          => request[q].decision \in keepable[q])'
    BY DEF WillBeKept
  <2>1. CASE q = r
    BY <1>4, <1>5, <1>6, <1>9, <2>1
  <2>2. CASE q # r
    BY <1>6, <1>7, <1>8, <2>2 DEF Inv, WillBeKept, Open, Answered
  <2> QED  BY <2>1, <2>2
<1>14. ChatOrder'
  <2>1. ASSUME NEW q \in Requests
        PROVE  /\ (Has(request[q].left, "prompt") /\ ~Has(request[q].left, "ask"))'
                    => \E i \in DOMAIN messages' : messages'[i] = Question(q)
               /\ (Has(request[q].left, "reply") /\ ~Has(request[q].left, "prompt"))'
                    => \E i \in 1 .. request'[q].context : messages'[i] = Question(q)
    <3>1. CASE q = r
      BY <1>4, <1>5, <1>6, <3>1
    <3>2. CASE q # r
      BY <1>6, <1>7, <3>2 DEF Inv, ChatOrder
    <3> QED  BY <3>1, <3>2
  <2>2. ASSUME NEW j \in DOMAIN messages, messages[j].role = "assistant"
        PROVE  /\ request'[messages[j].of] = request[messages[j].of]
               /\ request[messages[j].of].feature # "none"
               /\ ~Has(request[messages[j].of].left, "prompt")
               /\ \E i \in 1 .. j - 1 :
                    /\ messages[i] = Question(messages[j].of)
                    /\ i <= request[messages[j].of].context
    <3>1. messages[j].of \in Requests
      BY MessageTypes DEF Inv
    <3>2. /\ request[messages[j].of].feature # "none"
          /\ ~Has(request[messages[j].of].left, "prompt")
          /\ \E i \in 1 .. j - 1 :
               /\ messages[i] = Question(messages[j].of)
               /\ i <= request[messages[j].of].context
      BY <2>2 DEF Inv, ChatOrder
    <3> QED  BY <1>2, <1>6, <3>1, <3>2
  <2> QED  BY <1>7, <2>1, <2>2 DEF ChatOrder, Question
<1> QED  BY <1>10, <1>11, <1>12, <1>13, <1>14

LEMMA AdminKeeps ==
  ASSUME Inv, AdminStep
  PROVE  Inv'
<1>1. PolicyInv'
  BY PolicyStep DEF Inv, AdminStep
<1>2. /\ UNCHANGED <<request, messages, kept, summaries, unread>>
      /\ permitted' = permitted \cup
           {r \in Requests : Open(r) /\ PolicyAllows(request[r].feature, request[r].provider)'}
      /\ keepable' = [r \in Requests |-> IF Open(r) /\ Answered(r) THEN keepable[r] \cup Keepable'
                                         ELSE keepable[r]]
  BY DEF AdminStep
<1>3. Keepable' \subseteq KeptType
  <2>1. PolicyTypes' => (Keepable \subseteq KeptType)'
    BY KeepableTypes, PTL
  <2> QED  BY <1>1, <2>1 DEF PolicyInv, KeptType, Modes
<1>4. AiTypes'
  BY <1>2, <1>3 DEF Inv, AiTypes, RequestType, KeptType
<1>5. InOrder' /\ ChatOrder'
  BY <1>2 DEF Inv, InOrder, ChatOrder, Question
<1>6. WasAllowed'
  BY <1>2 DEF Inv, WasAllowed, Open, Answered
<1>7. WillBeKept'
  BY <1>2 DEF Inv, WillBeKept, Open, Answered
<1> QED  BY <1>1, <1>4, <1>5, <1>6, <1>7 DEF Inv

LEMMA InitInv == Init => Inv
<1> SUFFICES ASSUME Init PROVE Inv
  OBVIOUS
<1>1. PolicyInv
  BY PolicyInitInv DEF Init
<1>2. NotMade \in RequestType /\ NothingKept \in KeptType /\ NotMade.left = <<>>
      /\ NotMade.outcome = "none" /\ NotMade.context = 0
  BY DEF NotMade, NothingKept, RequestType, KeptType, Modes, Outcomes
<1>3. \A r \in Requests : request[r] = NotMade
  BY DEF Init
<1>4. Sorted(<<>>)
  BY DEF Sorted
<1>5. AiTypes
  <2>1. request \in [Requests -> RequestType] /\ kept \in [Requests -> KeptType]
    BY <1>2 DEF Init
  <2>2. messages \in Seq([role : {"user", "assistant"}, of : Requests]) /\ Len(messages) = 0
    BY DEF Init
  <2>3. keepable \in [Requests -> SUBSET KeptType]
    BY DEF Init
  <2> QED  BY <1>2, <1>3, <2>1, <2>2, <2>3 DEF Init, AiTypes
<1>6. InOrder /\ WasAllowed /\ WillBeKept
  BY <1>2, <1>3, <1>4, NothingLeft DEF InOrder, WasAllowed, WillBeKept, Open, Answered
<1>7. ChatOrder
  <2>1. DOMAIN messages = {}
    BY DEF Init
  <2> QED  BY <1>2, <1>3, <2>1, NothingLeft DEF ChatOrder
<1> QED  BY <1>1, <1>5, <1>6, <1>7 DEF Inv

LEMMA NextInv == Inv /\ [Next]_vars => Inv'
<1> SUFFICES ASSUME Inv, [Next]_vars PROVE Inv'
  OBVIOUS
<1>1. CASE AdminStep
  BY <1>1, AdminKeeps
<1>2. ASSUME NEW r \in Requests, NEW f \in Purposes[r], NEW prov \in Selections, StartRequest(r, f, prov)
      PROVE  Inv'
  <2>1. UNCHANGED policyVars
    BY <1>2 DEF StartRequest
  <2> QED  BY <1>2, <2>1, StartKeeps, PolicyStutter DEF Inv
<1>3. ASSUME NEW r \in Requests, RequestStep(r)
      PROVE  Inv'
  <2>1. UNCHANGED policyVars /\ Advances(r, request'[r])
    BY <1>3, StepAdvances DEF Inv, PolicyInv
  <2>2. InOrder'
    BY <2>1, AdvanceFacts DEF Inv
  <2> QED  BY <1>3, <2>1, <2>2, StepTypes, StepWasAllowed, StepWillBeKept, StepChatOrder, PolicyStutter DEF Inv
<1>4. CASE UNCHANGED vars
  <2>1. UNCHANGED policyVars /\ UNCHANGED aiVars
    BY <1>4 DEF vars
  <2>2. AiTypes'
    BY <2>1 DEF Inv, AiTypes, aiVars, RequestType, KeptType
  <2>3. InOrder' /\ ChatOrder'
    BY <2>1 DEF Inv, InOrder, ChatOrder, Question, aiVars
  <2>4. WasAllowed' /\ WillBeKept'
    BY <2>1 DEF Inv, WasAllowed, WillBeKept, Open, Answered, aiVars, policyVars, PolicyAllows, InForce,
                Allows, Keepable, KeptUnder
  <2> QED  BY <2>1, <2>2, <2>3, <2>4, PolicyStutter DEF Inv
<1> QED  BY <1>1, <1>2, <1>3, <1>4 DEF Next

LEMMA Invariant == Spec => []Inv
<1>1. Init => Inv
  BY InitInv
<1>2. Inv /\ [Next]_vars => Inv'
  BY NextInv
<1> QED  BY <1>1, <1>2, PTL DEF Spec

-----------------------------------------------------------------------------
(* Theorems *)

\* The rows of the policies, the requests and what is stored of them have
\* their types, whatever administrators and operators do (prisma schema).
THEOREM RequestTypes == Spec => []TypeOK
<1>1. Inv => TypeOK
  <2> SUFFICES ASSUME Inv PROVE TypeOK
    OBVIOUS
  <2>1. PolicyTypeOK
    BY DEF Inv, PolicyInv, PolicyTypes, PolicyTypeOK, RowsOf, Saves
  <2>2. \A i \in DOMAIN messages :
          messages[i].role \in {"user", "assistant"} /\ messages[i].of \in Requests
    BY MessageTypes DEF Inv
  <2>3. ASSUME NEW r \in Requests
        PROVE  /\ request[r].feature \in Features \cup {"none"}
               /\ request[r].provider \in AiProviders \cup {"none"}
               /\ request[r].outcome \in Outcomes
               /\ request[r].decision \in KeptType
               /\ request[r].context \in 0 .. Len(messages)
               /\ kept[r] \in KeptType /\ keepable[r] \subseteq KeptType
    <3>1. request[r] \in RequestType /\ request[r].context <= Len(messages) /\ Len(messages) \in Nat
      BY DEF Inv, AiTypes
    <3>2. request[r].context \in Nat
      BY <3>1 DEF RequestType
    <3>3. /\ request[r].feature \in Features \cup {"none"}
          /\ request[r].provider \in AiProviders \cup {"none"}
          /\ request[r].outcome \in Outcomes
          /\ request[r].decision \in KeptType
      BY <3>1 DEF RequestType
    <3>4. kept[r] \in KeptType /\ keepable[r] \subseteq KeptType
      BY DEF Inv, AiTypes
    <3> QED  BY <3>1, <3>2, <3>3, <3>4
  <2> QED  BY <2>1, <2>2, <2>3 DEF Inv, AiTypes, TypeOK, KeptType
<1> QED  BY <1>1, Invariant, PTL

\* Requests for a policy that do not overlap and do not stop half-way leave
\* one row, with what the PUT requests made of the default, however often it
\* was read before (AdminPolicyService.get*Policy and update*Policy).
THEOREM LoneUpdates == Spec => []LoneUpdatesStand
<1>1. Inv => LoneUpdatesStand
  BY DEF Inv, PolicyInv, LoneInv, Stands, LoneUpdatesStand
<1> QED  BY <1>1, Invariant, PTL

\* No draft, summary or chat reaches a model without the AI policy having
\* allowed it at some moment of the request (checkAiPolicy before generate).
THEOREM Allowed == Spec => []GenerationWasAllowed
<1>1. Inv => GenerationWasAllowed
  BY DEF Inv, WasAllowed, GenerationWasAllowed
<1> QED  BY <1>1, Invariant, PTL

\* Every stored answer of a chat follows its question, and the model had the
\* question before it, however many messages of others came in between.
THEOREM AnswersFollow == Spec => []AnswersSeeTheirQuestion
<1>1. Inv => AnswersSeeTheirQuestion
  BY DEF Inv, ChatOrder, Question, AnswersSeeTheirQuestion
<1> QED  BY <1>1, Invariant, PTL

\* What audit events and chat messages keep of a generation is what the
\* retention policy let them keep at some moment after the answer.
THEOREM RetentionHolds == Spec => StoredAsRetained
<1> DEFINE Step ==
      \A r \in Requests \ unread :
        /\ kept'[r].output # kept[r].output =>
             \E k \in keepable[r] : kept'[r].output = k.output
        /\ kept'[r].prompt # kept[r].prompt =>
             \E k \in keepable[r] : kept'[r].prompt = k.prompt
<1>1. Inv /\ [Next]_vars => [Step]_vars
  <2> SUFFICES ASSUME Inv, Next PROVE Step
    OBVIOUS
  <2> SUFFICES ASSUME NEW r \in Requests \ unread, kept'[r] # kept[r]
               PROVE  /\ kept'[r].output # kept[r].output =>
                           \E k \in keepable[r] : kept'[r].output = k.output
                      /\ kept'[r].prompt # kept[r].prompt =>
                           \E k \in keepable[r] : kept'[r].prompt = k.prompt
    OBVIOUS
  <2>1. kept \in [Requests -> KeptType]
    BY DEF Inv, AiTypes
  <2>2. PICK q \in Requests : StoreReply(q) \/ AuditGeneration(q)
    BY DEF Next, AdminStep, StartRequest, RequestStep, CheckPolicy, AskChat, ReadChat, CallModel,
           ModelFails, StoreSummary, ReadRetention, RetentionUnread
  <2>3. q = r
    BY <2>1, <2>2 DEF StoreReply, AuditGeneration
  <2>4. At(r, "reply") \/ At(r, "audit")
    BY <2>2, <2>3 DEF StoreReply, AuditGeneration
  <2>5. /\ Has(request[r].left, "reply") \/ Has(request[r].left, "audit")
        /\ ~Has(request[r].left, "retention")
    <3>1. Sorted(request[r].left) /\ request[r].left \in Seq(StepNames) /\ request[r].left # <<>>
      BY <2>4 DEF Inv, InOrder, AiTypes, RequestType, At
    <3>2. \A step : Has(request[r].left, step) => Rank(step) >= Rank(Head(request[r].left))
      BY <3>1, TailSorted
    <3>3. Head(request[r].left) \in {"reply", "audit"}
      BY <2>4 DEF At
    <3> QED  BY <2>4, <3>2, <3>3, Ranks, HasHead DEF Inv
  <2>6. request[r].decision \in keepable[r]
    BY <2>5 DEF Inv, WillBeKept
  <2>7. kept'[r].output = request[r].decision.output \/ kept'[r].output = kept[r].output
    BY <2>1, <2>2, <2>3 DEF StoreReply, AuditGeneration, KeptType
  <2>8. kept'[r].prompt = request[r].decision.prompt \/ kept'[r].prompt = kept[r].prompt
    BY <2>1, <2>2, <2>3 DEF StoreReply, AuditGeneration, KeptType
  <2> QED  BY <2>6, <2>7, <2>8
<1> QED  BY <1>1, Invariant, PTL DEF Spec, StoredAsRetained

=============================================================================
