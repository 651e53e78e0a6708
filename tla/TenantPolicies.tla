--------------------------- MODULE TenantPolicies ---------------------------
(***************************************************************************)
(* The AI, retention and connector policies of one tenant                  *)
(* (apps/api/src/admin-policies/admin-policy.service.ts over               *)
(* tenant_policies).  A GET creates the default row when it finds none; a  *)
(* PUT does the same and then saves the whole config it merged.  A save    *)
(* looks for the row and then, one await later, updates or creates it.     *)
(* The scope of the AI and the retention policy is NULL, which the unique  *)
(* index does not compare: two first saves create two rows, and a later    *)
(* findFirst may return either.                                            *)
(***************************************************************************)
EXTENDS Integers, FiniteSets, Sequences

CONSTANTS
  Types,      \* the policies in use: "ai", "retention", "connector"
  Admins,     \* in-flight requests of administrators
  Bodies,     \* what a PUT may change: for each policy, records of its fields
  MaxUpdates  \* bound: PUT requests

AiProviders == {"mock", "ollama", "lmstudio"}

Modes == {"none", "metadata_only", "full"}

\* The settings of each policy that the code of this repository acts on.
Config ==
  [ai |-> [draft : BOOLEAN, providers : SUBSET AiProviders, version : Nat],
   retention |-> [enabled : BOOLEAN, prompt : Modes, output : Modes, version : Nat],
   connector |-> [killSwitch : BOOLEAN, version : Nat]]

Default ==
  [ai |-> [draft |-> TRUE, providers |-> AiProviders, version |-> 1],
   retention |-> [enabled |-> TRUE, prompt |-> "full", output |-> "full", version |-> 1],
   connector |-> [killSwitch |-> FALSE, version |-> 1]]

\* Variant: the body replaces the config instead of being merged into it.
MergedBodyOnly(config, body) ==
  [f \in DOMAIN body \cup {"version"} |-> IF f = "version" THEN config.version + 1 ELSE body[f]]

\* The fields of the body over those of the row that was read.
Merged(config, body) ==
  [f \in DOMAIN config |-> IF f = "version" THEN config.version + 1
                           ELSE IF f \in DOMAIN body THEN body[f] ELSE config[f]]

ASSUME PoliciesAssumption ==
  /\ Types \subseteq {"ai", "retention", "connector"}
  /\ MaxUpdates \in Nat
  /\ \A t \in Types : \A body \in Bodies[t] :
       \A f \in DOMAIN body :
         f # "version" /\ [Default[t] EXCEPT ![f] = body[f]] \in Config[t]

VARIABLES
  rows,     \* the rows of each policy: config, and the column version
  saving,   \* the saves each administrator's request has still to make
  intended, \* history: each policy as its PUT requests would have it
  puts,     \* history: the number of PUT requests
  lone      \* history: policies no two requests overlapped or stopped on

policyVars == <<rows, saving, intended, puts, lone>>

PolicyInit ==
  /\ rows = [t \in Types |-> <<>>]
  /\ saving = [p \in Admins |-> <<>>]
  /\ intended = [t \in Types |-> Default[t]]
  /\ puts = 0
  /\ lone = Types

-----------------------------------------------------------------------------
(* Saves.  The call "find" looks for the row, "write" updates or creates.  *)

Find(t, config) == [call |-> "find", type |-> t, config |-> config, row |-> 0]

Saving(t) == {p \in Admins : saving[p] # <<>> /\ Head(saving[p]).type = t}

\* findFirst without an order: any of the rows.
Found(t) == IF rows[t] = <<>> THEN {0} ELSE DOMAIN rows[t]

Began(p, t, calls) ==
  /\ saving[p] = <<>>
  /\ saving' = [saving EXCEPT ![p] = calls]
  /\ lone' = IF Saving(t) # {} THEN lone \ {t} ELSE lone

\* GET: nothing to save unless the policy has no row yet.
GetPolicy(p, t) ==
  /\ rows[t] = <<>>
  /\ Began(p, t, <<Find(t, Default[t])>>)
  /\ UNCHANGED <<rows, intended, puts>>

\* PUT: the config read, or the default it saves first, with the body over it.
UpdatePolicy(p, t, body) ==
  /\ puts < MaxUpdates
  /\ \E i \in Found(t) :
       Began(p, t, IF i = 0
                   THEN <<Find(t, Default[t]), Find(t, Merged(Default[t], body))>>
                   ELSE <<Find(t, Merged(rows[t][i].config, body))>>)
  /\ intended' = [intended EXCEPT ![t] = Merged(@, body)]
  /\ puts' = puts + 1
  /\ UNCHANGED rows

FindRow(p) ==
  /\ saving[p] # <<>> /\ Head(saving[p]).call = "find"
  /\ \E i \in Found(Head(saving[p]).type) :
       saving' = [saving EXCEPT ![p][1].call = "write", ![p][1].row = i]
  /\ UNCHANGED <<rows, intended, puts, lone>>

\* Variant: an update leaves the column version alone.
WriteRowSameVersion(p) ==
  /\ saving[p] # <<>> /\ Head(saving[p]).call = "write"
  /\ LET s == Head(saving[p]) IN
       rows' = IF s.row = 0
               THEN [rows EXCEPT ![s.type] = Append(@, [config |-> s.config, version |-> 1])]
               ELSE [rows EXCEPT ![s.type][s.row].config = s.config]
  /\ saving' = [saving EXCEPT ![p] = Tail(@)]
  /\ UNCHANGED <<intended, puts, lone>>

\* A second row with a scope violates the unique index and ends the request.
WriteRow(p) ==
  /\ saving[p] # <<>> /\ Head(saving[p]).call = "write"
  /\ LET s == Head(saving[p]) IN
       IF s.row = 0 /\ s.type = "connector" /\ rows[s.type] # <<>>
       THEN /\ saving' = [saving EXCEPT ![p] = <<>>]
            /\ UNCHANGED rows
       ELSE /\ saving' = [saving EXCEPT ![p] = Tail(@)]
            /\ rows' = IF s.row = 0
                       THEN [rows EXCEPT ![s.type] = Append(@, [config |-> s.config, version |-> 1])]
                       ELSE [rows EXCEPT ![s.type][s.row] =
                               [config |-> s.config, version |-> rows[s.type][s.row].version + 1]]
  /\ UNCHANGED <<intended, puts, lone>>

\* The API dies, or the database fails a call.
StopSaving(p) ==
  /\ saving[p] # <<>>
  /\ lone' = lone \ {Head(saving[p]).type}
  /\ saving' = [saving EXCEPT ![p] = <<>>]
  /\ UNCHANGED <<rows, intended, puts>>

PolicyNext ==
  \E p \in Admins :
    \/ \E t \in Types :
         \/ GetPolicy(p, t)
         \/ \E body \in Bodies[t] : UpdatePolicy(p, t, body)
    \/ FindRow(p) \/ WriteRow(p) \/ StopSaving(p)

-----------------------------------------------------------------------------
(* Properties *)

PolicyTypeOK ==
  /\ \A t \in Types :
       /\ rows[t] \in Seq([config : Config[t], version : Nat])
       /\ intended[t] \in Config[t]
  /\ \A p \in Admins : \E t \in Types :
       saving[p] \in Seq([call : {"find", "write"}, type : {t}, config : Config[t], row : Nat])
  /\ puts \in 0 .. MaxUpdates
  /\ lone \subseteq Types

\* While no two requests for a policy overlap and none stops half-way, the
\* policy has at most one row, both its versions count the saves, and it says
\* what the PUT requests made of the default: no GET, however it comes to
\* save the default row, reverts one (AdminPolicyService, saveTenantPolicy).
LoneUpdatesStand ==
  \A t \in lone :
    Saving(t) = {} =>
      \/ rows[t] = <<>> /\ intended[t] = Default[t]
      \/ /\ Len(rows[t]) = 1
         /\ rows[t][1] = [config |-> intended[t], version |-> intended[t].version]

=============================================================================
