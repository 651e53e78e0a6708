--------------------------- MODULE ConnectorSettings ---------------------------
(* The connector panel (apps/web/components/ConnectorPanel.tsx) and the       *)
(* service behind it (connector-installations.service.ts): a form per         *)
(* installation, links to credential references, and checks whose result is   *)
(* shown beside the row.  The service reads the whole row, merges the request *)
(* into it and saves the whole row.  The fields of a row are cut down to a    *)
(* switch, a text that may be empty and the links; unfolding a row, the       *)
(* status of the connector and its test are left out.                         *)
EXTENDS WebTab

CONSTANTS
    Installations,  \* connector installations of the tenant
    Descriptions,   \* texts of the description
    NoDescription,  \* undefined
    Credentials,    \* credential references of the tenant
    ConnectorTools  \* what the operator uses in the visit

ASSUME ConnectorAssumption ==
    /\ NoDescription \notin Descriptions
    /\ ConnectorTools \subseteq {"edit", "link", "validate", "test", "config", "readiness"}

VARIABLES
    settings,  \* the rows of the API
    rows,      \* installations: the rows shown, once they have been fetched
    editing,   \* per installation, the fields edited and not saved
    savingId,  \* the installation whose form is disabled, as a set
    linkingId, \* the installation whose links are disabled, as a set
    results,   \* per installation and place, the check that runs or ran last
    overlapped \* history: a save was started while another one was under way

settingVars == <<settings, rows, editing, savingId, linkingId, results, overlapped>>

Values == [enabled |-> BOOLEAN, description |-> Descriptions \cup {NoDescription}]
Row == [enabled : BOOLEAN, description : Descriptions \cup {NoDescription},
        secrets : SUBSET Credentials]

\* validate and test show their result in the same place.
Place == [validate |-> "installation", test |-> "installation",
          config |-> "config", readiness |-> "readiness"]
Places == {Place[check] : check \in DOMAIN Place}
NoResult == [check |-> "none", running |-> FALSE]

\* A request about installation i: `data` is what it asks for, then the row read.
SettingTask(kind, step, i, data) == [kind |-> kind, step |-> step, id |-> i, data |-> data]
List == SettingTask("list", "asked", {}, << >>)

SettingsIdle ==
    /\ rows = << >>
    /\ editing = << >>
    /\ savingId = {} /\ linkingId = {}
    /\ results = [i \in Installations |-> [p \in Places |-> NoResult]]
    /\ overlapped = FALSE

SettingsInit ==
    /\ settings = [i \in Installations |->
                     [enabled |-> TRUE, description |-> NoDescription, secrets |-> {}]]
    /\ SettingsIdle
    /\ tasks = One(List)

----------------------------------------------------------------------------
EditOf(i) == IF i \in DOMAIN editing THEN editing[i] ELSE << >>

\* Variant: the inputs are not disabled while the form is saved.
TypeAnyTime(i, f, x) ==
    /\ i \in DOMAIN rows
    /\ "edit" \in ConnectorTools
    /\ editing' = [j \in DOMAIN editing \cup {i} |->
                     IF j = i THEN [g \in DOMAIN EditOf(i) \cup {f} |->
                                      IF g = f THEN x ELSE editing[i][g]]
                     ELSE editing[j]]
    /\ UNCHANGED <<settings, rows, savingId, linkingId, results, overlapped, tasks, requests, crossed>>

\* toggleField and setField: the inputs of a form.
Type(i, f, x) ==
    /\ i \in DOMAIN rows
    /\ i \notin savingId
    /\ "edit" \in ConnectorTools
    /\ editing' = [j \in DOMAIN editing \cup {i} |->
                     IF j = i THEN [g \in DOMAIN EditOf(i) \cup {f} |->
                                      IF g = f THEN x ELSE editing[i][g]]
                     ELSE editing[j]]
    /\ UNCHANGED <<settings, rows, savingId, linkingId, results, overlapped, tasks, requests, crossed>>

Dropped(i) == [j \in DOMAIN editing \ {i} |-> editing[j]]

\* handleCancel.
Cancel(i) ==
    /\ i \in DOMAIN editing
    /\ i \notin savingId
    /\ editing' = Dropped(i)
    /\ UNCHANGED <<settings, rows, savingId, linkingId, results, overlapped, tasks, requests, crossed>>

\* A request that will replace row i is under way.
Contested(i) == \E t \in InFlight : t.kind = "list" \/ (t.kind \in {"save", "link", "unlink"} /\ t.id = {i})

\* handleSave, up to its await.
Save(i) ==
    /\ i \in DOMAIN editing
    /\ i \notin savingId
    /\ Started
    /\ savingId' = {i}
    /\ Waits(SettingTask("save", "asked", {i}, editing[i]))
    /\ overlapped' = (overlapped \/ Loading("save"))
    /\ crossed' = (crossed \/ Contested(i))
    /\ UNCHANGED <<settings, rows, editing, linkingId, results>>

\* handleLinkCredential and handleUnlinkCredential.
Link(i, c) ==
    /\ "link" \in ConnectorTools
    /\ i \in DOMAIN rows
    /\ i \notin linkingId
    /\ Started
    /\ linkingId' = {i}
    /\ Waits(SettingTask(IF c \in rows[i].secrets THEN "unlink" ELSE "link", "asked", {i}, c))
    /\ crossed' = (crossed \/ Contested(i))
    /\ UNCHANGED <<settings, rows, editing, savingId, results, overlapped>>

\* The buttons Validate, Test, Config and Readiness of a row: each is disabled
\* while its own check is the one shown as running.
Check(i, check) ==
    /\ check \in ConnectorTools
    /\ i \in DOMAIN rows
    /\ results[i][Place[check]] # [check |-> check, running |-> TRUE]
    /\ Started
    /\ results' = [results EXCEPT ![i][Place[check]] = [check |-> check, running |-> TRUE]]
    /\ Waits(SettingTask(check, "asked", {i}, << >>))
    /\ UNCHANGED <<settings, rows, editing, savingId, linkingId, overlapped, crossed>>

\* The button Refresh, disabled while the list loads.
RefreshRows ==
    /\ ~Loading("list")
    /\ rows # << >>
    /\ Started
    /\ Waits(List)
    /\ crossed' = (crossed \/ \E i \in Installations : Contested(i))
    /\ UNCHANGED <<settings, rows, editing, savingId, linkingId, results, overlapped>>

----------------------------------------------------------------------------
\* updateInstallation: a field that is undefined is not in the request's JSON
\* and keeps its value.
MergedRow(row, dto) ==
    [f \in DOMAIN row |-> IF f \in DOMAIN dto /\ dto[f] # NoDescription THEN dto[f] ELSE row[f]]

\* The service has read the row, and has the row it will save and answer with.
ServiceReads(t) ==
    /\ t.step = "asked"
    /\ \/ /\ t.kind = "list"
          /\ GoesOn(t, [t EXCEPT !.step = "read", !.data = settings])
       \/ /\ t.kind \in {"save", "link", "unlink"}
          /\ \E i \in t.id :
               GoesOn(t, [t EXCEPT !.step = "read", !.data =
                 CASE t.kind = "save"   -> MergedRow(settings[i], t.data)
                   [] t.kind = "link"   -> [settings[i] EXCEPT !.secrets = @ \cup {t.data}]
                   [] t.kind = "unlink" -> [settings[i] EXCEPT !.secrets = @ \ {t.data}]])
    /\ UNCHANGED <<settingVars, crossed>>

\* The finally of a save and of a link; it clears a later one's flag as well.
Settles(t) ==
    /\ savingId' = IF t.kind = "save" THEN {} ELSE savingId
    /\ linkingId' = IF t.kind \in {"link", "unlink"} THEN {} ELSE linkingId
    /\ Ended(t)

\* Variant: the answer to a link is not shown.
SavedNotShown(t) ==
    /\ t.step = "read" /\ t.kind # "list"
    /\ \E i \in t.id :
         /\ settings' = [settings EXCEPT ![i] = t.data]
         /\ rows' = IF t.kind = "save" THEN [rows EXCEPT ![i] = t.data] ELSE rows
         /\ editing' = IF t.kind = "save" THEN Dropped(i) ELSE editing
    /\ Settles(t)
    /\ UNCHANGED <<results, overlapped, crossed>>

\* The row is saved as it was read and merged, and shown; the edits of a saved
\* form are gone.
Saved(t) ==
    /\ t.step = "read" /\ t.kind # "list"
    /\ \E i \in t.id :
         /\ settings' = [settings EXCEPT ![i] = t.data]
         /\ rows' = [rows EXCEPT ![i] = t.data]
         /\ editing' = IF t.kind = "save" THEN Dropped(i) ELSE editing
    /\ Settles(t)
    /\ UNCHANGED <<results, overlapped, crossed>>

\* fetchStatus ends with the rows, in place of those shown.
RowsArrive(t) ==
    /\ t.step = "read" /\ t.kind = "list"
    /\ rows' = t.data
    /\ Ended(t)
    /\ UNCHANGED <<settings, editing, savingId, linkingId, results, overlapped, crossed>>

\* A check is answered, or fails with a message in the same place.
Checked(t) ==
    /\ t.kind \in DOMAIN Place
    /\ \E i \in t.id :
         results' = [results EXCEPT ![i][Place[t.kind]] = [check |-> t.kind, running |-> FALSE]]
    /\ Ended(t)
    /\ UNCHANGED <<settings, rows, editing, savingId, linkingId, overlapped, crossed>>

\* The list, a save or a link is refused or lost: a message; the edits stay.
SettingFails(t) ==
    /\ t.step = "asked" /\ t.kind \notin DOMAIN Place
    /\ Settles(t)
    /\ UNCHANGED <<settings, rows, editing, results, overlapped, crossed>>

SettingsNext ==
    \/ RefreshRows
    \/ \E i \in Installations :
          \/ \E f \in DOMAIN Values : \E x \in Values[f] : Type(i, f, x)
          \/ Cancel(i)
          \/ Save(i)
          \/ \E c \in Credentials : Link(i, c)
          \/ \E check \in DOMAIN Place : Check(i, check)
    \/ /\ UNCHANGED requests
       /\ \E t \in InFlight :
             ServiceReads(t) \/ Saved(t) \/ RowsArrive(t) \/ Checked(t) \/ SettingFails(t)

----------------------------------------------------------------------------
SettingsTypeOK ==
    /\ TabTypeOK
    /\ settings \in [Installations -> Row]
    /\ rows = << >> \/ rows \in [Installations -> Row]
    /\ DOMAIN editing \subseteq DOMAIN rows
    /\ \A i \in DOMAIN editing : \A f \in DOMAIN editing[i] : editing[i][f] \in Values[f]
    /\ savingId \subseteq DOMAIN rows /\ linkingId \subseteq DOMAIN rows
    /\ results \in [Installations -> [Places -> [check : DOMAIN Place \cup {"none"}, running : BOOLEAN]]]
    /\ overlapped \in BOOLEAN

\* A setting the operator typed leaves the form only by Cancel or when the row
\* shown has taken it, whatever loads, links or fails meanwhile: unless two
\* forms were saved at the same time, and except for a text that was emptied,
\* which the request drops (ConnectorPanel.tsx, handleSave and savingId).
EditsKept ==
    [][\A i \in DOMAIN editing : \A f \in DOMAIN editing[i] :
         \/ i \in DOMAIN editing' /\ f \in DOMAIN editing'[i]
         \/ Cancel(i)
         \/ overlapped
         \/ editing[i][f] = NoDescription
         \/ rows'[i][f] = editing[i][f]]_<<settingVars, tasks, requests, crossed>>

\* When nothing is under way the panel shows the settings as they are stored,
\* whatever was saved, linked and refused before: unless two requests about one
\* row overlapped (ConnectorPanel.tsx against connector-installations.service.ts).
RowsAsStored == tasks = EmptyBag /\ ~crossed /\ rows # << >> => rows = settings
=============================================================================
