----------------------------- MODULE DeviceConsole -----------------------------
(* The device console (apps/web/app/device-console/page.tsx): the list of     *)
(* endpoint devices, the one selected, its details, and the tools invoked on  *)
(* it.  A change of the selection runs the effect of the page, which loads    *)
(* everything again for the selection, and sets the selection again when the  *)
(* lists arrive.  What the API does with an invocation is in ToolExecution.   *)
EXTENDS WebTab

CONSTANTS
    Devices,   \* devices of the tenant
    NoDevice   \* undefined

ASSUME DeviceAssumption == NoDevice \notin Devices

VARIABLES
    enrolled,    \* the API's devices
    devices,     \* the list shown
    selectedId,  \* the device highlighted in the list
    detail,      \* the device whose details are shown
    invoking,    \* commandLoading: a tool is being invoked
    picked,      \* history: the device the operator or the first list selected last
    failed       \* history: a request of the page failed

deviceVars == <<enrolled, devices, selectedId, detail, invoking, picked, failed>>

\* A waiting handler: `target` is the device asked for, if any, and `closure`
\* the selection of the render the handler belongs to.
DeviceTask(kind, step, target, closure) ==
    [kind |-> kind, step |-> step, target |-> target, closure |-> closure]

Refresh(target, closure) == DeviceTask("refresh", "lists", target, closure)

DevicesIdle ==
    /\ devices = {}
    /\ selectedId = NoDevice
    /\ detail = NoDevice
    /\ invoking = FALSE
    /\ picked = NoDevice
    /\ failed = FALSE

\* The page is opened: its effect runs for the first time.
DevicesInit ==
    /\ enrolled \in SUBSET Devices
    /\ DevicesIdle
    /\ tasks = One(Refresh(NoDevice, NoDevice))

----------------------------------------------------------------------------
\* setSelectedId; the render with a new selection runs the effect.
Selects(d, waiting) ==
    /\ selectedId' = d
    /\ tasks' = waiting (+) SetToBag({Refresh(NoDevice, d) : x \in {selectedId} \ {d}})

\* A row of the list: select it and ask for its details.
OpenDevice(d) ==
    /\ d \in devices
    /\ Started
    /\ Selects(d, tasks (+) One(DeviceTask("open", "detail", d, selectedId)))
    /\ picked' = d
    /\ crossed' = (crossed \/ (d # selectedId /\ tasks # EmptyBag))
    /\ UNCHANGED <<enrolled, devices, detail, invoking, failed>>

\* The button `Refresh`, which is never disabled.
PressRefresh ==
    /\ Started
    /\ Waits(Refresh(NoDevice, selectedId))
    /\ crossed' = (crossed \/ (selectedId = NoDevice /\ tasks # EmptyBag))
    /\ UNCHANGED <<enrolled, devices, selectedId, detail, invoking, picked, failed>>

\* selectedDevice: the device of the details, whichever is highlighted.
SelectedDevice ==
    IF detail # NoDevice THEN detail
    ELSE IF selectedId \in devices THEN selectedId ELSE NoDevice

\* The button of a tool that is enabled and supports the platform.
InvokeTool ==
    /\ SelectedDevice # NoDevice
    /\ ~invoking
    /\ Started
    /\ invoking' = TRUE
    /\ Waits(DeviceTask("invoke", "asked", SelectedDevice, selectedId))
    /\ crossed' = (crossed \/ SelectedDevice # selectedId)
    /\ UNCHANGED <<enrolled, devices, selectedId, detail, picked, failed>>

----------------------------------------------------------------------------
\* A device registers, and is listed first from then on.
Enroll(d) ==
    /\ d \notin enrolled
    /\ enrolled' = enrolled \cup {d}
    /\ UNCHANGED <<devices, selectedId, detail, invoking, picked, failed, tasks, requests, crossed>>

\* The invocation is answered; everything is loaded again for its device.
Invoked(t) ==
    /\ t.step = "asked"
    /\ GoesOn(t, [t EXCEPT !.step = "lists"])
    /\ UNCHANGED <<enrolled, devices, selectedId, detail, invoking, picked, failed, requests, crossed>>

\* Variant: without a target the newest device is taken, whatever is selected.
TargetNewest(t) == IF t.target # NoDevice THEN {t.target} ELSE enrolled

\* target ?? selectedId ?? list.devices[0]?.id: the order of the list changes
\* with every heartbeat.
TargetOf(t) ==
    IF t.target # NoDevice THEN {t.target}
    ELSE IF t.closure # NoDevice THEN {t.closure}
    ELSE enrolled

\* The lists arrive: the device they were loaded for is selected, again, and
\* its details are asked for; without any device there is nothing to show.
\* Once selections have crossed, the lists of either device select it again and
\* again and each change loads them anew, without end: MaxWaiting bounds that.
ListsArrive(t) ==
    /\ t.step = "lists"
    /\ crossed => BagCardinality(tasks) <= MaxWaiting
    /\ devices' = enrolled
    /\ IF TargetOf(t) = {}
       THEN /\ detail' = NoDevice
            /\ Ended(t)
            /\ invoking' = (invoking /\ t.kind # "invoke")
            /\ UNCHANGED <<selectedId, picked>>
       ELSE /\ \E d \in TargetOf(t) :
                 /\ Selects(d, (tasks (-) One(t)) (+)
                               One([t EXCEPT !.step = "detail", !.target = d]))
                 /\ picked' = IF picked = NoDevice THEN d ELSE picked
            /\ UNCHANGED <<detail, invoking>>
    /\ UNCHANGED <<enrolled, failed, requests, crossed>>

\* The details arrive.
DetailArrives(t) ==
    /\ t.step = "detail"
    /\ detail' = t.target
    /\ invoking' = (invoking /\ t.kind # "invoke")
    /\ Ended(t)
    /\ UNCHANGED <<enrolled, devices, selectedId, picked, failed, requests, crossed>>

\* A request is refused or lost: what is shown stays.
DeviceRequestFails(t) ==
    /\ failed' = TRUE
    /\ invoking' = (invoking /\ t.kind # "invoke")
    /\ Ended(t)
    /\ UNCHANGED <<enrolled, devices, selectedId, detail, picked, requests, crossed>>

DevicesNext ==
    \/ \E d \in Devices : OpenDevice(d) \/ Enroll(d)
    \/ PressRefresh
    \/ InvokeTool
    \/ \E t \in InFlight :
          \/ Invoked(t)
          \/ ListsArrive(t)
          \/ DetailArrives(t)
          \/ DeviceRequestFails(t)

----------------------------------------------------------------------------
DevicesTypeOK ==
    /\ TabTypeOK
    /\ devices \subseteq enrolled /\ enrolled \subseteq Devices
    /\ {selectedId, detail, picked} \subseteq enrolled \cup {NoDevice}
    /\ invoking \in BOOLEAN /\ failed \in BOOLEAN

\* A device stays selected until the operator selects another one, and when
\* nothing waits its details are the ones shown, so that a tool is invoked on
\* it: unless another device was selected while the lists were under way, or a
\* request failed (device-console/page.tsx, refresh and its effect).
DetailOfDevice ==
    ~crossed =>
      /\ selectedId = picked
      /\ tasks = EmptyBag /\ ~failed => detail = selectedId
=============================================================================
