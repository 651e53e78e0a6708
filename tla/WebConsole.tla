------------------------------ MODULE WebConsole ------------------------------
(* The web console in one browser tab.  A visit shows one page: the cockpit,  *)
(* the call console, the device console, or the connector panel or the policy *)
(* panels of the cockpit, which share no state with the rest of it.  Leaving  *)
(* a page drops its state and its handlers, so a visit is a behaviour of its  *)
(* own.  The gate around every page signs the operator in and out; with it    *)
(* come the other tabs of the browser.                                        *)
EXTENDS Cockpit, CallConsole, DeviceConsole, ConnectorSettings, PolicySettings, SignIn

VARIABLE page  \* the page shown

vars == <<cockpitVars, callVars, deviceVars, settingVars, policyVars, signVars,
          tasks, requests, crossed, page>>

\* What the pages that are not shown would ask the API for does not matter.
NoCalls    == CallsIdle /\ callRows = << >>
NoDevices  == DevicesIdle /\ enrolled = {}
NoSettings == SettingsIdle /\ settings = << >>
NoCockpit  == CockpitIdle /\ linked = NoSession
NoPolicies == PoliciesIdle /\ inForce = << >>

Init ==
    /\ requests = 0
    /\ crossed = FALSE
    /\ \/ /\ page = "cockpit" /\ CockpitInit
          /\ NoCalls /\ NoDevices /\ NoSettings /\ NoPolicies /\ SignIdle
       \/ /\ page = "calls" /\ CallsInit
          /\ NoCockpit /\ NoDevices /\ NoSettings /\ NoPolicies /\ SignIdle
       \/ /\ page = "devices" /\ DevicesInit
          /\ NoCockpit /\ NoCalls /\ NoSettings /\ NoPolicies /\ SignIdle
       \/ /\ page = "connectors" /\ SettingsInit
          /\ NoCockpit /\ NoCalls /\ NoDevices /\ NoPolicies /\ SignIdle
       \/ /\ page = "policies" /\ PoliciesInit
          /\ NoCockpit /\ NoCalls /\ NoDevices /\ NoSettings /\ SignIdle
       \/ /\ page = "gate" /\ SignInit
          /\ NoCockpit /\ NoCalls /\ NoDevices /\ NoSettings /\ NoPolicies

Next ==
    /\ UNCHANGED page
    /\ \/ /\ page = "cockpit" /\ CockpitNext
          /\ UNCHANGED <<callVars, deviceVars, settingVars, policyVars, signVars>>
       \/ /\ page = "calls" /\ CallsNext
          /\ UNCHANGED <<cockpitVars, deviceVars, settingVars, policyVars, signVars>>
       \/ /\ page = "devices" /\ DevicesNext
          /\ UNCHANGED <<cockpitVars, callVars, settingVars, policyVars, signVars>>
       \/ /\ page = "connectors" /\ SettingsNext
          /\ UNCHANGED <<cockpitVars, callVars, deviceVars, policyVars, signVars>>
       \/ /\ page = "policies" /\ PoliciesNext
          /\ UNCHANGED <<cockpitVars, callVars, deviceVars, settingVars, signVars>>
       \/ /\ page = "gate" /\ SignNext
          /\ UNCHANGED <<cockpitVars, callVars, deviceVars, settingVars, policyVars>>

Spec == Init /\ [][Next]_vars

----------------------------------------------------------------------------
\* Types of the state of the page shown.
TypeOK ==
    CASE page = "cockpit" -> CockpitTypeOK
      [] page = "calls" -> CallsTypeOK
      [] page = "devices" -> DevicesTypeOK
      [] page = "connectors" -> SettingsTypeOK
      [] page = "policies" -> PoliciesTypeOK
      [] page = "gate" -> SignTypeOK

\* What a page shows next to the session, call, device or policy selected is
\* about it, whatever arrives late: see the property of each page for when
\* (page.tsx, call-console/page.tsx, device-console/page.tsx, DeliveryPolicyPanel.tsx).
PanelsOfSelected ==
    /\ PanelsOfSession
    /\ PanelsOfCall
    /\ DetailOfDevice
    /\ ChecksOfChosen

\* When nothing is under way, the connector panel and the policy panels show
\* the settings as they are stored: see RowsAsStored and PoliciesAsStored for
\* which (ConnectorPanel.tsx, AdminPolicyPanel.tsx, DeliveryPolicyPanel.tsx).
ShownAsStored == RowsAsStored /\ PoliciesAsStored

\* At the gate, a tab that waits for nothing acts as the user it shows: see
\* TabsActAsShown for when (AuthGate.tsx).
ActsAsShown == page = "gate" => TabsActAsShown

\* When nothing is under way any more, no button of a page is left disabled and
\* no check is shown as running, whichever handlers set and cleared a flag they
\* share, and however they ended (the `finally` blocks of the pages; the
\* cockpit's flags are those of its handlers, see Loading).
ButtonsReleased ==
    tasks = EmptyBag =>
      /\ busy = {}
      /\ ~invoking
      /\ savingId = {} /\ linkingId = {} /\ savingIn = {} /\ checking = {}
      /\ \A i \in Installations : \A p \in Places : ~results[i][p].running
=============================================================================
