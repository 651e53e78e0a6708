----------------------------- MODULE CallEvents -----------------------------
(***************************************************************************)
(* The requests on calls that change rows                                  *)
(* (apps/api/src/calls/calls.service.ts and the telephony bridge in front  *)
(* of it, apps/api/src/telephony/telephony.service.ts): incoming calls and *)
(* webhooks, sessions created for them, linking, the mock lifecycle.       *)
(***************************************************************************)
EXTENDS CaseRows

NewCall(status) == [status |-> status, session |-> Nothing, ended |-> FALSE, listed |-> {}]

Linked(row, s) == [row EXCEPT !.session = s, !.status = "answered"]

\* Variant: the session is created without the call.
AutoCreateUnlisted(c, s, tickets) ==
  <<Save(c, NewCall("ringing")),
    Save(s, [status |-> "open", listed |-> tickets]),
    Save(c, Linked(NewCall("ringing"), s))>>

\* The caller matched and a session was asked for: it lists the call and the
\* tickets of the match, whether or not they have reference rows.
AutoCreatePlan(c, s, tickets) ==
  <<Save(c, NewCall("ringing")),
    Save(s, [status |-> "open", listed |-> {c} \cup tickets]),
    Save(c, Linked(NewCall("ringing"), s))>>

\* No session is asked for, the caller does not match, or the priority is
\* refused, which happens after the call was saved.
CreateFakeIncomingCall(p, c) ==
  /\ Fresh(c)
  /\ \/ Begin(p, <<Save(c, NewCall("ringing"))>>)
     \/ \E s \in Sessions, tickets \in SUBSET (Tickets \cap pool) :
          Fresh(s) /\ Begin(p, AutoCreatePlan(c, s, tickets))

\* A priority that is not valid falls back to normal instead.
CreateFromAsteriskAmiEvent(p, c) ==
  /\ Fresh(c)
  /\ \/ Begin(p, <<Save(c, NewCall("ringing"))>>)
     \/ \E s \in Sessions, tickets \in SUBSET (Tickets \cap pool) :
          Fresh(s) /\ Begin(p, AutoCreatePlan(c, s, tickets))

\* Variant: an event that is not listed keeps its own name.
StatusFromEventName ==
  [incoming_call |-> "ringing", call_answered |-> "answered", call_resumed |-> "answered",
   call_held |-> "call_held", call_ended |-> "ended", call_missed |-> "missed"]

StatusFromWebhook ==
  [incoming_call |-> "ringing", call_answered |-> "answered", call_resumed |-> "answered",
   call_held |-> "on_hold", call_ended |-> "ended", call_missed |-> "missed"]

\* Every webhook makes a call of its own: nothing looks for the row that an
\* earlier event of the same external call has left, and endedAt stays null.
CreateFromTelephonyWebhook(p, c, event) ==
  /\ Fresh(c)
  /\ Begin(p, <<Save(c, NewCall(StatusFromWebhook[event]))>>)

\* A call may be linked in any status, and moves to another session without
\* leaving the list of the one before.
LinkCallToSession(p, c, s) ==
  /\ Exists(c) /\ Exists(s)
  /\ Begin(p, <<Save(c, Linked(db[c], s)), Save(s, Listing(s, {c}))>>)

AllowedTransitions ==
  {<<"ringing", "answered">>, <<"ringing", "missed">>, <<"answered", "on_hold">>,
   <<"on_hold", "answered">>, <<"answered", "ended">>, <<"on_hold", "ended">>}

\* Variant: any change of status is taken.
UpdateCallStatusFreely(p, c, status) ==
  /\ Exists(c) /\ db[c].status # status
  /\ Begin(p, <<Save(c, [db[c] EXCEPT !.status = status,
                                      !.ended = @ \/ status \in {"ended", "missed"}])>>)

UpdateCallStatus(p, c, status) ==
  /\ <<db[c].status, status>> \in AllowedTransitions
  /\ Begin(p, <<Save(c, [db[c] EXCEPT !.status = status,
                                      !.ended = @ \/ status \in {"ended", "missed"}])>>)

StatusForAction ==
  [answer |-> "answered", hold |-> "on_hold", resume |-> "answered", end |-> "ended"]

\* A control intent asks for a status; "transfer" is refused by the adapter.
ControlCall(p, c, intent) == UpdateCallStatus(p, c, StatusForAction[intent])

TicketsOfCall(c) ==
  {t \in Tickets : Exists(t) /\ db[c].session # Nothing /\ t \in db[db[c].session].listed}

LinkTicketToCall(p, c, t) ==
  /\ Exists(c) /\ t \in TicketsOfCall(c)
  /\ Begin(p, <<Save(c, Listing(c, {t}))>>)

UnlinkTicketFromCall(p, c, t) ==
  /\ Exists(c) /\ t \in db[c].listed
  /\ Begin(p, <<Save(c, [db[c] EXCEPT !.listed = @ \ {t}])>>)

AttachMockRecording(p, c, r) ==
  /\ Exists(c) /\ Fresh(r)
  /\ Begin(p, <<Save(r, [status |-> "available", call |-> c, session |-> db[c].session])>>)

\* Any number of times, whatever its status.
ReviewCallRecording(p, c, r) ==
  /\ Exists(c) /\ Exists(r) /\ db[r].call = c
  /\ Begin(p, <<Save(r, [db[r] EXCEPT !.status = "mock_only"])>>)

CallRequest(p) ==
  \E c \in Calls :
    \/ CreateFakeIncomingCall(p, c)
    \/ CreateFromAsteriskAmiEvent(p, c)
    \/ \E event \in DOMAIN StatusFromWebhook : CreateFromTelephonyWebhook(p, c, event)
    \/ \E s \in Sessions : LinkCallToSession(p, c, s)
    \/ \E status \in {"answered", "on_hold", "missed", "ended"} : UpdateCallStatus(p, c, status)
    \/ \E intent \in DOMAIN StatusForAction : ControlCall(p, c, intent)
    \/ \E t \in Tickets : LinkTicketToCall(p, c, t) \/ UnlinkTicketFromCall(p, c, t)
    \/ \E r \in Recordings : AttachMockRecording(p, c, r) \/ ReviewCallRecording(p, c, r)

=============================================================================
