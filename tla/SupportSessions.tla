--------------------------- MODULE SupportSessions ---------------------------
(***************************************************************************)
(* The requests on support sessions that change rows                       *)
(* (apps/api/src/support-sessions/support-sessions.service.ts): opening a  *)
(* session, loading and linking tickets, capturing and reviewing screen    *)
(* observations, context packets, the sharing state.                       *)
(***************************************************************************)
EXTENDS CaseRows

CreateSession(p, s) ==
  /\ Fresh(s)
  /\ Begin(p, <<Save(s, [status |-> "open", listed |-> {}])>>)

NewPacket(s, from) == [status |-> "saved", session |-> s, from |-> from]

\* The ticket was read from the external system before the first save; both
\* saves of the session start from the row read at the beginning.
TicketPlan(s, t, k) ==
  <<Save(s, Listing(s, {t})), Save(t, [status |-> "saved"]),
    Save(k, NewPacket(s, Nothing)), Save(s, Listing(s, {t, k}))>>

LoadTicketContext(p, s, t, k) ==
  /\ Exists(s) /\ Fresh(k) /\ t \in pool
  /\ Begin(p, TicketPlan(s, t, k))

\* The same plan behind the gates of the GLPI adapter.
LoadGlpiTicketContext(p, s, t, k) ==
  /\ Exists(s) /\ Fresh(k) /\ t \in pool
  /\ Begin(p, TicketPlan(s, t, k))

\* Variant: the session lists the packet before the packet is saved.
CreateContextPacketListedFirst(p, s, k) ==
  /\ Exists(s) /\ Fresh(k)
  /\ Begin(p, <<Save(s, Listing(s, {k})), Save(k, NewPacket(s, Nothing))>>)

CreateContextPacket(p, s, k) ==
  /\ Exists(s) /\ Fresh(k)
  /\ Begin(p, <<Save(k, NewPacket(s, Nothing)), Save(s, Listing(s, {k}))>>)

\* getTicketReferences returns the references whose ids the session lists, so
\* this can only link what is linked already.
TicketReferences(s) == {t \in Tickets \cap db[s].listed : Exists(t)}

LinkTicketToSession(p, s, t) ==
  /\ Exists(s) /\ t \in TicketReferences(s)
  /\ Begin(p, <<Save(s, Listing(s, {t}))>>)

UnlinkTicketFromSession(p, s, t) ==
  /\ Exists(s) /\ t \in db[s].listed
  /\ Begin(p, <<Save(s, [db[s] EXCEPT !.listed = @ \ {t}])>>)

CreateInternalNoteDraft(p, s, d) ==
  /\ Exists(s) /\ Fresh(d)
  /\ Begin(p, <<Save(d, [status |-> "saved", session |-> s])>>)

\* The same row with a generated body.
CreateSupportNoteDraft(p, s, d) == CreateInternalNoteDraft(p, s, d)

-----------------------------------------------------------------------------
(* Screen observations *)

Capture(p, s, o, sharing) ==
  /\ Exists(s) /\ Fresh(o)
  /\ Begin(p, <<Save(o, [status |-> "review_required", session |-> s, sharing |-> sharing,
                         packet |-> Nothing]),
                Save(s, Listing(s, {o}))>>)

\* Any sharing state allows a capture; these two record the one they read,
CaptureMockScreenObservation(p, s, o) == Capture(p, s, o, db[Sharing(s)].status)
CaptureActiveWindowMockMetadata(p, s, o) == Capture(p, s, o, db[Sharing(s)].status)

\* and these two always record an active one.
AttachManualScreenshotMetadata(p, s, o) == Capture(p, s, o, "active")
UploadStructuredScreenObservation(p, s, o) == Capture(p, s, o, "active")

\* A decision may be revised any number of times, in both directions.
ReviewScreenObservation(p, s, o, decision) ==
  /\ Exists(s) /\ Exists(o) /\ db[o].session = s
  /\ Begin(p, <<Save(o, [db[o] EXCEPT !.status = decision])>>)

PacketFromObservationPlan(s, o, k) ==
  <<Save(k, NewPacket(s, o)), Save(s, Listing(s, {k})),
    Save(o, [db[o] EXCEPT !.packet = k])>>

\* Variant: only discarded observations are refused.
PacketUnlessDiscarded(p, s, o, k) ==
  /\ Exists(s) /\ Exists(o) /\ db[o].session = s /\ db[o].status # "discarded" /\ Fresh(k)
  /\ Begin(p, PacketFromObservationPlan(s, o, k))

CreateContextPacketFromObservation(p, s, o, k) ==
  /\ Exists(s) /\ db[o].session = s /\ db[o].status = "approved" /\ Fresh(k)
  /\ Begin(p, PacketFromObservationPlan(s, o, k))

-----------------------------------------------------------------------------
(* Sharing *)

SharingTransitions ==
  {<<"inactive", "active">>, <<"active", "paused">>, <<"active", "inactive">>,
   <<"paused", "active">>, <<"paused", "inactive">>}

UpdateSharingState(p, s, state) ==
  /\ Exists(s) /\ Sharing(s) \in pool
  /\ <<db[Sharing(s)].status, state>> \in SharingTransitions
  /\ Begin(p, <<Save(Sharing(s), [status |-> state])>>)

SessionRequest(p) ==
  \E s \in Sessions :
    \/ CreateSession(p, s)
    \/ \E k \in Packets, t \in Tickets :
         LoadTicketContext(p, s, t, k) \/ LoadGlpiTicketContext(p, s, t, k)
    \/ \E k \in Packets : CreateContextPacket(p, s, k)
    \/ \E d \in Drafts : CreateInternalNoteDraft(p, s, d) \/ CreateSupportNoteDraft(p, s, d)
    \/ \E t \in Tickets : LinkTicketToSession(p, s, t) \/ UnlinkTicketFromSession(p, s, t)
    \/ \E o \in Observations :
         \/ CaptureMockScreenObservation(p, s, o)
         \/ CaptureActiveWindowMockMetadata(p, s, o)
         \/ AttachManualScreenshotMetadata(p, s, o)
         \/ UploadStructuredScreenObservation(p, s, o)
         \/ \E decision \in {"approved", "discarded"} : ReviewScreenObservation(p, s, o, decision)
         \/ \E k \in Packets : CreateContextPacketFromObservation(p, s, o, k)
    \/ \E state \in {"inactive", "active", "paused"} : UpdateSharingState(p, s, state)

=============================================================================
