------------------------------ MODULE CallConsole ------------------------------
(* The mock call console (apps/web/app/call-console/page.tsx): the list of    *)
(* recent calls, the call selected, and the panels about it and about the     *)
(* support session it is linked to.  A panel's content is abstracted to the   *)
(* call or the session it was fetched for; the texts of the capture forms and *)
(* requests that show nothing (telephony status, playback) are left out.  The *)
(* API's part is cut down to the status and the link of a call; the rest of   *)
(* it is in CallEvents and SupportSessions.                                   *)
EXTENDS WebTab

CONSTANTS
    Calls,      \* calls, the ones a webhook is still to create included
    NoCall,     \* undefined
    CallTools   \* the buttons the operator uses in the visit

VARIABLES
    callRows,   \* the API's calls: status and linked session
    recent,     \* calls: the list, with the rows as they were when it was fetched
    call,       \* selectedCall: a copy of the row, or NoCall
    about,      \* panel -> what its content was fetched for
    busy        \* the loading flags that are set

callVars == <<callRows, recent, call, about, busy>>

Statuses == {"ringing", "answered", "on_hold", "missed", "ended"}
CallRow  == [status : Statuses, session : Sessions \cup {NoSession}]
Snapshot == [id : Calls, status : Statuses, session : Sessions \cup {NoSession}]

ASSUME ConsoleAssumption == NoCall \notin Calls \cup Snapshot

Copy(c, row) == [id |-> c, status |-> row.status, session |-> row.session]

\* The loading flag a handler sets, and clears when it ends; two share one.
Flag == [select |-> {}, calls |-> {}, control |-> {"action"}, greeting |-> {"greeting"},
         webhook |-> {"telephony"}, bridge |-> {"telephony"}, attach |-> {"recordings"},
         recording |-> {"recordings"}, capture |-> {"observations"},
         observation |-> {"observations"}, sharing |-> {"sharing"}]

CallTask(kind, step, snap, s, key) ==
    [kind |-> kind, step |-> step, snap |-> snap, session |-> s, key |-> key]

\* Nothing is shown yet; the calls are asked for.
CallsIdle ==
    /\ recent = << >>
    /\ call = NoCall
    /\ about = [timeline |-> NoCall, session |-> NoSession, greeting |-> NoSession,
                recordings |-> {}, observations |-> {}, sharing |-> NoSession]
    /\ busy = {}

\* A stored call rings, or it was answered when it was linked to a session.
CallsInit ==
    /\ \E rung \in SUBSET Calls :
          callRows \in [rung -> {[status |-> "ringing", session |-> NoSession]}
                                \cup [status : {"answered"}, session : Sessions]]
    /\ CallsIdle
    /\ tasks = One(CallTask("calls", "asked", NoCall, NoSession, "none"))

----------------------------------------------------------------------------
\* setSelectedCall.  It changes what the handlers in `rest` are not about.
Shows(snap, rest) ==
    /\ call' = snap
    /\ crossed' = (crossed \/ (rest # EmptyBag
                      /\ (call = NoCall \/ call.id # snap.id \/ call.session # snap.session)))

\* A row of the list, with the data of the list.
SelectCall(c) ==
    /\ c \in DOMAIN recent
    /\ Started
    /\ Shows(Copy(c, recent[c]), tasks)
    /\ Waits(CallTask("select", "timeline", Copy(c, recent[c]), NoSession, "none"))
    /\ UNCHANGED <<callRows, recent, about, busy>>

\* A handler starts: its flag is set, its request waits.
Press(kind, s, key) ==
    /\ call # NoCall
    /\ kind \in CallTools
    /\ Flag[kind] \cap busy = {}
    /\ Started
    /\ busy' = busy \cup Flag[kind]
    /\ Waits(CallTask(kind, "asked", call, s, key))
    /\ UNCHANGED <<callRows, recent, call, about>>

\* allowedActions: the statuses offered as buttons.
AllowedActions(status) ==
    CASE status = "ringing"  -> {"answered", "missed"}
      [] status = "answered" -> {"on_hold", "ended"}
      [] status = "on_hold"  -> {"answered", "ended"}
      [] OTHER -> {}

\* The panel `Mock Call Controls`.
Control(key) ==
    /\ call # NoCall
    /\ key \in AllowedActions(call.status)
    /\ Press("control", NoSession, key)
    /\ UNCHANGED crossed

\* The panel `Telephony Bridge`: a bridge test or a fake webhook.
Bridge ==
    /\ \E kind \in {"bridge", "webhook"} : Press(kind, NoSession, "none")
    /\ UNCHANGED crossed

\* The panel `Mock Recording`: attach one, or review one that is listed.
Recordings ==
    /\ \/ Press("attach", NoSession, "none")
       \/ about.recordings # {} /\ Press("recording", NoSession, "none")
    /\ UNCHANGED crossed

\* The buttons about the session shown, which may still be the one of the call
\* selected before.
AboutSession(kind) ==
    /\ about.session # NoSession
    /\ Press(kind, about.session, "none")
    /\ crossed' = (crossed \/ about.session # call.session)

\* The panel `Suggested Greeting`.
Greeting == AboutSession("greeting")

\* Start, pause, resume or stop sharing.
Sharing == AboutSession("sharing")

\* The forms of the operator companion: an observation, the active window, a
\* screenshot's metadata, a structured upload.
Capture == AboutSession("capture")

\* Approve, discard or make a packet of an observation that is listed.
Observation == about.observations # {} /\ AboutSession("observation")

----------------------------------------------------------------------------
\* Somewhere else the call is answered, or linked to a session, which answers it.
Elsewhere(c) ==
    /\ c \in DOMAIN callRows
    /\ requests < MaxRequests /\ requests' = requests + 1
    /\ \/ callRows[c].status = "ringing" /\ callRows' = [callRows EXCEPT ![c].status = "answered"]
       \/ \E s \in Sessions \ {callRows[c].session} :
             callRows' = [callRows EXCEPT ![c] = [status |-> "answered", session |-> s]]
    /\ UNCHANGED <<recent, call, about, busy, tasks, crossed>>

\* The handler is over: `finally` clears its flag, whoever else has set it.
Over(t, flags) ==
    /\ busy' = flags \ Flag[t.kind]
    /\ Ended(t)

\* What a handler does once fetchCallDetails has returned: a greeting is shown.
AfterDetails(t, panels) ==
    IF t.kind = "greeting" THEN [panels EXCEPT !.greeting = t.session] ELSE panels

\* Variant: the session of the former call stays when there is none.
TimelineKeepsSession(t) ==
    /\ t.step = "timeline"
    /\ \E shownFor \in {t.snap.id, NoCall} :
          IF t.snap.session # NoSession
          THEN /\ about' = [about EXCEPT !.timeline = shownFor]
               /\ GoesOn(t, [t EXCEPT !.step = "session"])
               /\ UNCHANGED busy
          ELSE /\ about' = [about EXCEPT !.timeline = shownFor, !.greeting = NoSession]
               /\ busy' = busy \cup {"recordings"}
               /\ GoesOn(t, [t EXCEPT !.step = "recordings"])
    /\ UNCHANGED <<callRows, recent, call, crossed>>

\* fetchCallDetails: the timeline arrives or fails, then the session is asked for.
Timeline(t) ==
    /\ t.step = "timeline"
    /\ \E shownFor \in {t.snap.id, NoCall} :
          IF t.snap.session # NoSession
          THEN /\ about' = [about EXCEPT !.timeline = shownFor]
               /\ GoesOn(t, [t EXCEPT !.step = "session"])
               /\ UNCHANGED busy
          ELSE /\ about' = [about EXCEPT !.timeline = shownFor, !.session = NoSession,
                                         !.greeting = NoSession]
               /\ busy' = busy \cup {"recordings"}
               /\ GoesOn(t, [t EXCEPT !.step = "recordings"])
    /\ UNCHANGED <<callRows, recent, call, crossed>>

\* The session arrives or fails, then the recordings are asked for.
LinkedSession(t) ==
    /\ t.step = "session"
    /\ \E s \in {t.snap.session, NoSession} :
          about' = [about EXCEPT !.session = s, !.greeting = NoSession]
    /\ busy' = busy \cup {"recordings"}
    /\ GoesOn(t, [t EXCEPT !.step = "recordings"])
    /\ UNCHANGED <<callRows, recent, call, crossed>>

\* The recordings arrive or fail; without a session nothing else is asked for.
RecordingsListed(t) ==
    /\ t.step = "recordings"
    /\ \E found \in {{t.snap.id}, {}} :
          LET panels == [about EXCEPT !.recordings = found] IN
          IF t.snap.session # NoSession
          THEN /\ about' = panels
               /\ busy' = (busy \ {"recordings"}) \cup {"observations"}
               /\ GoesOn(t, [t EXCEPT !.step = "observations"])
          ELSE /\ about' = AfterDetails(t, [panels EXCEPT !.observations = {}, !.sharing = NoSession])
               /\ Over(t, busy \ {"recordings", "observations"})
    /\ UNCHANGED <<callRows, recent, call, crossed>>

\* The observations arrive or fail; sharing is shown as inactive until it is known.
ObservationsListed(t) ==
    /\ t.step = "observations"
    /\ \E found \in {{t.snap.session}, {}} :
          about' = [about EXCEPT !.observations = found, !.sharing = NoSession]
    /\ busy' = busy \ {"observations"}
    /\ GoesOn(t, [t EXCEPT !.step = "sharing"])
    /\ UNCHANGED <<callRows, recent, call, crossed>>

\* The sharing state arrives or fails, and the handler that asked goes on.
SharingKnown(t) ==
    /\ t.step = "sharing"
    /\ \E s \in {t.snap.session, NoSession} :
          about' = AfterDetails(t, [about EXCEPT !.sharing = s])
    /\ Over(t, busy)
    /\ UNCHANGED <<callRows, recent, call, crossed>>

Details(t) ==
    \/ Timeline(t)
    \/ LinkedSession(t)
    \/ RecordingsListed(t)
    \/ ObservationsListed(t)
    \/ SharingKnown(t)

FetchDetails(t, snap) == [t EXCEPT !.step = "timeline", !.snap = snap]

\* The intent handleStatusTransition sends; a missed call is asked to end.
IntentOf(key, status) ==
    CASE key = "answered" /\ status = "on_hold" -> "resume"
      [] key = "answered" -> "answer"
      [] key = "on_hold"  -> "hold"
      [] OTHER -> "end"

\* statusForAction of the mock adapter.
Resulting == [answer |-> "answered", hold |-> "on_hold", resume |-> "answered", end |-> "ended"]

\* The transitions updateCallStatus takes; another one is answered as a failure.
CallTransitions ==
    {<<"ringing", "answered">>, <<"ringing", "missed">>, <<"answered", "on_hold">>,
     <<"on_hold", "answered">>, <<"answered", "ended">>, <<"on_hold", "ended">>}

\* handleStatusTransition is answered: with the call, or, when the API refused
\* the transition, without it, and then the call stays as it was shown.
Controlled(t) ==
    LET c    == t.snap.id
        row  == callRows[c]
        to   == Resulting[IntentOf(t.key, t.snap.status)]
        done == <<row.status, to>> \in CallTransitions
        snap == IF done THEN [Copy(c, row) EXCEPT !.status = to] ELSE t.snap
    IN  /\ t.kind = "control" /\ t.step = "asked"
        /\ callRows' = IF done THEN [callRows EXCEPT ![c].status = to] ELSE callRows
        /\ Shows(snap, tasks (-) One(t))
        /\ recent' = [x \in DOMAIN recent |->
                        IF x = c THEN [status |-> snap.status, session |-> snap.session]
                        ELSE recent[x]]
        /\ GoesOn(t, FetchDetails(t, snap))
        /\ UNCHANGED <<about, busy>>

\* A fake webhook has created a call; the list is fetched again.
WebhookTaken(t) ==
    /\ t.kind = "webhook" /\ t.step = "asked"
    /\ \E c \in Calls \ DOMAIN callRows :
          LET row == [status |-> "ringing", session |-> NoSession] IN
          /\ callRows' = [x \in DOMAIN callRows \cup {c} |-> IF x = c THEN row ELSE callRows[x]]
          /\ GoesOn(t, [t EXCEPT !.step = "listing", !.snap = Copy(c, row)])
    /\ UNCHANGED <<recent, call, about, busy, crossed>>

\* fetchCalls, which keeps its errors to itself, when the page is opened or
\* after a webhook, whose call is then selected.
CallsListed(t) ==
    /\ t.kind = "calls" \/ t.step = "listing"
    /\ recent' \in {callRows, recent}
    /\ IF t.kind = "calls"
       THEN Ended(t) /\ UNCHANGED <<call, crossed>>
       ELSE Shows(t.snap, tasks (-) One(t)) /\ GoesOn(t, [t EXCEPT !.step = "timeline"])
    /\ UNCHANGED <<callRows, about, busy>>

\* A greeting is there, to be shown after the details; a recording is attached
\* and shown, then the details are fetched.
DetailsNext(t) ==
    /\ t.kind \in {"greeting", "attach"} /\ t.step = "asked"
    /\ about' = IF t.kind = "attach" THEN [about EXCEPT !.recordings = @ \cup {t.snap.id}]
                ELSE about
    /\ GoesOn(t, FetchDetails(t, t.snap))
    /\ UNCHANGED <<callRows, recent, call, busy, crossed>>

\* One of the four forms is answered: its observation is put in front of the list.
Captured(t) ==
    /\ t.kind = "capture"
    /\ about' = [about EXCEPT !.observations = @ \cup {t.session}]
    /\ Over(t, busy)
    /\ UNCHANGED <<callRows, recent, call, crossed>>

\* The other handlers that end with their answer: a review or a packet is put
\* in its place in the list, a sharing state or a bridge test is shown.
Done(t) ==
    /\ t.kind \in {"recording", "observation", "sharing", "bridge"}
    /\ about' = IF t.kind = "sharing" THEN [about EXCEPT !.sharing = t.session] ELSE about
    /\ Over(t, busy)
    /\ UNCHANGED <<callRows, recent, call, crossed>>

\* Variant: the catch of a handler returns before its flag is cleared.
RefusedStaysBusy(t) ==
    /\ t.kind \in DOMAIN Flag \ {"calls", "select"} /\ t.step = "asked"
    /\ Ended(t)
    /\ UNCHANGED <<callRows, recent, call, about, busy, crossed>>

\* A request is refused or lost: a message, and `finally`.
Refused(t) ==
    /\ t.kind \in DOMAIN Flag \ {"calls", "select"} /\ t.step = "asked"
    /\ Over(t, busy)
    /\ UNCHANGED <<callRows, recent, call, about, crossed>>

CallsNext ==
    \/ \E c \in Calls : SelectCall(c) \/ Elsewhere(c)
    \/ \E key \in Statuses : Control(key)
    \/ Bridge \/ Recordings \/ Greeting \/ Sharing \/ Capture \/ Observation
    \/ /\ UNCHANGED requests
       /\ \E t \in InFlight :
             \/ Details(t)
             \/ Controlled(t)
             \/ WebhookTaken(t)
             \/ CallsListed(t)
             \/ DetailsNext(t)
             \/ Captured(t)
             \/ Done(t)
             \/ Refused(t)

----------------------------------------------------------------------------
CallsTypeOK ==
    /\ TabTypeOK
    /\ DOMAIN callRows \subseteq Calls /\ \A c \in DOMAIN callRows : callRows[c] \in CallRow
    /\ DOMAIN recent \subseteq DOMAIN callRows
    /\ call \in Snapshot \cup {NoCall}
    /\ about \in [timeline : Calls \cup {NoCall}, session : Sessions \cup {NoSession},
                  greeting : Sessions \cup {NoSession}, recordings : SUBSET Calls,
                  observations : SUBSET Sessions, sharing : Sessions \cup {NoSession}]
    /\ busy \subseteq UNION {Flag[k] : k \in DOMAIN Flag}

DetailsUnderWay == \E t \in InFlight : t.step \in
    {"timeline", "session", "recordings", "observations", "sharing"}

\* What the console shows next to a call is about that call and the session it
\* is linked to, once its details are fetched: unless the call or its session
\* changed while a handler waited, or a handler was started for the session of
\* the call selected before (call-console/page.tsx, fetchCallDetails).
PanelsOfCall ==
    ~crossed /\ ~DetailsUnderWay =>
      IF call = NoCall THEN about.session = NoSession
      ELSE /\ about.timeline \in {NoCall, call.id}
           /\ about.recordings \subseteq {call.id}
           /\ {about.session, about.greeting, about.sharing}
                  \subseteq {NoSession, call.session}
           /\ about.observations \subseteq {call.session}
=============================================================================
