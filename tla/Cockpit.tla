------------------------------- MODULE Cockpit -------------------------------
(* The operator's cockpit (apps/web/app/page.tsx) and the panels of it that   *)
(* keep a state of their own: the draft note, the action outbox, the support  *)
(* note draft and the case timeline.  A panel's content is abstracted to the  *)
(* session it was fetched for; what the API does with the requests is in      *)
(* Casework, AiRequests and ActionOutbox.                                     *)
EXTENDS WebTab

CONSTANTS
    Opened,       \* the sessions stored when the page is opened, of all in Sessions
    Texts,        \* note texts
    NoText,       \* the empty note
    Handlers      \* the fetching buttons the operator uses in the visit

ASSUME CockpitAssumption ==
    /\ Opened \subseteq Sessions
    /\ NoText \notin Texts
    /\ Handlers \subseteq {"ticket", "glpi", "evidence", "draft", "greeting"}

VARIABLES
    stored,       \* the sessions the API knows
    known,        \* sessions: the sidebar's list
    linked,       \* ?session= of the URL, until it has been selected
    selected,     \* selectedSession
    shown,        \* panel -> the session its content was fetched for
    timelineError, \* error of CaseTimelinePanel
    note,         \* draft and reviewed of DraftNotePanel
    ticked,       \* history: the text the operator last ticked as reviewed
    writes,       \* history: texts written back, with `ticked` at that time
    filed         \* history: sessions and tickets named by actions and drafts

cockpitVars == <<stored, known, linked, selected, shown, timelineError, note,
                 ticked, writes, filed>>

\* The panels handleSelectSession clears, and the ones it leaves as they are.
Cleared == {"ticket", "details", "suggestion", "greeting", "written", "evidence"}
Panels  == Cleared \cup {"glpi", "actions", "timeline"}

Kinds == {"list", "create", "details", "timeline", "refresh", "ticket", "glpi",
          "evidence", "manual", "draft", "greeting", "writeback", "action", "supportnote"}

\* The panel a handler fills with the answer to its request.
Fills == [ticket |-> "ticket", glpi |-> "glpi", evidence |-> "evidence",
          draft |-> "suggestion", greeting |-> "greeting"]

Task == [kind : Kinds, step : {"asked", "drafted", "listing", "details"},
         session : Sessions \cup {NoSession}, text : Texts \cup {NoText}]

Waiting(kind, s) == [kind |-> kind, step |-> "asked", session |-> s, text |-> NoText]

----------------------------------------------------------------------------
\* Nothing is shown or selected yet.
CockpitIdle ==
    /\ stored = Opened
    /\ known = {}
    /\ selected = NoSession
    /\ shown = [p \in Panels |-> NoSession]
    /\ timelineError = FALSE
    /\ note = [text |-> NoText, reviewed |-> FALSE]
    /\ ticked = NoText
    /\ writes = {}
    /\ filed = {}

\* The page is opened, with or without a session in its URL: fetchSessions runs.
CockpitInit ==
    /\ CockpitIdle
    /\ linked \in Opened \cup {NoSession}
    /\ tasks = One(Waiting("list", NoSession))

\* setSelectedSession: another session cancels the timeline's request and
\* starts one for it; a new object, of the same session too, has the outbox
\* panel list its actions.  `rest` are the tasks that go on.
Turn(s, rest, newObject) ==
    LET turned == s # selected
        kept   == IF turned
                  THEN [t \in {x \in BagToSet(rest) : x.kind # "timeline"} |-> rest[t]]
                  ELSE rest
    IN  /\ selected' = s
        /\ timelineError' = (timelineError /\ ~turned)
        /\ tasks' = kept
              (+) SetToBag({Waiting("timeline", s) : x \in {y \in {s} : turned}})
              (+) SetToBag({Waiting("refresh", s) : x \in {y \in {s} : newObject}})

\* Variant: the setters forget setDraftSuggestion(undefined).
ClearsAllButDraft ==
    [p \in Panels |-> IF p \in Cleared \ {"suggestion"} THEN NoSession ELSE shown[p]]

\* The setters of handleSelectSession that empty the panels.
Clears == [p \in Panels |-> IF p \in Cleared THEN NoSession ELSE shown[p]]

\* handleSelectSession up to its await: select, clear, ask for the details.
Choose(s, rest) ==
    /\ Turn(s, rest (+) One(Waiting("details", s)), s # selected)
    /\ shown' = Clears
    /\ crossed' = (crossed \/ rest # EmptyBag)

\* A row of the sidebar, which is hidden while the list loads.
Select(s) ==
    /\ s \in known
    /\ ~Loading("list")
    /\ Started
    /\ Choose(s, tasks)
    /\ UNCHANGED <<stored, known, linked, note, ticked, writes, filed>>

\* The session list arrives, as it was at some moment since it was asked for;
\* the session of the URL is selected when it is among them.
ListArrives ==
    LET t == Waiting("list", NoSession) IN
    /\ t \in InFlight
    /\ known' \in {l \in SUBSET stored : Opened \subseteq l}
    /\ IF linked \in known'
       THEN Choose(linked, tasks (-) One(t)) /\ linked' = NoSession
       ELSE /\ tasks' = tasks (-) One(t)
            /\ UNCHANGED <<linked, selected, shown, timelineError, crossed>>
    /\ UNCHANGED <<stored, note, requests, ticked, writes, filed>>

----------------------------------------------------------------------------
\* What the operator starts for the selected session.

Ask(t) ==
    /\ Started
    /\ Waits(t)
    /\ UNCHANGED <<stored, known, linked, selected, shown, timelineError, note, ticked, crossed>>

\* handleCreateSession: the form of the sidebar.
CreateSession ==
    /\ \E s \in Sessions \ stored : TRUE
    /\ Ask(Waiting("create", NoSession))
    /\ UNCHANGED <<writes, filed>>

\* handleLoadTicket, handleLoadGlpiTicket, handleGenerateEvidenceBundle,
\* handleGenerateDraft, handleGenerateGreeting: one at a time of each.
Fetch(kind) ==
    /\ selected # NoSession
    /\ ~Loading(kind)
    /\ Ask(Waiting(kind, selected))
    /\ UNCHANGED <<writes, filed>>

\* Variant: handleAddManual without its early return.
AddManualUnguarded ==
    /\ Ask(Waiting("manual", selected))
    /\ UNCHANGED <<writes, filed>>

\* handleAddManual: its form has no loading state.
AddManual ==
    /\ selected # NoSession
    /\ Ask(Waiting("manual", selected))
    /\ UNCHANGED <<writes, filed>>

\* The button of DraftNotePanel: canWriteback, and no write-back under way.
Writeback ==
    /\ selected # NoSession
    /\ note.reviewed
    /\ note.text # NoText
    /\ ~Loading("writeback")
    /\ Ask([Waiting("writeback", selected) EXCEPT !.text = note.text])
    /\ writes' = writes \cup {[text |-> note.text, ticked |-> ticked]}
    /\ UNCHANGED filed

\* `Create draft action` of the outbox panel names the ticket shown.
CreateAction ==
    /\ selected # NoSession
    /\ ~Loading("action")
    /\ Ask(Waiting("action", selected))
    /\ filed' = filed \cup {[session |-> selected, ticket |-> shown["ticket"]]}
    /\ UNCHANGED writes

\* Submit, approve, reject, queue, deliver: buttons for the latest action listed.
MoveAction ==
    /\ selected # NoSession
    /\ shown["actions"] # NoSession
    /\ ~Loading("action")
    /\ Ask(Waiting("action", selected))
    /\ UNCHANGED <<writes, filed>>

\* SupportNoteDraftPanel asks for a draft about the ticket shown.
DraftSupportNote ==
    /\ selected # NoSession
    /\ shown["ticket"] # NoSession
    /\ ~Loading("supportnote")
    /\ Ask(Waiting("supportnote", selected))
    /\ filed' = filed \cup {[session |-> selected, ticket |-> shown["ticket"]]}
    /\ UNCHANGED writes

\* The text area of the draft note: another text is not reviewed.
EditNote(x) ==
    /\ selected # NoSession
    /\ x # note.text
    /\ note' = [text |-> x, reviewed |-> FALSE]
    /\ UNCHANGED <<stored, known, linked, selected, shown, timelineError, tasks,
                   requests, ticked, writes, filed, crossed>>

\* The `Reviewed` box.
TickReviewed ==
    /\ selected # NoSession
    /\ note' = [note EXCEPT !.reviewed = ~@]
    /\ ticked' = IF note'.reviewed THEN note.text ELSE ticked
    /\ UNCHANGED <<stored, known, linked, selected, shown, timelineError, tasks,
                   requests, writes, filed, crossed>>

----------------------------------------------------------------------------
\* Answers.

ThenDetails(t) == [t EXCEPT !.step = "details"]

\* createSession is answered: the session is listed and selected.
SessionCreated(t) ==
    /\ t.kind = "create"
    /\ \E s \in Sessions \ stored :
          /\ stored' = stored \cup {s}
          /\ known' = known \cup {s}
          /\ Choose(s, tasks (-) One(t))
    /\ UNCHANGED <<linked, note, requests, ticked, writes, filed>>

\* Variant: the selection stays as it is.
LoadedInPlace(t) ==
    /\ t.kind = "ticket"
    /\ t.step = "asked"
    /\ shown' = [shown EXCEPT !["ticket"] = t.session]
    /\ GoesOn(t, ThenDetails(t))
    /\ UNCHANGED <<stored, known, linked, selected, timelineError, note, requests,
                   ticked, writes, filed, crossed>>

\* handleLoadTicket goes on: its session becomes the selected one, a new object.
TicketLoaded(t) ==
    /\ t.kind = "ticket"
    /\ t.step = "asked"
    /\ shown' = [shown EXCEPT !["ticket"] = t.session]
    /\ Turn(t.session, (tasks (-) One(t)) (+) One(ThenDetails(t)), TRUE)
    /\ UNCHANGED <<stored, known, linked, note, requests, ticked, writes, filed, crossed>>

\* The other requests that fill a panel, then reload the details; the draft of
\* a suggestion is kept for DraftNotePanel.handleGenerate.
Fetched(t) ==
    /\ t.kind \in {"glpi", "evidence", "draft", "greeting"}
    /\ t.step = "asked"
    /\ shown' = [shown EXCEPT ![Fills[t.kind]] = t.session]
    /\ \E x \in IF t.kind = "draft" THEN Texts ELSE {NoText} :
          GoesOn(t, [ThenDetails(t) EXCEPT !.text = x])
    /\ UNCHANGED <<stored, known, linked, selected, timelineError, note, requests,
                   ticked, writes, filed, crossed>>

\* The steps that show nothing yet: a packet was added; the note's draft was
\* stored and is written back next; an action changed and is listed next.
Proceeds(t) ==
    /\ t.step = "asked"
    /\ \/ t.kind = "manual" /\ GoesOn(t, ThenDetails(t))
       \/ t.kind = "writeback" /\ GoesOn(t, [t EXCEPT !.step = "drafted"])
       \/ t.kind = "action" /\ GoesOn(t, [t EXCEPT !.step = "listing"])
       \/ t.kind = "supportnote" /\ tasks' = tasks (-) One(t)
    /\ UNCHANGED <<stored, known, linked, selected, shown, timelineError, note,
                   requests, ticked, writes, filed, crossed>>

\* writebackInternalNote is answered.
WrittenBack(t) ==
    /\ t.kind = "writeback"
    /\ t.step = "drafted"
    /\ shown' = [shown EXCEPT !["written"] = t.session]
    /\ GoesOn(t, ThenDetails(t))
    /\ UNCHANGED <<stored, known, linked, selected, timelineError, note, requests,
                   ticked, writes, filed, crossed>>

\* ActionOutboxPanel.refresh ends, of a selection or of run(); it keeps its
\* errors to itself, and run() then reloads the details.
Listed(t) ==
    /\ t.kind = "refresh" \/ t.step = "listing"
    /\ \/ shown' = [shown EXCEPT !["actions"] = t.session]
       \/ UNCHANGED shown
    /\ IF t.kind = "refresh" THEN tasks' = tasks (-) One(t) ELSE GoesOn(t, ThenDetails(t))
    /\ UNCHANGED <<stored, known, linked, selected, timelineError, note, requests,
                   ticked, writes, filed, crossed>>

\* Variant: a generated draft leaves the box ticked.
NoteStaysReviewed(t) ==
    IF t.kind = "draft" THEN [note EXCEPT !.text = t.text] ELSE note

\* What a handler does once the details are there: a generated draft becomes
\* the note, not reviewed.
NoteAfter(t) ==
    IF t.kind = "draft" THEN [text |-> t.text, reviewed |-> FALSE] ELSE note

\* fetchSessionDetails ends, of a selection or within a handler, which does
\* not notice its failure.
DetailsEnd(t) ==
    /\ t.kind = "details" \/ t.step = "details"
    /\ \/ shown' = [shown EXCEPT !["details"] = t.session]
       \/ UNCHANGED shown
    /\ note' = NoteAfter(t)
    /\ tasks' = tasks (-) One(t)
    /\ UNCHANGED <<stored, known, linked, selected, timelineError, requests, ticked,
                   writes, filed, crossed>>

\* The timeline's request, which nothing cancelled, is answered or fails.
TimelineEnds(t) ==
    /\ t.kind = "timeline"
    /\ \/ shown' = [shown EXCEPT !["timeline"] = t.session] /\ UNCHANGED timelineError
       \/ timelineError' = TRUE /\ UNCHANGED shown
    /\ tasks' = tasks (-) One(t)
    /\ UNCHANGED <<stored, known, linked, selected, note, requests, ticked, writes,
                   filed, crossed>>

\* A request is refused or lost: the handler's catch ends it with a message,
\* which for a write-back is shown as its result.
Fails(t) ==
    /\ t.kind \notin {"details", "refresh", "timeline"}
    /\ t.step \in {"asked", "drafted"}
    /\ shown' = IF t.kind = "writeback" THEN [shown EXCEPT !["written"] = t.session] ELSE shown
    /\ tasks' = tasks (-) One(t)
    /\ UNCHANGED <<stored, known, linked, selected, timelineError, note, requests,
                   ticked, writes, filed, crossed>>

Operator ==
    \/ \E s \in Sessions : Select(s)
    \/ CreateSession
    \/ \E kind \in Handlers : Fetch(kind)
    \/ AddManual
    \/ Writeback
    \/ CreateAction
    \/ MoveAction
    \/ DraftSupportNote
    \/ \E x \in Texts : EditNote(x)
    \/ TickReviewed

Answers ==
    \/ ListArrives
    \/ \E t \in InFlight :
          \/ SessionCreated(t)
          \/ TicketLoaded(t)
          \/ Fetched(t)
          \/ Proceeds(t)
          \/ WrittenBack(t)
          \/ Listed(t)
          \/ DetailsEnd(t)
          \/ TimelineEnds(t)
          \/ Fails(t)

CockpitNext == Operator \/ Answers

----------------------------------------------------------------------------
\* Types of the page's state; only the list and a creation wait for no session.
CockpitTypeOK ==
    /\ Opened \subseteq stored /\ stored \subseteq Sessions
    /\ known \subseteq stored
    /\ linked \in Sessions \cup {NoSession}
    /\ selected \in stored \cup {NoSession}
    /\ shown \in [Panels -> Sessions \cup {NoSession}]
    /\ timelineError \in BOOLEAN
    /\ note \in [text : Texts \cup {NoText}, reviewed : BOOLEAN]
    /\ TabTypeOK
    /\ InFlight \subseteq Task
    /\ \A t \in InFlight : t.session = NoSession => t.kind \in {"list", "create"}
    /\ ticked \in Texts \cup {NoText}
    /\ writes \subseteq [text : Texts, ticked : Texts \cup {NoText}]
    /\ filed \subseteq [session : Sessions, ticket : Sessions \cup {NoSession}]

\* A support action or a support note draft names a ticket of its own session,
\* whatever is selected while tickets load: the ticket shown is always of the
\* session selected (page.tsx: handleSelectSession clears the ticket,
\* handleLoadTicket sets the ticket together with its session).
TicketOfSession ==
    /\ shown["ticket"] \in {NoSession, selected}
    /\ \A f \in filed : f.ticket \in {NoSession, f.session}

\* A note is written back only in the wording the operator ticked as reviewed,
\* though drafts arrive and the text is edited in between (DraftNotePanel.tsx).
WrittenAsReviewed == \A w \in writes : w.text = w.ticked

\* The timeline shown is of the session selected, unless its request waits or
\* has failed (CaseTimelinePanel.tsx cancels the earlier request).
TimelineOfSession ==
    \/ shown["timeline"] = selected
    \/ Loading("timeline")
    \/ timelineError

\* As long as no session was selected while a request was under way, what the
\* panels show was fetched for the session selected (page.tsx,
\* handleSelectSession); the timeline is never another session's for long.
PanelsOfSession ==
    /\ TimelineOfSession
    /\ ~crossed => \A p \in Cleared : shown[p] \in {NoSession, selected}
=============================================================================
