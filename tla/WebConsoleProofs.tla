--------------------------- MODULE WebConsoleProofs ---------------------------
(***************************************************************************)
(* Theorems of WebConsole, for every set of sessions, calls, devices,      *)
(* installations, policies, tabs and users, any number of requests and of  *)
(* handlers that wait: panels are about what is selected and show what is  *)
(* stored, notes and tickets are those of their session, edits stay in     *)
(* their form, a sign-in makes one session, a tab shows who it acts as, no *)
(* button stays disabled, and what a page shows has its types.             *)
(*                                                                         *)
(* What a page shows says nothing of what is still to arrive.  PagesInv    *)
(* has an invariant per page that says it of every handler under way: for  *)
(* which selection it was started, what it carries, and, where it matters, *)
(* that it is alone.  Handlers are a bag: two of them may be equal, and    *)
(* one that ends may leave the other behind.  TypesInv is the part that    *)
(* only the types need.                                                    *)
(***************************************************************************)
EXTENDS WebConsole, TLAPS

-----------------------------------------------------------------------------
(* The bag of handlers that wait *)

LEMMA BagSet == ASSUME NEW S PROVE IsABag(SetToBag(S)) /\ BagToSet(SetToBag(S)) = S
BY DEF IsABag, SetToBag, BagToSet

LEMMA BagAdd ==
  ASSUME NEW a, NEW b, IsABag(a), IsABag(b)
  PROVE  /\ IsABag(a (+) b)
         /\ BagToSet(a (+) b) = BagToSet(a) \cup BagToSet(b)
         /\ \A x \in BagToSet(a) \ BagToSet(b) : (a (+) b)[x] = a[x]
         /\ \A x \in BagToSet(b) \ BagToSet(a) : (a (+) b)[x] = b[x]
BY DEF IsABag, BagToSet, (+)

LEMMA BagTake ==
  ASSUME NEW a, NEW b, IsABag(a), IsABag(b)
  PROVE  /\ IsABag(a (-) b)
         /\ BagToSet(a (-) b) \subseteq BagToSet(a)
         /\ BagToSet(a) \ BagToSet(b) \subseteq BagToSet(a (-) b)
         /\ \A x \in BagToSet(a) \ BagToSet(b) : (a (-) b)[x] = a[x]
         /\ \A x \in BagToSet(a) \cap BagToSet(b) : a[x] = b[x] => x \notin BagToSet(a (-) b)
BY DEF IsABag, BagToSet, (-)

LEMMA OneBag == ASSUME NEW t PROVE IsABag(One(t)) /\ BagToSet(One(t)) = {t} /\ One(t)[t] = 1
BY DEF One, SetToBag, IsABag, BagToSet

LEMMA WaitsBag ==
  ASSUME IsABag(tasks), NEW t, Waits(t)
  PROVE  /\ IsABag(tasks')
         /\ InFlight' = InFlight \cup {t}
         /\ \A x \in InFlight' : x # t => tasks'[x] = tasks[x]
         /\ t \notin InFlight => tasks'[t] = 1
BY OneBag, BagAdd DEF Waits, InFlight

LEMMA EndedBag ==
  ASSUME IsABag(tasks), NEW t, Ended(t)
  PROVE  /\ IsABag(tasks')
         /\ InFlight' \subseteq InFlight /\ InFlight \ {t} \subseteq InFlight'
         /\ \A x \in InFlight' : x # t => tasks'[x] = tasks[x]
         /\ t \in InFlight /\ tasks[t] = 1 => t \notin InFlight'
BY OneBag, BagTake DEF Ended, InFlight

LEMMA GoesOnBag ==
  ASSUME IsABag(tasks), NEW t, NEW u, GoesOn(t, u)
  PROVE  /\ IsABag(tasks')
         /\ InFlight' \subseteq InFlight \cup {u} /\ (InFlight \ {t}) \cup {u} \subseteq InFlight'
         /\ \A x \in InFlight' : x # t /\ x # u => tasks'[x] = tasks[x]
         /\ t \in InFlight /\ tasks[t] = 1 /\ t # u => t \notin InFlight'
         /\ u \notin InFlight => tasks'[u] = 1
<1> DEFINE rest == tasks (-) One(t)
<1>1. IsABag(One(t)) /\ BagToSet(One(t)) = {t} /\ One(t)[t] = 1
  BY OneBag
<1>2. IsABag(One(u)) /\ BagToSet(One(u)) = {u} /\ One(u)[u] = 1
  BY OneBag
<1>3. /\ IsABag(rest)
      /\ BagToSet(rest) \subseteq InFlight /\ InFlight \ {t} \subseteq BagToSet(rest)
      /\ \A x \in InFlight \ {t} : rest[x] = tasks[x]
      /\ t \in InFlight /\ tasks[t] = 1 => t \notin BagToSet(rest)
  BY <1>1, BagTake DEF InFlight
<1>4. tasks' = rest (+) One(u)
  BY DEF GoesOn
<1> HIDE DEF rest
<1>5. /\ IsABag(tasks')
      /\ BagToSet(tasks') = BagToSet(rest) \cup {u}
      /\ \A x \in BagToSet(rest) \ {u} : tasks'[x] = rest[x]
      /\ \A x \in {u} \ BagToSet(rest) : tasks'[x] = One(u)[x]
  BY <1>2, <1>3, <1>4, BagAdd
<1> QED  BY <1>2, <1>3, <1>5 DEF InFlight

-----------------------------------------------------------------------------
(* The cockpit *)

\* The ticket shown and the tickets filed are of their session; a note that is
\* reviewed is the one that was ticked; the only timeline under way is of the
\* session selected; until selections cross, so is everything else.
CockpitInv ==
  /\ DOMAIN shown = Panels
  /\ TicketOfSession
  /\ note = [text |-> note.text, reviewed |-> note.reviewed]
  /\ note.reviewed => note.text = ticked
  /\ WrittenAsReviewed
  /\ \A t \in InFlight : t = [kind |-> t.kind, step |-> t.step, session |-> t.session, text |-> t.text]
  /\ \A t \in InFlight : t.kind \in {"list", "create"} => t.step = "asked"
  /\ \A t \in InFlight : t.kind = "timeline" => t = Waiting("timeline", selected)
  /\ TimelineOfSession
  /\ ~crossed => /\ \A p \in Cleared : shown[p] \in {NoSession, selected}
                 /\ \A t \in InFlight : t.kind \notin {"list", "create"} => t.session = selected

USE DEF Waiting

\* The operator starts a request.
LEMMA AskStep ==
  ASSUME IsABag(tasks), CockpitInv, NEW t, Ask(t),
         t = [kind |-> t.kind, step |-> t.step, session |-> t.session, text |-> t.text],
         t.kind # "timeline", t.step = "asked",
         t.kind \in {"list", "create"} \/ t.session = selected,
         \/ writes' = writes
         \/ note.reviewed /\ writes' = writes \cup {[text |-> note.text, ticked |-> ticked]},
         \/ filed' = filed
         \/ filed' = filed \cup {[session |-> selected, ticket |-> shown["ticket"]]}
  PROVE  IsABag(tasks)' /\ CockpitInv'
<1>1. /\ IsABag(tasks')
      /\ InFlight' = InFlight \cup {t}
  BY WaitsBag DEF Ask
<1>2. UNCHANGED <<selected, shown, timelineError, note, ticked, crossed>>
  BY DEF Ask
<1>3. TicketOfSession' /\ WrittenAsReviewed'
  BY <1>2 DEF CockpitInv, TicketOfSession, WrittenAsReviewed
<1>4. TimelineOfSession'
  BY <1>1, <1>2 DEF CockpitInv, TimelineOfSession, Loading
<1> QED  BY <1>1, <1>2, <1>3, <1>4 DEF CockpitInv

\* An answer that leaves the selection alone: its handler ends or goes on, and
\* has filled a panel for its session.
LEMMA AnswerStep ==
  ASSUME IsABag(tasks), CockpitInv, NEW t \in InFlight, NEW u,
         IsABag(tasks'), InFlight' \subseteq InFlight \cup {u}, InFlight \ {t} \subseteq InFlight',
         u = t \/ u = [kind |-> t.kind, step |-> u.step, session |-> t.session, text |-> u.text],
         t.kind # "timeline", t.kind \in {"list", "create"} => u = t,
         UNCHANGED <<selected, timelineError, ticked, writes, filed, crossed>>,
         \/ shown' = shown
         \/ /\ t.kind \notin {"list", "create"}
            /\ \E p \in Panels \ {"ticket", "timeline"} : shown' = [shown EXCEPT ![p] = t.session],
         note' = note \/ note' = [text |-> note'.text, reviewed |-> FALSE]
  PROVE  CockpitInv'
<1>1. \A x \in InFlight' : x \in InFlight \/ (x = u /\ u.kind = t.kind /\ u.session = t.session
          /\ u = [kind |-> u.kind, step |-> u.step, session |-> u.session, text |-> u.text])
  BY DEF CockpitInv
<1>2. DOMAIN shown' = Panels /\ shown'["ticket"] = shown["ticket"] /\ shown'["timeline"] = shown["timeline"]
  BY DEF CockpitInv, Panels, Cleared
<1>3. TicketOfSession' /\ WrittenAsReviewed'
  BY <1>2 DEF CockpitInv, TicketOfSession, WrittenAsReviewed
<1>4. note' = [text |-> note'.text, reviewed |-> note'.reviewed] /\ (note'.reviewed => note'.text = ticked')
  BY DEF CockpitInv
<1>5. TimelineOfSession'
  BY <1>2 DEF CockpitInv, TimelineOfSession, Loading
<1>6. ASSUME ~crossed'
      PROVE  /\ \A p \in Cleared : shown'[p] \in {NoSession, selected'}
             /\ \A x \in InFlight' : x.kind \notin {"list", "create"} => x.session = selected'
  BY <1>1, <1>6 DEF CockpitInv, Cleared, Panels
<1>7. \A x \in InFlight' : x.kind = "timeline" => x = Waiting("timeline", selected')
  BY <1>1 DEF CockpitInv
<1>8. \A x \in InFlight' : x = [kind |-> x.kind, step |-> x.step, session |-> x.session, text |-> x.text]
  BY <1>1 DEF CockpitInv
<1>9. \A x \in InFlight' : x.kind \in {"list", "create"} => x.step = "asked"
  BY <1>1 DEF CockpitInv
<1> QED  BY <1>2, <1>3, <1>4, <1>5, <1>6, <1>7, <1>8, <1>9 DEF CockpitInv

\* What waits once another session has been selected, or the same one again.
LEMMA TurnBag ==
  ASSUME NEW s, NEW rest, NEW newObject, IsABag(rest), Turn(s, rest, newObject)
  PROVE  /\ IsABag(tasks')
         /\ InFlight' = {x \in BagToSet(rest) : s = selected \/ x.kind # "timeline"}
                          \cup {x \in {Waiting("timeline", s)} : s # selected}
                          \cup {x \in {Waiting("refresh", s)} : newObject}
<1> DEFINE kept == IF s # selected
                   THEN [t \in {x \in BagToSet(rest) : x.kind # "timeline"} |-> rest[t]]
                   ELSE rest
           A == {Waiting("timeline", s) : x \in {y \in {s} : s # selected}}
           B == {Waiting("refresh", s) : x \in {y \in {s} : newObject}}
<1>1. IsABag(kept) /\ BagToSet(kept) = {x \in BagToSet(rest) : s = selected \/ x.kind # "timeline"}
  BY DEF IsABag, BagToSet
<1>2. tasks' = (kept (+) SetToBag(A)) (+) SetToBag(B)
  BY DEF Turn
<1>3. A = {x \in {Waiting("timeline", s)} : s # selected} /\ B = {x \in {Waiting("refresh", s)} : newObject}
  OBVIOUS
<1> HIDE DEF kept, A, B
<1>4. IsABag(SetToBag(A)) /\ BagToSet(SetToBag(A)) = A /\ IsABag(SetToBag(B)) /\ BagToSet(SetToBag(B)) = B
  BY BagSet
<1>5. IsABag(kept (+) SetToBag(A)) /\ BagToSet(kept (+) SetToBag(A)) = BagToSet(kept) \cup A
  BY <1>1, <1>4, BagAdd
<1>6. IsABag(tasks') /\ BagToSet(tasks') = BagToSet(kept) \cup A \cup B
  BY <1>2, <1>4, <1>5, BagAdd
<1> QED  BY <1>1, <1>3, <1>6 DEF InFlight

\* handleSelectSession, whatever goes on meanwhile.
LEMMA ChooseStep ==
  ASSUME IsABag(tasks), CockpitInv, NEW s, NEW rest, IsABag(rest), BagToSet(rest) \subseteq InFlight,
         \A t \in InFlight : t.kind = "timeline" => t \in BagToSet(rest),
         Choose(s, rest), UNCHANGED <<note, ticked, writes, filed>>
  PROVE  IsABag(tasks)' /\ CockpitInv'
<1> DEFINE d == Waiting("details", s)
           all == rest (+) One(d)
<1>1. IsABag(all) /\ BagToSet(all) = BagToSet(rest) \cup {d}
  BY OneBag, BagAdd
<1>2. Turn(s, all, s # selected) /\ shown' = Clears /\ crossed' = (crossed \/ rest # EmptyBag)
  BY DEF Choose
<1> HIDE DEF all
<1>3. /\ IsABag(tasks')
      /\ InFlight' = {x \in BagToSet(all) : s = selected \/ x.kind # "timeline"}
                       \cup {x \in {Waiting("timeline", s)} : s # selected}
                       \cup {x \in {Waiting("refresh", s)} : s # selected}
  BY <1>1, <1>2, TurnBag
<1>4. selected' = s /\ timelineError' = (timelineError /\ s = selected)
  BY <1>2 DEF Turn
<1>5. /\ DOMAIN shown' = Panels
      /\ \A p \in Cleared : shown'[p] = NoSession
      /\ shown'["timeline"] = shown["timeline"] /\ shown'["ticket"] = NoSession
  BY <1>2 DEF Clears, Cleared, Panels
<1>6. TicketOfSession' /\ WrittenAsReviewed'
  BY <1>5 DEF CockpitInv, TicketOfSession, WrittenAsReviewed
<1>7. TimelineOfSession'
  <2>1. CASE s = selected
    <3>1. \A x \in InFlight : x.kind = "timeline" => x \in InFlight'
      BY <1>1, <1>3, <2>1
    <3> QED  BY <1>4, <1>5, <2>1, <3>1 DEF CockpitInv, TimelineOfSession, Loading
  <2>2. CASE s # selected
    <3>1. Waiting("timeline", s) \in InFlight'
      BY <1>3, <2>2
    <3> QED  BY <3>1 DEF TimelineOfSession, Loading
  <2> QED  BY <2>1, <2>2
<1>8. \A x \in InFlight' : x = [kind |-> x.kind, step |-> x.step, session |-> x.session, text |-> x.text]
  BY <1>1, <1>3 DEF CockpitInv
<1>9. \A x \in InFlight' : x.kind = "timeline" => x = Waiting("timeline", s)
  BY <1>1, <1>3 DEF CockpitInv
<1>10. ASSUME ~crossed' PROVE \A x \in InFlight' : x.session = s
  <2>1. BagToSet(rest) = {}
    BY <1>2, <1>10 DEF EmptyBag, SetToBag, BagToSet
  <2> QED  BY <1>1, <1>3, <2>1
<1>11. note' = note /\ ticked' = ticked
  OBVIOUS
<1>12. \A x \in InFlight' : x.kind \in {"list", "create"} => x.step = "asked"
  BY <1>1, <1>3 DEF CockpitInv
<1> QED  BY <1>12, <1>3, <1>4, <1>5, <1>6, <1>7, <1>8, <1>9, <1>10, <1>11 DEF CockpitInv


\* handleLoadTicket selects its session, and shows the ticket with it.
LEMMA TicketLoadedStep ==
  ASSUME IsABag(tasks), CockpitInv, NEW t \in InFlight, TicketLoaded(t)
  PROVE  IsABag(tasks)' /\ CockpitInv'
<1> DEFINE s == t.session
           u == ThenDetails(t)
           all == (tasks (-) One(t)) (+) One(u)
<1>1. u = [kind |-> "ticket", step |-> "details", session |-> s, text |-> t.text]
  BY DEF CockpitInv, ThenDetails, TicketLoaded
<1>2. /\ IsABag(tasks (-) One(t)) /\ BagToSet(tasks (-) One(t)) \subseteq InFlight
      /\ InFlight \ {t} \subseteq BagToSet(tasks (-) One(t))
  BY OneBag, BagTake DEF InFlight
<1>3. IsABag(all) /\ BagToSet(all) \subseteq InFlight \cup {u} /\ InFlight \ {t} \subseteq BagToSet(all)
      /\ u \in BagToSet(all)
  BY <1>2, OneBag, BagAdd
<1>4. /\ Turn(s, all, TRUE) /\ shown' = [shown EXCEPT !["ticket"] = s]
      /\ t.kind = "ticket"
      /\ UNCHANGED <<note, ticked, writes, filed, crossed>>
  BY DEF TicketLoaded
<1> HIDE DEF all, u
<1>5. /\ IsABag(tasks')
      /\ InFlight' = {x \in BagToSet(all) : s = selected \/ x.kind # "timeline"}
                       \cup {x \in {Waiting("timeline", s)} : s # selected}
                       \cup {x \in {Waiting("refresh", s)} : TRUE}
  BY <1>3, <1>4, TurnBag
<1>6. selected' = s /\ timelineError' = (timelineError /\ s = selected)
  BY <1>4 DEF Turn
<1>7. /\ DOMAIN shown' = Panels /\ shown'["ticket"] = s
      /\ \A p \in Panels \ {"ticket"} : shown'[p] = shown[p]
      /\ shown'["timeline"] = shown["timeline"]
  BY <1>4 DEF CockpitInv, Panels, Cleared
<1>8. TicketOfSession' /\ WrittenAsReviewed'
  BY <1>4, <1>6, <1>7 DEF CockpitInv, TicketOfSession, WrittenAsReviewed
<1>9. TimelineOfSession'
  <2>1. CASE s = selected
    <3>1. \A x \in InFlight : x.kind = "timeline" => x \in InFlight'
      BY <1>3, <1>4, <1>5, <2>1
    <3> QED  BY <1>6, <1>7, <2>1, <3>1 DEF CockpitInv, TimelineOfSession, Loading
  <2>2. CASE s # selected
    <3>1. Waiting("timeline", s) \in InFlight'
      BY <1>5, <2>2
    <3> QED  BY <3>1 DEF TimelineOfSession, Loading
  <2> QED  BY <2>1, <2>2
<1>10. \A x \in InFlight' : x = [kind |-> x.kind, step |-> x.step, session |-> x.session, text |-> x.text]
  BY <1>1, <1>3, <1>5 DEF CockpitInv
<1>11. \A x \in InFlight' : x.kind = "timeline" => x = Waiting("timeline", s)
  BY <1>1, <1>3, <1>5 DEF CockpitInv
<1>12. ASSUME ~crossed'
       PROVE  /\ \A p \in Cleared : shown'[p] \in {NoSession, s}
              /\ \A x \in InFlight' : x.kind \notin {"list", "create"} => x.session = s
  <2>1. s = selected
    BY <1>4, <1>12 DEF CockpitInv
  <2>2. \A p \in Cleared : shown'[p] \in {NoSession, s}
    BY <1>4, <1>7, <1>12, <2>1 DEF CockpitInv, Panels
  <2>3. \A x \in InFlight : x.kind \notin {"list", "create"} => x.session = s
    BY <1>4, <1>12, <2>1 DEF CockpitInv
  <2> QED  BY <1>1, <1>3, <1>5, <2>2, <2>3
<1>13. \A x \in InFlight' : x.kind \in {"list", "create"} => x.step = "asked"
  BY <1>1, <1>3, <1>5 DEF CockpitInv
<1> QED  BY <1>4, <1>5, <1>6, <1>7, <1>8, <1>9, <1>10, <1>11, <1>12, <1>13 DEF CockpitInv

\* The timeline's request of the session selected ends.
LEMMA TimelineEndsStep ==
  ASSUME IsABag(tasks), CockpitInv, NEW t \in InFlight, TimelineEnds(t)
  PROVE  IsABag(tasks)' /\ CockpitInv'
<1>1. IsABag(tasks') /\ InFlight' \subseteq InFlight
  BY EndedBag DEF TimelineEnds, Ended
<1>2. t.session = selected
  BY DEF CockpitInv, TimelineEnds
<1>3. /\ DOMAIN shown' = Panels /\ \A p \in Cleared : shown'[p] = shown[p]
      /\ shown'["ticket"] = shown["ticket"]
      /\ shown'["timeline"] = selected \/ timelineError' = TRUE
  BY <1>2 DEF TimelineEnds, CockpitInv, Panels, Cleared
<1>4. UNCHANGED <<selected, note, ticked, writes, filed, crossed>>
  BY DEF TimelineEnds
<1>5. TicketOfSession' /\ WrittenAsReviewed' /\ TimelineOfSession'
  BY <1>3, <1>4 DEF CockpitInv, TicketOfSession, WrittenAsReviewed, TimelineOfSession
<1> QED  BY <1>1, <1>3, <1>4, <1>5 DEF CockpitInv

LEMMA CockpitStep ==
  ASSUME IsABag(tasks), CockpitInv, CockpitNext
  PROVE  IsABag(tasks)' /\ CockpitInv'
<1>1. ASSUME NEW s \in Sessions, Select(s) PROVE IsABag(tasks)' /\ CockpitInv'
  BY <1>1, ChooseStep DEF Select, InFlight
<1>2. CASE CreateSession
  BY <1>2, AskStep DEF CreateSession
<1>3. ASSUME NEW kind \in Handlers, Fetch(kind) PROVE IsABag(tasks)' /\ CockpitInv'
  <2>1. kind # "timeline"
    BY <1>3, CockpitAssumption
  <2> QED  BY <1>3, <2>1, AskStep DEF Fetch
<1>4. CASE AddManual
  BY <1>4, AskStep DEF AddManual
<1>5. CASE Writeback
  BY <1>5, AskStep DEF Writeback
<1>6. CASE CreateAction
  BY <1>6, AskStep DEF CreateAction
<1>7. CASE MoveAction
  BY <1>7, AskStep DEF MoveAction
<1>8. CASE DraftSupportNote
  BY <1>8, AskStep DEF DraftSupportNote
<1>9. ASSUME NEW x \in Texts, EditNote(x) PROVE IsABag(tasks)' /\ CockpitInv'
  BY <1>9 DEF EditNote, CockpitInv, TicketOfSession, WrittenAsReviewed, TimelineOfSession, Loading, InFlight
<1>10. CASE TickReviewed
  <2>1. note' = [text |-> note.text, reviewed |-> ~note.reviewed]
    BY <1>10 DEF TickReviewed, CockpitInv
  <2>2. ticked' = (IF note'.reviewed THEN note.text ELSE ticked)
        /\ UNCHANGED <<selected, shown, timelineError, tasks, writes, filed, crossed>>
    BY <1>10 DEF TickReviewed
  <2>3. note' = [text |-> note'.text, reviewed |-> note'.reviewed] /\ (note'.reviewed => note'.text = ticked')
    BY <2>1, <2>2
  <2> QED  BY <2>2, <2>3 DEF CockpitInv, TicketOfSession, WrittenAsReviewed, TimelineOfSession, Loading, InFlight
<1>11. CASE ListArrives
  <2> DEFINE t == Waiting("list", NoSession)
  <2>1. /\ IsABag(tasks (-) One(t)) /\ BagToSet(tasks (-) One(t)) \subseteq InFlight
        /\ InFlight \ {t} \subseteq BagToSet(tasks (-) One(t))
    BY OneBag, BagTake DEF InFlight
  <2>2. CASE linked \in known'
    BY <1>11, <2>1, <2>2, ChooseStep DEF ListArrives
  <2>3. CASE linked \notin known'
    <3>1. t \in InFlight /\ Ended(t) /\ UNCHANGED <<selected, shown, timelineError, crossed, note, ticked, writes, filed>>
      BY <1>11, <2>3 DEF ListArrives, Ended
    <3>2. /\ IsABag(tasks')
          /\ InFlight' \subseteq InFlight /\ InFlight \ {t} \subseteq InFlight'
      BY <3>1, EndedBag
    <3> QED  BY <3>1, <3>2, AnswerStep
  <2> QED  BY <2>2, <2>3
<1>12. ASSUME NEW t \in InFlight, SessionCreated(t) PROVE IsABag(tasks)' /\ CockpitInv'
  <2>1. /\ IsABag(tasks (-) One(t)) /\ BagToSet(tasks (-) One(t)) \subseteq InFlight
        /\ InFlight \ {t} \subseteq BagToSet(tasks (-) One(t))
    BY OneBag, BagTake DEF InFlight
  <2>2. PICK s \in Sessions \ stored : Choose(s, tasks (-) One(t))
    BY <1>12 DEF SessionCreated
  <2>3. UNCHANGED <<note, ticked, writes, filed>> /\ t.kind = "create"
    BY <1>12 DEF SessionCreated
  <2> QED  BY <2>1, <2>2, <2>3, ChooseStep
<1>13. ASSUME NEW t \in InFlight, TicketLoaded(t) PROVE IsABag(tasks)' /\ CockpitInv'
  BY <1>13, TicketLoadedStep
<1>14. ASSUME NEW t \in InFlight, Fetched(t) PROVE IsABag(tasks)' /\ CockpitInv'
  <2>1. PICK x : GoesOn(t, [ThenDetails(t) EXCEPT !.text = x])
    BY <1>14 DEF Fetched
  <2> DEFINE u == [ThenDetails(t) EXCEPT !.text = x]
  <2>2. u = [kind |-> t.kind, step |-> u.step, session |-> t.session, text |-> u.text]
    <3>1. ThenDetails(t) = [kind |-> t.kind, step |-> "details", session |-> t.session, text |-> t.text]
      BY DEF CockpitInv, ThenDetails
    <3> QED  BY <3>1
  <2>3. t.kind \in {"glpi", "evidence", "draft", "greeting"} /\ shown' = [shown EXCEPT ![Fills[t.kind]] = t.session]
    BY <1>14 DEF Fetched
  <2>4. Fills[t.kind] \in Panels \ {"ticket", "timeline"}
    BY <2>3 DEF Fills, Panels, Cleared
  <2> HIDE DEF u
  <2>5. /\ IsABag(tasks')
        /\ InFlight' \subseteq InFlight \cup {u} /\ (InFlight \ {t}) \cup {u} \subseteq InFlight'
    BY <2>1, GoesOnBag DEF u
  <2>6. UNCHANGED <<selected, timelineError, note, ticked, writes, filed, crossed>>
    BY <1>14 DEF Fetched
  <2> QED  BY <2>2, <2>3, <2>4, <2>5, <2>6, AnswerStep
<1>15. ASSUME NEW t \in InFlight, Proceeds(t) PROVE IsABag(tasks)' /\ CockpitInv'
  <2>1. t = [kind |-> t.kind, step |-> t.step, session |-> t.session, text |-> t.text]
    BY DEF CockpitInv
  <2>2. UNCHANGED <<selected, shown, timelineError, note, ticked, writes, filed, crossed>> /\ t.kind \notin {"timeline", "list", "create"}
    BY <1>15 DEF Proceeds
  <2>3. PICK u : /\ u = t \/ u = [kind |-> t.kind, step |-> u.step, session |-> t.session, text |-> u.text]
                 /\ Ended(t) \/ GoesOn(t, u)
    BY <1>15, <2>1 DEF Proceeds, ThenDetails, Ended
  <2>4. /\ IsABag(tasks')
        /\ InFlight' \subseteq InFlight \cup {u} /\ InFlight \ {t} \subseteq InFlight'
    BY <2>3, GoesOnBag, EndedBag
  <2> QED  BY <2>2, <2>3, <2>4, AnswerStep
<1>16. ASSUME NEW t \in InFlight, WrittenBack(t) PROVE IsABag(tasks)' /\ CockpitInv'
  <2>1. t = [kind |-> t.kind, step |-> t.step, session |-> t.session, text |-> t.text]
    BY DEF CockpitInv
  <2>2. UNCHANGED <<selected, timelineError, note, ticked, writes, filed, crossed>> /\ t.kind = "writeback"
        /\ shown' = [shown EXCEPT !["written"] = t.session] /\ GoesOn(t, ThenDetails(t))
    BY <1>16 DEF WrittenBack
  <2> DEFINE u == ThenDetails(t)
  <2>3. u = [kind |-> t.kind, step |-> u.step, session |-> t.session, text |-> u.text]
    BY <2>1 DEF ThenDetails
  <2> HIDE DEF u
  <2>4. /\ IsABag(tasks')
        /\ InFlight' \subseteq InFlight \cup {u} /\ InFlight \ {t} \subseteq InFlight'
    BY <2>2, GoesOnBag DEF u
  <2>5. "written" \in Panels \ {"ticket", "timeline"}
    BY DEF Panels, Cleared
  <2> QED  BY <2>2, <2>3, <2>4, <2>5, AnswerStep
<1>17. ASSUME NEW t \in InFlight, Listed(t) PROVE IsABag(tasks)' /\ CockpitInv'
  <2>1. t = [kind |-> t.kind, step |-> t.step, session |-> t.session, text |-> t.text]
    BY DEF CockpitInv
  <2>2. UNCHANGED <<selected, timelineError, note, ticked, writes, filed, crossed>>
        /\ (shown' = [shown EXCEPT !["actions"] = t.session] \/ shown' = shown)
    BY <1>17 DEF Listed
  <2>3. t.kind \notin {"timeline", "list", "create"}
    BY <1>17 DEF Listed, CockpitInv
  <2>4. PICK u : /\ u = t \/ u = [kind |-> t.kind, step |-> u.step, session |-> t.session, text |-> u.text]
                 /\ Ended(t) \/ GoesOn(t, u)
    BY <1>17, <2>1 DEF Listed, ThenDetails, Ended
  <2>5. /\ IsABag(tasks')
        /\ InFlight' \subseteq InFlight \cup {u} /\ InFlight \ {t} \subseteq InFlight'
    BY <2>4, GoesOnBag, EndedBag
  <2>6. "actions" \in Panels \ {"ticket", "timeline"}
    BY DEF Panels, Cleared
  <2> QED  BY <2>2, <2>3, <2>4, <2>5, <2>6, AnswerStep
<1>18. ASSUME NEW t \in InFlight, DetailsEnd(t) PROVE IsABag(tasks)' /\ CockpitInv'
  <2>2. UNCHANGED <<selected, timelineError, ticked, writes, filed, crossed>>
        /\ (shown' = [shown EXCEPT !["details"] = t.session] \/ shown' = shown)
        /\ (note' = note \/ note' = [text |-> t.text, reviewed |-> FALSE])
    BY <1>18 DEF DetailsEnd, NoteAfter
  <2>3. t.kind \notin {"timeline", "list", "create"}
    BY <1>18 DEF DetailsEnd, CockpitInv
  <2>5. /\ IsABag(tasks')
        /\ InFlight' \subseteq InFlight /\ InFlight \ {t} \subseteq InFlight'
    BY <1>18, EndedBag DEF DetailsEnd, Ended
  <2>6. "details" \in Panels \ {"ticket", "timeline"}
    BY DEF Panels, Cleared
  <2> QED  BY <2>2, <2>3, <2>5, <2>6, AnswerStep
<1>19. ASSUME NEW t \in InFlight, TimelineEnds(t) PROVE IsABag(tasks)' /\ CockpitInv'
  BY <1>19, TimelineEndsStep
<1>20. ASSUME NEW t \in InFlight, Fails(t) PROVE IsABag(tasks)' /\ CockpitInv'
  <2>2. UNCHANGED <<selected, timelineError, note, ticked, writes, filed, crossed>>
        /\ (shown' = shown \/ (t.kind = "writeback" /\ shown' = [shown EXCEPT !["written"] = t.session]))
        /\ t.kind # "timeline"
    BY <1>20 DEF Fails
  <2>5. /\ IsABag(tasks')
        /\ InFlight' \subseteq InFlight /\ InFlight \ {t} \subseteq InFlight'
    BY <1>20, EndedBag DEF Fails, Ended
  <2>6. "written" \in Panels \ {"ticket", "timeline"}
    BY DEF Panels, Cleared
  <2> QED  BY <2>2, <2>5, <2>6, AnswerStep
<1> QED
  BY <1>1, <1>2, <1>3, <1>4, <1>5, <1>6, <1>7, <1>8, <1>9, <1>10, <1>11, <1>12, <1>13, <1>14,
     <1>15, <1>16, <1>17, <1>18, <1>19, <1>20 DEF CockpitNext, Operator, Answers

-----------------------------------------------------------------------------
(* The call console *)

\* Some handler still has to go through one of these steps.
Pending(steps) == \E t \in InFlight : t.step \in steps

\* Handlers for the session shown when their button was pressed, and handlers
\* that end with their first answer.
AboutKinds == {"greeting", "sharing", "capture", "observation"}
OneAnswer  == {"calls", "recording", "observation", "sharing", "bridge", "capture"}

CallTaskOK(t) ==
  /\ t = CallTask(t.kind, t.step, t.snap, t.session, t.key)
  /\ t.kind # "calls" => t.snap \in Snapshot /\ t.snap.id \in DOMAIN callRows
  /\ t.kind \in OneAnswer => t.step = "asked"
  /\ t.step = "listing" => t.kind = "webhook"

\* The calls the tab knows are stored; before one is selected, nothing but the
\* list is under way.
CallShape ==
  /\ callRows \in [DOMAIN callRows -> CallRow] /\ DOMAIN callRows \subseteq Calls
  /\ recent \in [DOMAIN recent -> CallRow] /\ DOMAIN recent \subseteq DOMAIN callRows
  /\ about = [timeline |-> about.timeline, session |-> about.session, greeting |-> about.greeting,
              recordings |-> about.recordings, observations |-> about.observations,
              sharing |-> about.sharing]
  /\ call # NoCall => call \in Snapshot /\ call.id \in DOMAIN callRows
  /\ \A t \in InFlight : CallTaskOK(t)
  /\ call = NoCall => about.session = NoSession /\ \A t \in InFlight : t.kind = "calls"

\* The handlers under way are about the call selected and its session.
CallMatch ==
  \A t \in InFlight : t.kind # "calls" =>
    /\ t.step # "listing" => t.snap.id = call.id /\ t.snap.session = call.session
    /\ t.kind \in AboutKinds => t.session = call.session

\* A panel is about the call selected, or will be fetched again.
CallPanels ==
  /\ about.timeline \in {NoCall, call.id} \/ Pending({"timeline"})
  /\ about.session \in {NoSession, call.session} \/ Pending({"timeline", "session"})
  /\ about.greeting \in {NoSession, call.session} \/ Pending({"timeline", "session"})
  /\ about.recordings \subseteq {call.id} \/ Pending({"timeline", "session", "recordings"})
  /\ about.observations \subseteq {call.session}
       \/ Pending({"timeline", "session", "recordings", "observations"})
  /\ about.sharing \in {NoSession, call.session}
       \/ Pending({"timeline", "session", "recordings", "observations", "sharing"})

CallInv == CallShape /\ (~crossed => CallMatch /\ (call # NoCall => CallPanels))

USE DEF CallTask

LEMMA CallTaskExcept ==
  ASSUME NEW t, NEW kind, t = CallTask(kind, t.step, t.snap, t.session, t.key), NEW step, NEW snap
  PROVE  [t EXCEPT !.step = step, !.snap = snap] = CallTask(kind, step, snap, t.session, t.key)
<1> DEFINE r == [t EXCEPT !.step = step]
<1>1. r = CallTask(kind, step, t.snap, t.session, t.key)
  OBVIOUS
<1>2. [t EXCEPT !.step = step, !.snap = snap] = [r EXCEPT !.snap = snap]
  OBVIOUS
<1> HIDE DEF r
<1>3. [r EXCEPT !.snap = snap] = CallTask(kind, step, snap, t.session, t.key)
  BY <1>1
<1> QED  BY <1>2, <1>3

\* The call selected stays; a handler ends or goes on, and a panel is filled.
LEMMA StayStep ==
  ASSUME IsABag(tasks), CallInv, NEW t \in InFlight, t.kind # "calls", NEW u,
         Ended(t) \/ GoesOn(t, u),
         u = CallTask(t.kind, u.step, u.snap, t.session, t.key),
         u.snap \in Snapshot, u.snap.id \in DOMAIN callRows',
         t.kind \in OneAnswer => u.step = "asked",
         \/ u.step = "listing" /\ t.kind = "webhook"
         \/ u.step # "listing" /\ t.step # "listing" /\ u.snap = t.snap,
         DOMAIN callRows \subseteq DOMAIN callRows', DOMAIN callRows' \subseteq Calls,
         callRows' \in [DOMAIN callRows' -> CallRow],
         UNCHANGED <<recent, call, crossed>>,
         about' = [timeline |-> about'.timeline, session |-> about'.session,
                   greeting |-> about'.greeting, recordings |-> about'.recordings,
                   observations |-> about'.observations, sharing |-> about'.sharing],
         ~crossed /\ CallMatch /\ CallPanels => CallPanels'
  PROVE  IsABag(tasks)' /\ CallInv'
<1>1. /\ IsABag(tasks')
      /\ InFlight' \subseteq InFlight \cup {u}
  BY GoesOnBag, EndedBag
<1>2. call # NoCall /\ call' = call /\ recent' = recent /\ crossed' = crossed
  BY DEF CallInv, CallShape
<1>3. \A x \in InFlight : CallTaskOK(x)'
  BY DEF CallInv, CallShape, CallTaskOK
<1>4. CallTaskOK(u)'
  BY DEF CallTaskOK
<1>5. CallShape'
  <2>1. \A x \in InFlight' : CallTaskOK(x)'
    BY <1>1, <1>3, <1>4
  <2>2. DOMAIN recent' \subseteq DOMAIN callRows' /\ recent' \in [DOMAIN recent' -> CallRow]
    BY <1>2 DEF CallInv, CallShape
  <2>3. call' \in Snapshot /\ call'.id \in DOMAIN callRows'
    BY <1>2 DEF CallInv, CallShape
  <2> QED  BY <1>2, <2>1, <2>2, <2>3 DEF CallShape
<1>6. ASSUME ~crossed' PROVE CallMatch' /\ CallPanels'
  <2>1. CallMatch /\ CallPanels
    BY <1>2, <1>6 DEF CallInv
  <2>2. CallMatch'
    BY <1>1, <1>2, <2>1 DEF CallMatch
  <2> QED  BY <1>2, <1>6, <2>1, <2>2
<1> QED  BY <1>1, <1>5, <1>6 DEF CallInv

\* A call is shown, and its details are asked for.
LEMMA ShowsStep ==
  ASSUME IsABag(tasks), CallInv, NEW snap \in Snapshot, snap.id \in DOMAIN callRows,
         NEW rest, IsABag(rest), BagToSet(rest) \subseteq InFlight, Shows(snap, rest), NEW u,
         tasks' = rest (+) One(u), u.step = "timeline", u.kind \in {"select", "control", "webhook"},
         u = CallTask(u.kind, "timeline", snap, u.session, u.key),
         DOMAIN callRows' = DOMAIN callRows, callRows' \in [DOMAIN callRows -> CallRow],
         DOMAIN recent' \subseteq DOMAIN callRows, recent' \in [DOMAIN recent' -> CallRow],
         about' = about
  PROVE  IsABag(tasks)' /\ CallInv'
<1>1. IsABag(tasks') /\ InFlight' = BagToSet(rest) \cup {u}
  BY OneBag, BagAdd DEF InFlight
<1>2. call' = snap /\ call' # NoCall
  BY ConsoleAssumption DEF Shows
<1>3. CallTaskOK(u)'
  BY DEF CallTaskOK, OneAnswer
<1>4. \A x \in InFlight : CallTaskOK(x)'
  BY DEF CallInv, CallShape, CallTaskOK
<1>5. CallShape'
  <2>1. \A x \in InFlight' : CallTaskOK(x)'
    BY <1>1, <1>3, <1>4
  <2>2. about' = [timeline |-> about'.timeline, session |-> about'.session,
                   greeting |-> about'.greeting, recordings |-> about'.recordings,
                   observations |-> about'.observations, sharing |-> about'.sharing]
    BY DEF CallInv, CallShape
  <2>3. DOMAIN callRows' \subseteq Calls
    BY DEF CallInv, CallShape
  <2> QED  BY <1>2, <2>1, <2>2, <2>3 DEF CallShape
<1>6. ASSUME ~crossed' PROVE CallMatch' /\ CallPanels'
  <2>1. ~crossed /\ (rest = EmptyBag \/ (call # NoCall /\ call.id = snap.id /\ call.session = snap.session))
    BY <1>6 DEF Shows
  <2>2. CallMatch
    BY <2>1 DEF CallInv
  <2>3. CASE rest = EmptyBag
    <3>1. InFlight' = {u}
      BY <1>1, <2>3 DEF EmptyBag, SetToBag, BagToSet
    <3> QED  BY <1>2, <3>1 DEF CallMatch, CallPanels, Pending, AboutKinds
  <2>4. CASE call # NoCall /\ call.id = snap.id /\ call.session = snap.session
    BY <1>1, <1>2, <2>2, <2>4 DEF CallMatch, CallPanels, Pending, AboutKinds
  <2> QED  BY <2>1, <2>3, <2>4
<1> QED  BY <1>1, <1>5, <1>6 DEF CallInv

\* A button is pressed.
LEMMA PressStep ==
  ASSUME IsABag(tasks), CallInv, NEW kind, NEW s, NEW key, Press(kind, s, key),
         kind # "calls",
         ~crossed' => ~crossed /\ (kind \in AboutKinds => s = call.session)
  PROVE  IsABag(tasks)' /\ CallInv'
<1> DEFINE u == CallTask(kind, "asked", call, s, key)
<1>1. IsABag(tasks') /\ InFlight' = InFlight \cup {u}
  BY WaitsBag DEF Press
<1>2. call # NoCall /\ UNCHANGED <<callRows, recent, call, about>>
  BY DEF Press
<1>3. CallTaskOK(u)'
  BY <1>2 DEF CallTaskOK, CallInv, CallShape
<1>4. \A x \in InFlight : CallTaskOK(x)'
  BY <1>2 DEF CallInv, CallShape, CallTaskOK
<1>5. CallShape'
  BY <1>1, <1>2, <1>3, <1>4 DEF CallInv, CallShape
<1>6. ASSUME ~crossed' PROVE CallMatch' /\ CallPanels'
  <2>1. ~crossed /\ (kind \in AboutKinds => s = call.session)
    BY <1>6
  <2>2. CallMatch /\ CallPanels
    BY <1>2, <2>1 DEF CallInv
  <2>3. CallMatch'
    BY <1>1, <1>2, <2>1, <2>2 DEF CallMatch
  <2>4. CallPanels'
    BY <1>1, <1>2, <2>2 DEF CallPanels, Pending
  <2> QED  BY <2>3, <2>4
<1> QED  BY <1>1, <1>5, <1>6 DEF CallInv

\* A button about the session shown.
LEMMA AboutSessionStep ==
  ASSUME IsABag(tasks), CallInv, NEW kind \in AboutKinds, AboutSession(kind)
  PROVE  IsABag(tasks)' /\ CallInv'
<1>1. Press(kind, about.session, "none") /\ kind # "calls"
  BY DEF AboutSession, AboutKinds
<1>2. ~crossed' => ~crossed /\ about.session = call.session
  BY DEF AboutSession
<1> QED  BY <1>1, <1>2, PressStep

\* fetchCallDetails goes on: what it shows is of its call, what is not shown
\* yet will be fetched by the steps to come.
LEMMA DetailsStep ==
  ASSUME IsABag(tasks), CallInv, NEW t \in InFlight, Details(t)
  PROVE  IsABag(tasks)' /\ CallInv'
<1>1. t.step \in {"timeline", "session", "recordings", "observations", "sharing"}
  BY DEF Details, Timeline, LinkedSession, RecordingsListed, ObservationsListed, SharingKnown
<1>2. /\ CallTaskOK(t) /\ t.kind # "calls" /\ t.kind \notin OneAnswer /\ t.step # "listing"
      /\ t.snap \in Snapshot /\ t.snap.id \in DOMAIN callRows
  BY <1>1 DEF CallInv, CallShape, CallTaskOK, OneAnswer
<1>3. t = CallTask(t.kind, t.step, t.snap, t.session, t.key)
  BY <1>2 DEF CallTaskOK
<1>4. UNCHANGED <<callRows, recent, call, crossed>>
  BY DEF Details, Timeline, LinkedSession, RecordingsListed, ObservationsListed, SharingKnown
<1>5. /\ about = [timeline |-> about.timeline, session |-> about.session, greeting |-> about.greeting,
              recordings |-> about.recordings, observations |-> about.observations,
              sharing |-> about.sharing]
      /\ DOMAIN callRows \subseteq Calls /\ callRows \in [DOMAIN callRows -> CallRow]
  BY DEF CallInv, CallShape
<1>6. CallMatch => /\ t.snap.id = call.id /\ t.snap.session = call.session
                   /\ t.kind = "greeting" => t.session = call.session
  BY <1>2 DEF CallMatch, AboutKinds
<1>7. ASSUME NEW step \in {"timeline", "session", "recordings", "observations", "sharing"},
             LET u == [t EXCEPT !.step = step] IN Ended(t) \/ GoesOn(t, u),
             about' = [timeline |-> about'.timeline, session |-> about'.session,
                   greeting |-> about'.greeting, recordings |-> about'.recordings,
                   observations |-> about'.observations, sharing |-> about'.sharing],
             CallMatch /\ CallPanels => CallPanels'
      PROVE  IsABag(tasks)' /\ CallInv'
  <2> DEFINE u == [t EXCEPT !.step = step]
  <2>1. u = CallTask(t.kind, step, t.snap, t.session, t.key)
    BY <1>3
  <2>2. Ended(t) \/ GoesOn(t, u)
    BY <1>7
  <2> HIDE DEF u
  <2>3. /\ u = CallTask(t.kind, u.step, u.snap, t.session, t.key)
        /\ u.snap = t.snap /\ u.step # "listing"
    BY <2>1, <1>7
  <2> QED  BY <1>2, <1>4, <1>5, <1>7, <2>2, <2>3, StayStep
<1>8. ASSUME NEW u, GoesOn(t, u) PROVE u \in InFlight' /\ InFlight \ {t} \subseteq InFlight'
  BY <1>8, GoesOnBag DEF CallInv
<1>9. ASSUME Ended(t) PROVE InFlight \ {t} \subseteq InFlight'
  BY <1>9, EndedBag
<1>10. ASSUME NEW step, NEW steps, GoesOn(t, [t EXCEPT !.step = step]),
              step \in steps \/ t.step \notin steps, Pending(steps)
       PROVE  Pending(steps)'
  <2> DEFINE u == [t EXCEPT !.step = step]
  <2>1. u.step = step
    BY <1>3
  <2>2. u \in InFlight' /\ InFlight \ {t} \subseteq InFlight'
    BY <1>8, <1>10
  <2> HIDE DEF u
  <2> QED  BY <1>10, <2>1, <2>2 DEF Pending
<1>11. ASSUME NEW steps, Ended(t), t.step \notin steps, Pending(steps)
       PROVE  Pending(steps)'
  BY <1>9, <1>11 DEF Pending
<1>12. CASE Timeline(t)
  <2>1. t.step = "timeline"
    BY <1>12 DEF Timeline
  <2>2. CASE t.snap.session # NoSession
    <3>1. /\ \E shownFor \in {t.snap.id, NoCall} : about' = [about EXCEPT !.timeline = shownFor]
          /\ GoesOn(t, [t EXCEPT !.step = "session"])
      BY <1>12, <2>2 DEF Timeline
    <3>2. about' = [about EXCEPT !.timeline = about'.timeline] /\ about'.timeline \in {t.snap.id, NoCall}
      BY <1>5, <3>1
    <3>3. CallMatch /\ CallPanels => CallPanels'
      BY <1>4, <1>5, <1>6, <1>10, <3>1, <3>2 DEF CallPanels
    <3> QED  BY <1>5, <1>7, <3>1, <3>2, <3>3
  <2>3. CASE t.snap.session = NoSession
    <3>1. /\ \E shownFor \in {t.snap.id, NoCall} :
               about' = [about EXCEPT !.timeline = shownFor, !.session = NoSession, !.greeting = NoSession]
          /\ GoesOn(t, [t EXCEPT !.step = "recordings"])
      BY <1>12, <2>3 DEF Timeline
    <3>2. about' = [about EXCEPT !.timeline = about'.timeline, !.session = NoSession, !.greeting = NoSession]
          /\ about'.timeline \in {t.snap.id, NoCall}
      BY <1>5, <3>1
    <3>3. CallMatch /\ CallPanels => CallPanels'
      BY <1>4, <1>5, <1>6, <1>10, <3>1, <3>2 DEF CallPanels
    <3> QED  BY <1>5, <1>7, <3>1, <3>2, <3>3
  <2> QED  BY <2>2, <2>3
<1>13. CASE LinkedSession(t)
  <2>1. /\ t.step = "session" /\ GoesOn(t, [t EXCEPT !.step = "recordings"])
        /\ \E s \in {t.snap.session, NoSession} :
               about' = [about EXCEPT !.session = s, !.greeting = NoSession]
    BY <1>13 DEF LinkedSession
  <2>2. about' = [about EXCEPT !.session = about'.session, !.greeting = NoSession]
        /\ about'.session \in {t.snap.session, NoSession}
    BY <1>5, <2>1
  <2>3. CallMatch /\ CallPanels => CallPanels'
    BY <1>4, <1>5, <1>6, <1>10, <2>1, <2>2 DEF CallPanels
  <2> QED  BY <1>5, <1>7, <2>1, <2>2, <2>3
<1>14. CASE RecordingsListed(t)
  <2>1. t.step = "recordings"
    BY <1>14 DEF RecordingsListed
  <2>2. CASE t.snap.session # NoSession
    <3>1. /\ \E found \in {{t.snap.id}, {}} : about' = [about EXCEPT !.recordings = found]
          /\ GoesOn(t, [t EXCEPT !.step = "observations"])
      BY <1>14, <2>2 DEF RecordingsListed
    <3>2. about' = [about EXCEPT !.recordings = about'.recordings] /\ about'.recordings \subseteq {t.snap.id}
      BY <1>5, <3>1
    <3>3. CallMatch /\ CallPanels => CallPanels'
      BY <1>4, <1>5, <1>6, <1>10, <2>1, <3>1, <3>2 DEF CallPanels
    <3> QED  BY <1>5, <1>7, <3>1, <3>2, <3>3
  <2>3. CASE t.snap.session = NoSession
    <3>1. /\ \E found \in {{t.snap.id}, {}} :
               about' = AfterDetails(t, [[about EXCEPT !.recordings = found]
                                           EXCEPT !.observations = {}, !.sharing = NoSession])
          /\ Ended(t)
      BY <1>14, <2>3 DEF RecordingsListed, Over
    <3>2. PICK found \in {{t.snap.id}, {}} :
               about' = AfterDetails(t, [[about EXCEPT !.recordings = found]
                                           EXCEPT !.observations = {}, !.sharing = NoSession])
      BY <3>1
    <3> DEFINE listed == [[about EXCEPT !.recordings = found] EXCEPT !.observations = {}, !.sharing = NoSession]
    <3>3. listed = [about EXCEPT !.recordings = found, !.observations = {}, !.sharing = NoSession]
      BY <1>5
    <3>4. about' = IF t.kind = "greeting" THEN [listed EXCEPT !.greeting = t.session] ELSE listed
      BY <3>2 DEF AfterDetails
    <3>5. \/ about' = [about EXCEPT !.recordings = found, !.observations = {}, !.sharing = NoSession]
          \/ /\ t.kind = "greeting"
             /\ about' = [about EXCEPT !.recordings = found, !.observations = {}, !.sharing = NoSession,
                                       !.greeting = t.session]
      BY <1>5, <3>3, <3>4
    <3> HIDE DEF listed
    <3>6. CallMatch /\ CallPanels => CallPanels'
      BY <1>4, <1>5, <1>6, <1>11, <2>1, <3>1, <3>2, <3>5 DEF CallPanels
    <3>7. about' = [timeline |-> about'.timeline, session |-> about'.session,
                   greeting |-> about'.greeting, recordings |-> about'.recordings,
                   observations |-> about'.observations, sharing |-> about'.sharing]
      BY <1>5, <3>5
    <3> QED  BY <1>1, <1>7, <3>1, <3>6, <3>7
  <2> QED  BY <2>2, <2>3
<1>15. CASE ObservationsListed(t)
  <2>1. /\ t.step = "observations" /\ GoesOn(t, [t EXCEPT !.step = "sharing"])
        /\ \E found \in {{t.snap.session}, {}} :
               about' = [about EXCEPT !.observations = found, !.sharing = NoSession]
    BY <1>15 DEF ObservationsListed
  <2>2. about' = [about EXCEPT !.observations = about'.observations, !.sharing = NoSession]
        /\ about'.observations \subseteq {t.snap.session}
    BY <1>5, <2>1
  <2>3. CallMatch /\ CallPanels => CallPanels'
    BY <1>4, <1>5, <1>6, <1>10, <2>1, <2>2 DEF CallPanels
  <2> QED  BY <1>5, <1>7, <2>1, <2>2, <2>3
<1>16. CASE SharingKnown(t)
  <2>1. /\ t.step = "sharing" /\ Ended(t)
        /\ \E s \in {t.snap.session, NoSession} : about' = AfterDetails(t, [about EXCEPT !.sharing = s])
    BY <1>16 DEF SharingKnown, Over
  <2>2. PICK s \in {t.snap.session, NoSession} :
             \/ about' = [about EXCEPT !.sharing = s]
             \/ /\ t.kind = "greeting"
                /\ about' = [about EXCEPT !.sharing = s, !.greeting = t.session]
    BY <1>5, <2>1 DEF AfterDetails
  <2>3. CallMatch /\ CallPanels => CallPanels'
    BY <1>4, <1>5, <1>6, <1>11, <2>1, <2>2 DEF CallPanels
  <2>4. about' = [timeline |-> about'.timeline, session |-> about'.session,
                   greeting |-> about'.greeting, recordings |-> about'.recordings,
                   observations |-> about'.observations, sharing |-> about'.sharing]
    BY <1>5, <2>2
  <2> QED  BY <1>1, <1>7, <2>1, <2>3, <2>4
<1> QED  BY <1>12, <1>13, <1>14, <1>15, <1>16 DEF Details

\* handleStatusTransition is answered.
LEMMA ControlledStep ==
  ASSUME IsABag(tasks), CallInv, NEW t \in InFlight, Controlled(t)
  PROVE  IsABag(tasks)' /\ CallInv'
<1> DEFINE c == t.snap.id
           to == Resulting[IntentOf(t.key, t.snap.status)]
           done == <<callRows[c].status, to>> \in CallTransitions
           snap == IF done THEN [Copy(c, callRows[c]) EXCEPT !.status = to] ELSE t.snap
           u == FetchDetails(t, snap)
           rest == tasks (-) One(t)
<1>1. /\ t.kind = "control"
      /\ callRows' = IF done THEN [callRows EXCEPT ![c].status = to] ELSE callRows
      /\ Shows(snap, rest)
      /\ recent' = [x \in DOMAIN recent |->
                        IF x = c THEN [status |-> snap.status, session |-> snap.session]
                        ELSE recent[x]]
      /\ GoesOn(t, u)
      /\ about' = about
  BY DEF Controlled
<1>2. /\ t.snap \in Snapshot /\ c \in DOMAIN callRows /\ callRows \in [DOMAIN callRows -> CallRow]
      /\ t = CallTask(t.kind, t.step, t.snap, t.session, t.key) /\ DOMAIN callRows \subseteq Calls
      /\ recent \in [DOMAIN recent -> CallRow] /\ DOMAIN recent \subseteq DOMAIN callRows
  BY <1>1 DEF CallInv, CallShape, CallTaskOK
<1>3. to \in Statuses
  <2>1. IntentOf(t.key, t.snap.status) \in {"resume", "answer", "hold", "end"}
    BY DEF IntentOf
  <2> QED  BY <2>1 DEF Resulting, Statuses
<1> HIDE DEF to
<1>4. callRows[c] \in CallRow
  BY <1>2
<1>5. snap \in Snapshot /\ snap.id = c
  BY <1>2, <1>3, <1>4 DEF Snapshot, CallRow, Copy
<1>6. DOMAIN callRows' = DOMAIN callRows /\ callRows' \in [DOMAIN callRows -> CallRow]
  <2>1. CASE done
    <3>1. callRows' = [callRows EXCEPT ![c] = [callRows[c] EXCEPT !.status = to]]
      BY <1>1, <2>1
    <3>2. [callRows[c] EXCEPT !.status = to] \in CallRow
      BY <1>3, <1>4 DEF CallRow
    <3> QED  BY <1>2, <3>1, <3>2
  <2>2. CASE ~done
    BY <1>1, <1>2, <2>2
  <2> QED  BY <2>1, <2>2
<1> HIDE DEF snap, done
<1>7. DOMAIN recent' \subseteq DOMAIN callRows /\ recent' \in [DOMAIN recent' -> CallRow]
  <2>1. [status |-> snap.status, session |-> snap.session] \in CallRow
    BY <1>5 DEF Snapshot, CallRow
  <2> QED  BY <1>1, <1>2, <2>1
<1>8. u = CallTask("control", "timeline", snap, t.session, t.key)
  <2>1. t = CallTask("control", t.step, t.snap, t.session, t.key)
    BY <1>1, <1>2
  <2> HIDE DEF CallTask
  <2>2. ASSUME NEW x PROVE [t EXCEPT !.step = "timeline", !.snap = x]
                             = CallTask("control", "timeline", x, t.session, t.key)
    BY <2>1, CallTaskExcept
  <2> QED  BY <2>2 DEF FetchDetails
<1>9. IsABag(rest) /\ BagToSet(rest) \subseteq InFlight /\ tasks' = rest (+) One(u)
  BY <1>1, OneBag, BagTake DEF InFlight, GoesOn
<1> HIDE DEF u, rest, c
<1>10. /\ u.step = "timeline" /\ u.kind = "control"
       /\ u = CallTask(u.kind, "timeline", snap, u.session, u.key)
  BY <1>8
<1> QED  BY <1>1, <1>2, <1>5, <1>6, <1>7, <1>9, <1>10, ShowsStep

\* The list arrives; after a webhook its call is selected.
LEMMA CallsListedStep ==
  ASSUME IsABag(tasks), CallInv, NEW t \in InFlight, CallsListed(t)
  PROVE  IsABag(tasks)' /\ CallInv'
<1>1. /\ DOMAIN recent' \subseteq DOMAIN callRows /\ recent' \in [DOMAIN recent' -> CallRow]
      /\ callRows \in [DOMAIN callRows -> CallRow]
      /\ UNCHANGED <<callRows, about>>
  BY DEF CallsListed, CallInv, CallShape
<1>2. CASE t.kind = "calls"
  <2>1. Ended(t) /\ UNCHANGED <<call, crossed>>
    BY <1>2 DEF CallsListed
  <2>2. IsABag(tasks') /\ InFlight' \subseteq InFlight /\ InFlight \ {t} \subseteq InFlight'
    BY <2>1, EndedBag
  <2>3. CallShape'
    BY <1>1, <2>1, <2>2 DEF CallInv, CallShape, CallTaskOK
  <2>4. t.step = "asked"
    BY <1>2 DEF CallInv, CallShape, CallTaskOK, OneAnswer
  <2>5. ASSUME NEW steps, "asked" \notin steps, Pending(steps) PROVE Pending(steps)'
    BY <2>2, <2>4, <2>5 DEF Pending
  <2>6. CallMatch => CallMatch'
    BY <2>1, <2>2 DEF CallMatch
  <2>7. CallPanels => CallPanels'
    BY <1>1, <2>1, <2>5 DEF CallPanels
  <2> QED  BY <2>1, <2>2, <2>3, <2>6, <2>7 DEF CallInv
<1>3. CASE t.kind # "calls"
  <2> DEFINE u == [t EXCEPT !.step = "timeline"]
             rest == tasks (-) One(t)
  <2>1. t.kind = "webhook" /\ t.snap \in Snapshot /\ t.snap.id \in DOMAIN callRows
        /\ t = CallTask(t.kind, t.step, t.snap, t.session, t.key)
    BY <1>3 DEF CallsListed, CallInv, CallShape, CallTaskOK
  <2>2. Shows(t.snap, rest) /\ GoesOn(t, u)
    BY <1>3 DEF CallsListed
  <2>3. IsABag(rest) /\ BagToSet(rest) \subseteq InFlight /\ tasks' = rest (+) One(u)
    BY <2>2, OneBag, BagTake DEF InFlight, GoesOn
  <2>4. u = CallTask("webhook", "timeline", t.snap, t.session, t.key)
    BY <2>1
  <2> HIDE DEF u, rest
  <2>5. /\ u.step = "timeline" /\ u.kind = "webhook"
        /\ u = CallTask(u.kind, "timeline", t.snap, u.session, u.key)
    BY <2>4
  <2> QED  BY <1>1, <2>1, <2>2, <2>3, <2>5, ShowsStep
<1> QED  BY <1>2, <1>3

LEMMA CallsStep ==
  ASSUME IsABag(tasks), CallInv, CallsNext
  PROVE  IsABag(tasks)' /\ CallInv'
<1>0. /\ callRows \in [DOMAIN callRows -> CallRow] /\ DOMAIN callRows \subseteq Calls
      /\ recent \in [DOMAIN recent -> CallRow] /\ DOMAIN recent \subseteq DOMAIN callRows
      /\ about = [timeline |-> about.timeline, session |-> about.session, greeting |-> about.greeting,
              recordings |-> about.recordings, observations |-> about.observations,
              sharing |-> about.sharing]
      /\ \A t \in InFlight : CallTaskOK(t)
  BY DEF CallInv, CallShape
<1>1. ASSUME NEW c \in Calls, SelectCall(c) PROVE IsABag(tasks)' /\ CallInv'
  <2> DEFINE snap == Copy(c, recent[c])
             u == CallTask("select", "timeline", snap, NoSession, "none")
  <2>1. /\ c \in DOMAIN recent /\ Shows(snap, tasks) /\ tasks' = tasks (+) One(u)
        /\ UNCHANGED <<callRows, recent, about>>
    BY <1>1 DEF SelectCall, Waits
  <2>2. snap \in Snapshot /\ snap.id = c
    <3>1. recent[c] \in CallRow
      BY <1>0, <2>1
    <3> QED  BY <3>1 DEF Copy, CallRow, Snapshot
  <2>3. BagToSet(tasks) \subseteq InFlight
    BY DEF InFlight
  <2> HIDE DEF snap
  <2>4. u.step = "timeline" /\ u.kind = "select" /\ u = CallTask(u.kind, "timeline", snap, u.session, u.key)
    OBVIOUS
  <2> HIDE DEF u
  <2> QED  BY <1>0, <2>1, <2>2, <2>3, <2>4, ShowsStep
<1>2. ASSUME NEW c \in Calls, Elsewhere(c) PROVE IsABag(tasks)' /\ CallInv'
  <2>1. c \in DOMAIN callRows /\ UNCHANGED <<recent, call, about, tasks, crossed>>
    BY <1>2 DEF Elsewhere
  <2>2. callRows' \in [DOMAIN callRows -> CallRow]
    <3>1. callRows[c] \in CallRow
      BY <1>0, <2>1
    <3>2. CASE callRows' = [callRows EXCEPT ![c].status = "answered"]
      <4>1. callRows' = [callRows EXCEPT ![c] = [callRows[c] EXCEPT !.status = "answered"]]
        BY <3>2
      <4>2. [callRows[c] EXCEPT !.status = "answered"] \in CallRow
        BY <3>1 DEF CallRow, Statuses
      <4> QED  BY <1>0, <4>1, <4>2
    <3>3. ASSUME NEW s \in Sessions, callRows' = [callRows EXCEPT ![c] = [status |-> "answered", session |-> s]]
          PROVE  callRows' \in [DOMAIN callRows -> CallRow]
      <4>1. [status |-> "answered", session |-> s] \in CallRow
        BY DEF CallRow, Statuses
      <4> QED  BY <1>0, <3>3, <4>1
    <3> QED  BY <1>2, <3>2, <3>3 DEF Elsewhere
  <2>3. InFlight' = InFlight
    BY <2>1 DEF InFlight
  <2>4. CallShape'
    BY <2>1, <2>2, <2>3 DEF CallInv, CallShape, CallTaskOK
  <2>5. (CallMatch => CallMatch') /\ (CallPanels => CallPanels')
    BY <2>1, <2>3 DEF CallMatch, CallPanels, Pending
  <2> QED  BY <2>1, <2>4, <2>5 DEF CallInv
<1>3. ASSUME NEW key \in Statuses, Control(key) PROVE IsABag(tasks)' /\ CallInv'
  <2>1. Press("control", NoSession, key) /\ crossed' = crossed
    BY <1>3 DEF Control
  <2> QED  BY <2>1, PressStep DEF AboutKinds
<1>4. CASE Bridge
  <2>1. PICK kind \in {"bridge", "webhook"} : Press(kind, NoSession, "none")
    BY <1>4 DEF Bridge
  <2>2. crossed' = crossed
    BY <1>4 DEF Bridge
  <2> QED  BY <2>1, <2>2, PressStep DEF AboutKinds
<1>5. CASE Recordings
  <2>1. PICK kind \in {"attach", "recording"} : Press(kind, NoSession, "none")
    BY <1>5 DEF Recordings
  <2>2. crossed' = crossed
    BY <1>5 DEF Recordings
  <2> QED  BY <2>1, <2>2, PressStep DEF AboutKinds
<1>6. CASE Greeting \/ Sharing \/ Capture \/ Observation
  BY <1>6, AboutSessionStep DEF Greeting, Sharing, Capture, Observation, AboutKinds
<1>7. ASSUME NEW t \in InFlight, Details(t) PROVE IsABag(tasks)' /\ CallInv'
  BY <1>7, DetailsStep
<1>8. ASSUME NEW t \in InFlight, Controlled(t) PROVE IsABag(tasks)' /\ CallInv'
  BY <1>8, ControlledStep
<1>9. ASSUME NEW t \in InFlight, CallsListed(t) PROVE IsABag(tasks)' /\ CallInv'
  BY <1>9, CallsListedStep
<1>10. ASSUME NEW t \in InFlight, WebhookTaken(t) PROVE IsABag(tasks)' /\ CallInv'
  <2>1. t.kind = "webhook" /\ t.step = "asked" /\ UNCHANGED <<recent, call, about, crossed>>
    BY <1>10 DEF WebhookTaken
  <2> DEFINE row == [status |-> "ringing", session |-> NoSession]
  <2>2. PICK c \in Calls \ DOMAIN callRows :
             /\ callRows' = [x \in DOMAIN callRows \cup {c} |-> IF x = c THEN row ELSE callRows[x]]
             /\ GoesOn(t, [t EXCEPT !.step = "listing", !.snap = Copy(c, row)])
    BY <1>10 DEF WebhookTaken
  <2> DEFINE u == [t EXCEPT !.step = "listing", !.snap = Copy(c, row)]
  <2>3. t = CallTask(t.kind, t.step, t.snap, t.session, t.key)
    BY <1>0 DEF CallTaskOK
  <2>4. u = CallTask(t.kind, "listing", Copy(c, row), t.session, t.key)
    <3> HIDE DEF CallTask
    <3>1. ASSUME NEW x PROVE [t EXCEPT !.step = "listing", !.snap = x]
                               = CallTask(t.kind, "listing", x, t.session, t.key)
      BY <2>3, CallTaskExcept
    <3> QED  BY <3>1
  <2>5. row \in CallRow /\ Copy(c, row) \in Snapshot /\ Copy(c, row).id = c
    BY DEF CallRow, Statuses, Copy, Snapshot
  <2>6. /\ callRows' \in [DOMAIN callRows' -> CallRow]
        /\ DOMAIN callRows' = DOMAIN callRows \cup {c}
    BY <1>0, <2>2, <2>5
  <2> HIDE DEF row
  <2>7. GoesOn(t, u)
    BY <2>2
  <2> HIDE DEF u
  <2>8. /\ u = CallTask(t.kind, u.step, u.snap, t.session, t.key)
        /\ u.step = "listing" /\ u.snap \in Snapshot /\ u.snap.id = c
    BY <2>4, <2>5
  <2>9. ASSUME CallPanels PROVE CallPanels'
    <3>1. InFlight \ {t} \subseteq InFlight'
      BY <2>7, GoesOnBag
    <3>2. ASSUME NEW steps, "asked" \notin steps, Pending(steps) PROVE Pending(steps)'
      BY <2>1, <3>1, <3>2 DEF Pending
    <3> QED  BY <2>1, <2>9, <3>2 DEF CallPanels
  <2>10. t.kind \notin OneAnswer /\ t.kind # "calls"
    BY <2>1 DEF OneAnswer
  <2> QED  BY <1>0, <2>1, <2>6, <2>7, <2>8, <2>9, <2>10, StayStep
<1>11. ASSUME NEW t \in InFlight, DetailsNext(t) PROVE IsABag(tasks)' /\ CallInv'
  <2> DEFINE u == FetchDetails(t, t.snap)
  <2>1. t.kind \in {"greeting", "attach"} /\ t.step = "asked" /\ GoesOn(t, u)
        /\ UNCHANGED <<callRows, recent, call, crossed>>
    BY <1>11 DEF DetailsNext
  <2>2. t = CallTask(t.kind, t.step, t.snap, t.session, t.key) /\ t.snap \in Snapshot /\ t.snap.id \in DOMAIN callRows
    BY <1>0, <2>1 DEF CallTaskOK
  <2>3. u = CallTask(t.kind, "timeline", t.snap, t.session, t.key)
    <3> HIDE DEF CallTask
    <3>1. ASSUME NEW x PROVE [t EXCEPT !.step = "timeline", !.snap = x]
                               = CallTask(t.kind, "timeline", x, t.session, t.key)
      BY <2>2, CallTaskExcept
    <3> QED  BY <3>1 DEF FetchDetails
  <2> HIDE DEF u
  <2>4. about' = [timeline |-> about'.timeline, session |-> about'.session,
                   greeting |-> about'.greeting, recordings |-> about'.recordings,
                   observations |-> about'.observations, sharing |-> about'.sharing]
    <3>1. about' = about \/ about' = [about EXCEPT !.recordings = @ \cup {t.snap.id}]
      BY <1>11 DEF DetailsNext
    <3> QED  BY <1>0, <3>1
  <2>5. CallPanels'
    <3>1. u \in InFlight' /\ u.step = "timeline"
      BY <2>1, <2>3, GoesOnBag
    <3> QED  BY <3>1 DEF CallPanels, Pending
  <2>6. t.kind \notin OneAnswer /\ t.kind # "calls"
    BY <2>1 DEF OneAnswer
  <2>7. u = CallTask(t.kind, u.step, u.snap, t.session, t.key) /\ u.step = "timeline" /\ u.snap = t.snap
    BY <2>3
  <2> QED  BY <1>0, <2>1, <2>2, <2>4, <2>5, <2>6, <2>7, StayStep
<1>12. ASSUME NEW t \in InFlight, t.kind # "calls", t.step = "asked", Ended(t),
              UNCHANGED <<callRows, recent, call, crossed>>,
              \/ about' = about
              \/ t.kind = "capture" /\ about' = [about EXCEPT !.observations = @ \cup {t.session}]
              \/ t.kind = "sharing" /\ about' = [about EXCEPT !.sharing = t.session]
       PROVE  IsABag(tasks)' /\ CallInv'
  <2>1. t = CallTask(t.kind, t.step, t.snap, t.session, t.key) /\ t.snap \in Snapshot /\ t.snap.id \in DOMAIN callRows
    BY <1>0, <1>12 DEF CallTaskOK
  <2>2. about' = [timeline |-> about'.timeline, session |-> about'.session,
                   greeting |-> about'.greeting, recordings |-> about'.recordings,
                   observations |-> about'.observations, sharing |-> about'.sharing]
    BY <1>0, <1>12
  <2>3. ASSUME CallMatch, CallPanels PROVE CallPanels'
    <3>1. InFlight \ {t} \subseteq InFlight'
      BY <1>12, EndedBag
    <3>2. ASSUME NEW steps, "asked" \notin steps, Pending(steps) PROVE Pending(steps)'
      BY <1>12, <3>1, <3>2 DEF Pending
    <3>3. t.kind \in AboutKinds => t.session = call.session
      BY <1>12, <2>3 DEF CallMatch
    <3>4. /\ about'.timeline = about.timeline /\ about'.session = about.session
          /\ about'.greeting = about.greeting /\ about'.recordings = about.recordings
          /\ about'.observations = about.observations \/ about'.observations = about.observations \cup {call.session}
          /\ about'.sharing \in {about.sharing, call.session}
      BY <1>0, <1>12, <3>3 DEF AboutKinds
    <3> QED  BY <1>12, <2>3, <3>2, <3>4 DEF CallPanels
  <2> QED  BY <1>0, <1>12, <2>1, <2>2, <2>3, StayStep
<1>13. ASSUME NEW t \in InFlight, Captured(t) \/ Done(t) \/ Refused(t) PROVE IsABag(tasks)' /\ CallInv'
  <2>1. t.kind # "calls" /\ t.step = "asked"
    BY <1>0, <1>13 DEF Captured, Done, Refused, CallTaskOK, OneAnswer
  <2>2. Ended(t) /\ UNCHANGED <<callRows, recent, call, crossed>>
    BY <1>13 DEF Captured, Done, Refused, Over
  <2>3. \/ about' = about
        \/ t.kind = "capture" /\ about' = [about EXCEPT !.observations = @ \cup {t.session}]
        \/ t.kind = "sharing" /\ about' = [about EXCEPT !.sharing = t.session]
    BY <1>13 DEF Captured, Done, Refused
  <2> QED  BY <1>12, <2>1, <2>2, <2>3
<1> QED
  BY <1>1, <1>2, <1>3, <1>4, <1>5, <1>6, <1>7, <1>8, <1>9, <1>10, <1>11, <1>13 DEF CallsNext

\* When no details are under way, the panels are about the call selected.
LEMMA PanelsOfCallHold == CallInv => PanelsOfCall
BY DEF CallInv, CallShape, CallPanels, Pending, PanelsOfCall, DetailsUnderWay

-----------------------------------------------------------------------------
(* The device console *)

\* Until selections cross, everything under way is for the device selected, and
\* before one is selected only the first lists are; its details are shown when
\* nothing is under way.
DeviceInv ==
  /\ devices \subseteq Devices /\ enrolled \subseteq Devices
  /\ \A t \in InFlight : t = DeviceTask(t.kind, t.step, t.target, t.closure)
  /\ ~crossed =>
       /\ selectedId = picked
       /\ detail = selectedId \/ failed \/ InFlight # {}
       /\ selectedId = NoDevice => \A t \in InFlight : t = Refresh(NoDevice, NoDevice) /\ tasks[t] = 1
       /\ selectedId # NoDevice =>
            \A t \in InFlight :
              t.target = selectedId \/ (t.target = NoDevice /\ t.closure = selectedId)
       /\ \A t \in InFlight : t.step = "detail" => t.target = selectedId

LEMMA EmptyNothing == BagToSet(EmptyBag) = {}
BY DEF EmptyBag, SetToBag, BagToSet

LEMMA SelectsBag ==
  ASSUME NEW d, NEW waiting, IsABag(waiting), Selects(d, waiting)
  PROVE  /\ IsABag(tasks') /\ selectedId' = d
         /\ InFlight' = BagToSet(waiting) \cup {x \in {Refresh(NoDevice, d)} : selectedId # d}
<1> DEFINE A == {Refresh(NoDevice, d) : x \in {selectedId} \ {d}}
<1>1. tasks' = waiting (+) SetToBag(A) /\ selectedId' = d
  BY DEF Selects
<1>2. A = {x \in {Refresh(NoDevice, d)} : selectedId # d}
  OBVIOUS
<1> HIDE DEF A
<1>3. IsABag(SetToBag(A)) /\ BagToSet(SetToBag(A)) = A
  BY BagSet
<1>4. IsABag(tasks') /\ BagToSet(tasks') = BagToSet(waiting) \cup A
  BY <1>1, <1>3, BagAdd
<1> QED  BY <1>1, <1>2, <1>4 DEF InFlight

LEMMA DevicesStep ==
  ASSUME IsABag(tasks), DeviceInv, DevicesNext
  PROVE  IsABag(tasks)' /\ DeviceInv'
<1> USE DEF DeviceTask, Refresh
<1>1. ASSUME NEW d \in Devices, OpenDevice(d) PROVE IsABag(tasks)' /\ DeviceInv'
  <2> DEFINE u == DeviceTask("open", "detail", d, selectedId)
             w == tasks (+) One(u)
  <2>1. /\ Selects(d, w) /\ picked' = d /\ crossed' = (crossed \/ (d # selectedId /\ tasks # EmptyBag))
        /\ UNCHANGED <<enrolled, devices, detail, failed>>
    BY <1>1 DEF OpenDevice
  <2>2. IsABag(w) /\ BagToSet(w) = InFlight \cup {u}
    BY OneBag, BagAdd DEF InFlight
  <2> HIDE DEF w
  <2>3. /\ IsABag(tasks') /\ selectedId' = d
        /\ InFlight' = InFlight \cup {u} \cup {x \in {Refresh(NoDevice, d)} : selectedId # d}
    BY <2>1, <2>2, SelectsBag
  <2>4. \A t \in InFlight' : t = DeviceTask(t.kind, t.step, t.target, t.closure)
    BY <2>3 DEF DeviceInv
  <2>5. d # NoDevice
    BY DeviceAssumption
  <2>6. ASSUME ~crossed'
        PROVE  \A t \in InFlight' : /\ t.target = d \/ (t.target = NoDevice /\ t.closure = d)
                                    /\ t.step = "detail" => t.target = d
    <3>1. ~crossed /\ (d = selectedId \/ tasks = EmptyBag)
      BY <2>1, <2>6
    <3>2. CASE d = selectedId
      BY <2>3, <2>5, <3>1, <3>2 DEF DeviceInv
    <3>3. CASE tasks = EmptyBag
      <4>1. InFlight = {}
        BY <3>3, EmptyNothing DEF InFlight
      <4> QED  BY <2>3, <4>1
    <3> QED  BY <3>1, <3>2, <3>3
  <2> QED  BY <2>1, <2>3, <2>4, <2>5, <2>6 DEF DeviceInv
<1>2. ASSUME NEW d \in Devices, Enroll(d) PROVE IsABag(tasks)' /\ DeviceInv'
  BY <1>2 DEF Enroll, DeviceInv, InFlight
<1>3. CASE PressRefresh
  <2> DEFINE u == Refresh(NoDevice, selectedId)
  <2>1. /\ Waits(u) /\ crossed' = (crossed \/ (selectedId = NoDevice /\ tasks # EmptyBag))
        /\ UNCHANGED <<enrolled, devices, selectedId, detail, picked, failed>>
    BY <1>3 DEF PressRefresh
  <2>2. /\ IsABag(tasks')
        /\ InFlight' = InFlight \cup {u}
        /\ u \notin InFlight => tasks'[u] = 1
    BY <2>1, WaitsBag
  <2>3. \A t \in InFlight' : t = DeviceTask(t.kind, t.step, t.target, t.closure)
    BY <2>2 DEF DeviceInv
  <2>4. CASE selectedId # NoDevice
    <3>1. ~crossed' => ~crossed
      BY <2>1
    <3> QED  BY <2>1, <2>2, <2>3, <2>4, <3>1 DEF DeviceInv
  <2>5. CASE selectedId = NoDevice
    <3>1. ~crossed' => ~crossed /\ tasks = EmptyBag
      BY <2>1, <2>5
    <3>2. tasks = EmptyBag => InFlight = {}
      BY EmptyNothing DEF InFlight
    <3> QED  BY <2>1, <2>2, <2>3, <2>5, <3>1, <3>2 DEF DeviceInv
  <2> QED  BY <2>4, <2>5
<1>4. CASE InvokeTool
  <2> DEFINE u == DeviceTask("invoke", "asked", SelectedDevice, selectedId)
  <2>1. /\ Waits(u) /\ crossed' = (crossed \/ SelectedDevice # selectedId) /\ SelectedDevice # NoDevice
        /\ UNCHANGED <<enrolled, devices, selectedId, detail, picked, failed>>
    BY <1>4 DEF InvokeTool
  <2>2. IsABag(tasks') /\ InFlight' = InFlight \cup {u}
    BY <2>1, WaitsBag
  <2>3. \A t \in InFlight' : t = DeviceTask(t.kind, t.step, t.target, t.closure)
    BY <2>2 DEF DeviceInv
  <2>4. ~crossed' => ~crossed /\ SelectedDevice = selectedId
    BY <2>1
  <2> QED  BY <2>1, <2>2, <2>3, <2>4 DEF DeviceInv
<1>5. ASSUME NEW t \in InFlight, Invoked(t) PROVE IsABag(tasks)' /\ DeviceInv'
  <2> DEFINE u == [t EXCEPT !.step = "lists"]
  <2>1. /\ t.step = "asked" /\ GoesOn(t, u)
        /\ UNCHANGED <<enrolled, devices, selectedId, detail, picked, failed, crossed>>
    BY <1>5 DEF Invoked
  <2>2. u = DeviceTask(t.kind, "lists", t.target, t.closure)
    BY DEF DeviceInv
  <2> HIDE DEF u
  <2>3. IsABag(tasks') /\ InFlight' \subseteq InFlight \cup {u} /\ u \in InFlight'
    BY <2>1, GoesOnBag
  <2>4. \A x \in InFlight' : x = DeviceTask(x.kind, x.step, x.target, x.closure)
    BY <2>2, <2>3 DEF DeviceInv
  <2>5. ~crossed => selectedId # NoDevice
    BY <2>1 DEF DeviceInv
  <2> QED  BY <2>1, <2>2, <2>3, <2>4, <2>5 DEF DeviceInv
<1>6. ASSUME NEW t \in InFlight, ListsArrive(t) PROVE IsABag(tasks)' /\ DeviceInv'
  <2>1. /\ t.step = "lists" /\ devices' = enrolled /\ UNCHANGED <<enrolled, failed, crossed>>
    BY <1>6 DEF ListsArrive
  <2>2. ~crossed /\ selectedId = NoDevice => /\ t = Refresh(NoDevice, NoDevice) /\ tasks[t] = 1
                                             /\ InFlight = {t}
    BY DEF DeviceInv
  <2>3. ~crossed /\ selectedId # NoDevice => TargetOf(t) = {selectedId}
    BY DEF DeviceInv, TargetOf
  <2>4. CASE TargetOf(t) = {}
    <3>1. detail' = NoDevice /\ Ended(t) /\ UNCHANGED <<selectedId, picked>>
      BY <1>6, <2>4 DEF ListsArrive
    <3>2. /\ IsABag(tasks')
          /\ InFlight' \subseteq InFlight
          /\ tasks[t] = 1 => t \notin InFlight'
      BY <3>1, EndedBag
    <3>3. ~crossed => selectedId = NoDevice /\ InFlight' = {}
      BY <2>2, <2>3, <2>4, <3>2
    <3>4. \A x \in InFlight' : x = DeviceTask(x.kind, x.step, x.target, x.closure)
      BY <3>2 DEF DeviceInv
    <3> QED  BY <2>1, <3>1, <3>2, <3>3, <3>4 DEF DeviceInv
  <2>5. CASE TargetOf(t) # {}
    <3>1. PICK d \in TargetOf(t) :
               /\ Selects(d, (tasks (-) One(t)) (+) One([t EXCEPT !.step = "detail", !.target = d]))
               /\ picked' = IF picked = NoDevice THEN d ELSE picked
      BY <1>6, <2>5 DEF ListsArrive
    <3>2. detail' = detail
      BY <1>6, <2>5 DEF ListsArrive
    <3> DEFINE u == [t EXCEPT !.step = "detail", !.target = d]
               rest == tasks (-) One(t)
               w == rest (+) One(u)
    <3>3. u = DeviceTask(t.kind, "detail", d, t.closure)
      <4> DEFINE r == [t EXCEPT !.step = "detail"]
      <4>1. r = DeviceTask(t.kind, "detail", t.target, t.closure)
        BY DEF DeviceInv
      <4>2. u = [r EXCEPT !.target = d]
        OBVIOUS
      <4> HIDE DEF r, u
      <4> QED  BY <4>1, <4>2
    <3>4. Selects(d, w)
      BY <3>1
    <3> HIDE DEF u
    <3>5. /\ IsABag(rest) /\ BagToSet(rest) \subseteq InFlight
          /\ tasks[t] = 1 => t \notin BagToSet(rest)
      BY OneBag, BagTake DEF InFlight
    <3>6. IsABag(w) /\ BagToSet(w) = BagToSet(rest) \cup {u}
      BY <3>5, OneBag, BagAdd
    <3> HIDE DEF w, rest
    <3>7. /\ IsABag(tasks') /\ selectedId' = d
          /\ InFlight' = BagToSet(rest) \cup {u} \cup {x \in {Refresh(NoDevice, d)} : selectedId # d}
      BY <3>4, <3>6, SelectsBag
    <3>8. \A x \in InFlight' : x = DeviceTask(x.kind, x.step, x.target, x.closure)
      BY <3>3, <3>5, <3>7 DEF DeviceInv
    <3>9. ASSUME ~crossed'
          PROVE  /\ d = picked' /\ d # NoDevice
                 /\ \A x \in InFlight' : /\ x.target = d \/ (x.target = NoDevice /\ x.closure = d)
                                         /\ x.step = "detail" => x.target = d
      <4>1. ~crossed
        BY <2>1, <3>9
      <4>2. CASE selectedId = NoDevice
        <5>1. d \in enrolled /\ BagToSet(rest) = {}
          BY <2>2, <3>1, <3>5, <4>1, <4>2 DEF TargetOf
        <5>2. d # NoDevice /\ picked = NoDevice
          BY <4>1, <4>2, <5>1, DeviceAssumption DEF DeviceInv
        <5> QED  BY <3>1, <3>3, <3>7, <5>1, <5>2
      <4>3. CASE selectedId # NoDevice
        <5>1. d = selectedId /\ picked = selectedId
          BY <2>3, <3>1, <4>1, <4>3 DEF DeviceInv
        <5>2. InFlight' \subseteq InFlight \cup {u}
          BY <3>5, <3>7, <5>1
        <5> QED  BY <3>1, <3>3, <4>1, <4>3, <5>1, <5>2 DEF DeviceInv
      <4> QED  BY <4>2, <4>3
    <3>10. InFlight' # {}
      BY <3>7
    <3> QED  BY <2>1, <3>7, <3>8, <3>9, <3>10 DEF DeviceInv
  <2> QED  BY <2>4, <2>5
<1>7. ASSUME NEW t \in InFlight, DetailArrives(t) PROVE IsABag(tasks)' /\ DeviceInv'
  <2>1. /\ t.step = "detail" /\ detail' = t.target /\ Ended(t)
        /\ UNCHANGED <<enrolled, devices, selectedId, picked, failed, crossed>>
    BY <1>7 DEF DetailArrives
  <2>2. IsABag(tasks') /\ InFlight' \subseteq InFlight
    BY <2>1, EndedBag
  <2>3. ~crossed => selectedId # NoDevice /\ detail' = selectedId
    BY <2>1 DEF DeviceInv
  <2> QED  BY <2>1, <2>2, <2>3 DEF DeviceInv
<1>8. ASSUME NEW t \in InFlight, DeviceRequestFails(t) PROVE IsABag(tasks)' /\ DeviceInv'
  <2>1. /\ failed' = TRUE /\ Ended(t)
        /\ UNCHANGED <<enrolled, devices, selectedId, detail, picked, crossed>>
    BY <1>8 DEF DeviceRequestFails
  <2>2. /\ IsABag(tasks') /\ InFlight' \subseteq InFlight
        /\ tasks[t] = 1 => t \notin InFlight'
    BY <2>1, EndedBag
  <2>3. ~crossed /\ selectedId = NoDevice => InFlight' = {}
    BY <2>2 DEF DeviceInv
  <2> QED  BY <2>1, <2>2, <2>3 DEF DeviceInv
<1> QED  BY <1>1, <1>2, <1>3, <1>4, <1>5, <1>6, <1>7, <1>8 DEF DevicesNext

\* When nothing is under way and nothing failed, the details are of the device selected.
LEMMA DetailOfDeviceHolds == DeviceInv => DetailOfDevice
BY EmptyNothing DEF DeviceInv, DetailOfDevice, InFlight

-----------------------------------------------------------------------------
(* The policy panels *)

\* Handlers of the editor; the handlers that change the policy chosen are of
\* the delivery panel.
EditorKinds == {"all", "edit"}

PolicyShape(t) == t = PolicyTask(t.kind, t.step, t.id, t.left, t.data)

\* The first listing begins without a policy chosen.
FirstListing(t) == t.kind = "policies" /\ t.id = {}

PolicyTasks ==
  \A t \in InFlight : /\ PolicyShape(t)
                      /\ t.kind = "switch" => DOMAIN t.data = t.id /\ \E d : t.id = {d}

\* A check runs once at a time.
ChecksOnce ==
  \A t \in InFlight : t.kind \in Checks =>
    /\ t.kind \in checking /\ tasks[t] = 1
    /\ \A u \in InFlight : u.kind = t.kind => u = t

\* Until the first listing ends there is nothing to choose or to switch.
FirstAlone ==
  \A t \in InFlight : FirstListing(t) =>
    /\ tasks[t] = 1 /\ chips = << >> /\ chosen = << >>
    /\ \A u \in InFlight : u.kind # "switch" /\ (u.kind = "policies" => u = t)

ForChosen ==
  /\ \E d : DOMAIN chosen \subseteq {d}
  /\ ~crossed =>
       /\ \A c \in Checks : checks[c] \subseteq DOMAIN chosen
       /\ \A t \in InFlight : t.kind \in Checks => t.id \subseteq DOMAIN chosen
       /\ \A t \in InFlight : t.kind = "switch" => t.id = DOMAIN chosen

CheckInv == DOMAIN checks = Checks /\ PolicyTasks /\ ChecksOnce /\ FirstAlone /\ ForChosen

USE DEF PolicyTask

LEMMA PolicyExcept ==
  ASSUME NEW t, PolicyShape(t), NEW step, NEW data
  PROVE  [t EXCEPT !.step = step, !.data = data] = PolicyTask(t.kind, step, t.id, t.left, data)
<1> DEFINE r == [t EXCEPT !.step = step]
<1>1. r = PolicyTask(t.kind, step, t.id, t.left, t.data)
  BY DEF PolicyShape
<1>2. [t EXCEPT !.step = step, !.data = data] = [r EXCEPT !.data = data]
  OBVIOUS
<1> HIDE DEF r
<1>3. [r EXCEPT !.data = data] = PolicyTask(t.kind, step, t.id, t.left, data)
  BY <1>1
<1> QED  BY <1>2, <1>3

LEMMA NextTabKind ==
  ASSUME NEW t, PolicyShape(t), t.kind = "all"
  PROVE  /\ IsABag(NextTab(t))
         /\ \A x \in BagToSet(NextTab(t)) : x.kind = "all" /\ PolicyShape(x)
<1> DEFINE left == Tail(t.left)
           x == [t EXCEPT !.step = "asked", !.left = left, !.data = << >>]
<1>1. NextTab(t) = EmptyBag \/ NextTab(t) = One(x)
  BY DEF NextTab
<1> HIDE DEF left
<1>2. x = PolicyTask(t.kind, "asked", t.id, left, << >>)
  <2> DEFINE r == [t EXCEPT !.step = "asked"]
             q == [r EXCEPT !.left = left]
  <2>1. r = PolicyTask(t.kind, "asked", t.id, t.left, t.data)
    BY DEF PolicyShape
  <2>2. x = [q EXCEPT !.data = << >>]
    OBVIOUS
  <2> HIDE DEF r, x
  <2>3. q = PolicyTask(t.kind, "asked", t.id, left, t.data)
    BY <2>1
  <2> HIDE DEF q
  <2> QED  BY <2>2, <2>3
<1> HIDE DEF x
<1>3. x.kind = "all" /\ PolicyShape(x)
  BY <1>2 DEF PolicyShape
<1>4. IsABag(EmptyBag) /\ BagToSet(EmptyBag) = {}
  BY BagSet DEF EmptyBag
<1> QED  BY <1>1, <1>3, <1>4, OneBag

\* A step of the editor, the end of a load, or a change or a load that goes on.
LEMMA OthersMove ==
  ASSUME CheckInv,
         \A x \in InFlight' :
           \/ x.kind \in EditorKinds /\ PolicyShape(x)
           \/ x \in InFlight /\ (x.kind \in Checks \/ FirstListing(x) => tasks'[x] = 1)
           \/ \E y \in InFlight : y.kind = "switch" /\ x = PolicyTask("switch", x.step, y.id, x.left, y.data)
           \/ \E y \in InFlight : /\ y.kind = "policies" /\ y.id # {}
                                  /\ x = PolicyTask("policies", x.step, y.id, x.left, x.data),
         UNCHANGED <<chips, chosen, checks, checking>>,
         ~crossed' => ~crossed
  PROVE  CheckInv'
<1>1. \A x \in InFlight' :
        \/ x.kind \in EditorKinds /\ PolicyShape(x)
        \/ x \in InFlight /\ (x.kind \in Checks \/ FirstListing(x) => tasks'[x] = 1)
        \/ /\ x.kind = "switch" /\ PolicyShape(x)
           /\ \E y \in InFlight : y.kind = "switch" /\ x.id = y.id /\ x.data = y.data
        \/ /\ x.kind = "policies" /\ x.id # {} /\ PolicyShape(x)
           /\ \E y \in InFlight : y.kind = "policies" /\ ~FirstListing(y)
  BY DEF PolicyShape, FirstListing
<1>2. PolicyTasks'
  <2>1. ASSUME NEW x \in InFlight' PROVE PolicyShape(x)
    BY <1>1 DEF CheckInv, PolicyTasks
  <2>2. ASSUME NEW x \in InFlight', x.kind = "switch"
        PROVE  \E y \in InFlight : y.kind = "switch" /\ x.id = y.id /\ x.data = y.data
    BY <1>1, <2>2 DEF EditorKinds
  <2>3. \A y \in InFlight : y.kind = "switch" => DOMAIN y.data = y.id /\ \E d : y.id = {d}
    BY DEF CheckInv, PolicyTasks
  <2>4. ASSUME NEW x \in InFlight', x.kind = "switch"
        PROVE  DOMAIN x.data = x.id /\ \E d : x.id = {d}
    <3>1. PICK y \in InFlight : y.kind = "switch" /\ x.id = y.id /\ x.data = y.data
      BY <2>2, <2>4
    <3> QED  BY <2>3, <3>1
  <2> QED  BY <2>1, <2>4 DEF PolicyTasks
<1>3. ChecksOnce'
  <2>1. \A x \in InFlight' : x.kind \in Checks => x \in InFlight /\ tasks'[x] = 1
    BY <1>1 DEF Checks, EditorKinds
  <2> QED  BY <2>1 DEF CheckInv, ChecksOnce
<1>4. FirstAlone'
  <2>1. \A x \in InFlight' : FirstListing(x) => x \in InFlight /\ tasks'[x] = 1
    BY <1>1 DEF FirstListing, EditorKinds
  <2>2. ASSUME NEW x \in InFlight', FirstListing(x), NEW u \in InFlight'
        PROVE  u.kind # "switch" /\ (u.kind = "policies" => u = x)
    BY <1>1, <2>1, <2>2 DEF CheckInv, FirstAlone, EditorKinds, FirstListing, Checks
  <2> QED  BY <2>1, <2>2 DEF CheckInv, FirstAlone, FirstListing
<1>5. ForChosen'
  <2>1. \A x \in InFlight' : x.kind \in Checks => x \in InFlight
    BY <1>1 DEF Checks, EditorKinds
  <2>2. \A x \in InFlight' : x.kind = "switch" => \E y \in InFlight : y.kind = "switch" /\ x.id = y.id
    BY <1>1 DEF Checks, EditorKinds
  <2> QED  BY <2>1, <2>2 DEF CheckInv, ForChosen
<1> QED  BY <1>2, <1>3, <1>4, <1>5 DEF CheckInv

\* A handler that ends leaves the others as they are.
LEMMA EndStep ==
  ASSUME IsABag(tasks), CheckInv, NEW t \in InFlight, Ended(t)
  PROVE  /\ IsABag(tasks') /\ InFlight' \subseteq InFlight
         /\ \A x \in InFlight' : x.kind \in Checks \/ FirstListing(x) => tasks'[x] = 1 /\ x # t
BY EndedBag DEF CheckInv, ChecksOnce, FirstAlone

\* A policy is chosen, switched or checked once the first listing has ended.
LEMMA NoFirstMove ==
  ASSUME CheckInv, \A x \in InFlight' : ~FirstListing(x), PolicyTasks', ChecksOnce',
         DOMAIN checks' = Checks, ForChosen'
  PROVE  CheckInv'
BY DEF CheckInv, FirstAlone

LEMMA PoliciesStep ==
  ASSUME IsABag(tasks), CheckInv, PoliciesNext
  PROVE  IsABag(tasks)' /\ CheckInv'
<1>0. /\ \A t \in InFlight : PolicyShape(t)
      /\ chips # << >> \/ chosen # << >> => \A x \in InFlight : ~FirstListing(x)
      /\ DOMAIN << >> = {}
  BY DEF CheckInv, PolicyTasks, FirstAlone
<1>1. ASSUME NEW d \in Deliveries, ChoosePolicy(d) PROVE IsABag(tasks)' /\ CheckInv'
  <2> DEFINE u == Listing({d})
  <2>1. /\ d \in DOMAIN chips /\ chosen' = Only(d, chips[d]) /\ checks' = [c \in Checks |-> {}]
        /\ Waits(u) /\ crossed' = (crossed \/ Loading("switch") \/ checking # {})
        /\ UNCHANGED checking
    BY <1>1 DEF ChoosePolicy
  <2>2. /\ IsABag(tasks') /\ InFlight' = InFlight \cup {u}
        /\ \A x \in InFlight' : x # u => tasks'[x] = tasks[x]
    BY <2>1, WaitsBag
  <2>3. /\ u.kind = "policies" /\ u.id = {d} /\ PolicyShape(u)
        /\ ~FirstListing(u) /\ u.kind \notin Checks
    BY DEF Listing, PolicyShape, FirstListing, Checks
  <2> HIDE DEF u
  <2>4. chips # << >>
    BY <1>0, <2>1
  <2>5. PolicyTasks' /\ ChecksOnce'
    BY <2>1, <2>2, <2>3 DEF CheckInv, PolicyTasks, ChecksOnce
  <2>6. DOMAIN chosen' = {d} /\ DOMAIN checks' = Checks /\ \A c \in Checks : checks'[c] = {}
    BY <2>1 DEF Only
  <2>7. ASSUME ~crossed' PROVE \A x \in InFlight' : x.kind # "switch" /\ x.kind \notin Checks
    <3>1. ~Loading("switch") /\ checking = {}
      BY <2>1, <2>7
    <3>2. \A x \in InFlight : x.kind # "switch" /\ x.kind \notin Checks
      BY <3>1 DEF Loading, CheckInv, ChecksOnce
    <3> QED  BY <2>2, <2>3, <3>2
  <2>8. ForChosen'
    BY <2>6, <2>7 DEF ForChosen
  <2> QED  BY <1>0, <2>2, <2>3, <2>4, <2>5, <2>6, <2>8, NoFirstMove
<1>2. ASSUME NEW d \in Deliveries, SwitchPolicy(d) PROVE IsABag(tasks)' /\ CheckInv'
  <2> DEFINE u == PolicyTask("switch", "asked", {d}, << >>, Only(d, ~chosen[d]))
  <2>1. /\ d \in DOMAIN chosen /\ Waits(u) /\ crossed' = (crossed \/ Loading("policies"))
        /\ UNCHANGED <<chips, chosen, checks, checking>>
    BY <1>2 DEF SwitchPolicy
  <2>2. /\ IsABag(tasks') /\ InFlight' = InFlight \cup {u}
        /\ \A x \in InFlight' : x # u => tasks'[x] = tasks[x]
    BY <2>1, WaitsBag
  <2>3. /\ u.kind = "switch" /\ u.id = {d} /\ DOMAIN u.data = {d} /\ PolicyShape(u)
        /\ ~FirstListing(u) /\ u.kind \notin Checks
    BY DEF PolicyShape, FirstListing, Checks, Only
  <2> HIDE DEF u
  <2>4. chosen # << >>
    BY <1>0, <2>1
  <2>5. PolicyTasks' /\ ChecksOnce'
    BY <2>1, <2>2, <2>3 DEF CheckInv, PolicyTasks, ChecksOnce
  <2>6. DOMAIN chosen = {d}
    BY <2>1 DEF CheckInv, ForChosen
  <2>7. ~crossed' => ~crossed
    BY <2>1
  <2>8. ForChosen'
    BY <2>1, <2>2, <2>3, <2>6, <2>7 DEF CheckInv, ForChosen
  <2>9. DOMAIN checks' = Checks
    BY <2>1 DEF CheckInv
  <2> QED  BY <1>0, <2>2, <2>3, <2>4, <2>5, <2>8, <2>9, NoFirstMove
<1>3. ASSUME NEW c \in Checks, CheckPolicy(c) PROVE IsABag(tasks)' /\ CheckInv'
  <2> DEFINE u == PolicyTask(c, "asked", DOMAIN chosen, << >>, << >>)
  <2>1. /\ chosen # << >> /\ c \notin checking /\ checking' = checking \cup {c}
        /\ Waits(u) /\ crossed' = (crossed \/ Loading("switch"))
        /\ UNCHANGED <<chips, chosen, checks>>
    BY <1>3 DEF CheckPolicy
  <2>2. /\ IsABag(tasks') /\ InFlight' = InFlight \cup {u}
        /\ \A x \in InFlight' : x # u => tasks'[x] = tasks[x]
        /\ u \notin InFlight => tasks'[u] = 1
    BY <2>1, WaitsBag
  <2>3. /\ u.kind = c /\ u.id = DOMAIN chosen /\ PolicyShape(u)
        /\ ~FirstListing(u) /\ u.kind # "switch"
    BY DEF PolicyShape, FirstListing, Checks
  <2> HIDE DEF u
  <2>4. \A x \in InFlight : x.kind # c
    BY <2>1 DEF CheckInv, ChecksOnce
  <2>5. PolicyTasks'
    BY <2>2, <2>3 DEF CheckInv, PolicyTasks
  <2>6. ChecksOnce'
    BY <2>1, <2>2, <2>3, <2>4 DEF CheckInv, ChecksOnce
  <2>7. ~crossed' => ~crossed
    BY <2>1
  <2>8. ForChosen'
    BY <2>1, <2>2, <2>3, <2>7 DEF CheckInv, ForChosen
  <2>9. DOMAIN checks' = Checks
    BY <2>1 DEF CheckInv
  <2> QED  BY <1>0, <2>1, <2>2, <2>3, <2>5, <2>6, <2>8, <2>9, NoFirstMove
<1>4. ASSUME NEW p \in Policies, EditPolicy(p) PROVE IsABag(tasks)' /\ CheckInv'
  <2> DEFINE u == PolicyTask("edit", "asked", {p}, << >>, Only(p, ~editor[p]))
  <2>1. /\ Waits(u) /\ crossed' = (crossed \/ Loading("all"))
        /\ UNCHANGED <<chips, chosen, checks, checking>>
    BY <1>4 DEF EditPolicy
  <2>2. /\ IsABag(tasks') /\ InFlight' = InFlight \cup {u}
        /\ \A x \in InFlight' : x # u => tasks'[x] = tasks[x]
    BY <2>1, WaitsBag
  <2>3. u.kind \in EditorKinds /\ PolicyShape(u)
    BY DEF PolicyShape, EditorKinds
  <2> HIDE DEF u
  <2>4. ~crossed' => ~crossed
    BY <2>1
  <2>5. \A x \in InFlight : x.kind \in Checks \/ FirstListing(x) => tasks[x] = 1
    BY DEF CheckInv, ChecksOnce, FirstAlone
  <2> QED  BY <2>1, <2>2, <2>3, <2>4, <2>5, OthersMove
<1>5. ASSUME NEW t \in InFlight, PolicyChanged(t) PROVE IsABag(tasks)' /\ CheckInv'
  <2> DEFINE u == [t EXCEPT !.step = "served"]
  <2>1. /\ t.kind \in {"switch", "edit"} /\ GoesOn(t, u)
        /\ UNCHANGED <<chips, chosen, checks, checking, crossed>>
    BY <1>5 DEF PolicyChanged
  <2>2. u = PolicyTask(t.kind, "served", t.id, t.left, t.data)
    BY <1>0 DEF PolicyShape
  <2> HIDE DEF u
  <2>3. /\ IsABag(tasks')
        /\ InFlight' \subseteq InFlight \cup {u}
        /\ \A x \in InFlight' : x # t /\ x # u => tasks'[x] = tasks[x]
    BY <2>1, GoesOnBag
  <2>4. \/ u.kind \in EditorKinds /\ PolicyShape(u)
        \/ t.kind = "switch" /\ u = PolicyTask("switch", u.step, t.id, u.left, t.data)
    BY <2>1, <2>2 DEF PolicyShape, EditorKinds
  <2>5. \A x \in InFlight' : (x.kind \in Checks \/ FirstListing(x)) => x # u /\ x # t
    BY <2>1, <2>2 DEF Checks, FirstListing
  <2>6. \A x \in InFlight : x.kind \in Checks \/ FirstListing(x) => tasks[x] = 1
    BY DEF CheckInv, ChecksOnce, FirstAlone
  <2> QED  BY <2>1, <2>3, <2>4, <2>5, <2>6, OthersMove
<1>6. ASSUME NEW t \in InFlight, PolicyRead(t) PROVE IsABag(tasks)' /\ CheckInv'
  <2>1. /\ t.kind \in {"policies", "all"}
        /\ UNCHANGED <<chips, chosen, checks, checking, crossed>>
    BY <1>6 DEF PolicyRead, policyVars
  <2> DEFINE u == [t EXCEPT !.step = "served", !.data = [p \in Wanted(t) |-> inForce[p]]]
  <2>2. GoesOn(t, u) /\ t.step = "asked"
    BY <1>6 DEF PolicyRead
  <2>3. u = PolicyTask(t.kind, "served", t.id, t.left, [p \in Wanted(t) |-> inForce[p]])
    BY <1>0, PolicyExcept
  <2> HIDE DEF u
  <2>4. u.kind = t.kind /\ u.id = t.id /\ u.step = "served" /\ PolicyShape(u)
    BY <2>3 DEF PolicyShape
  <2>5. /\ IsABag(tasks')
        /\ InFlight' \subseteq InFlight \cup {u}
        /\ \A x \in InFlight' : x # t /\ x # u => tasks'[x] = tasks[x]
        /\ tasks[t] = 1 /\ t # u => t \notin InFlight'
        /\ u \notin InFlight => tasks'[u] = 1
    BY <2>2, GoesOnBag
  <2>6. \A x \in InFlight : x.kind \in Checks \/ FirstListing(x) => tasks[x] = 1
    BY DEF CheckInv, ChecksOnce, FirstAlone
  <2>7. CASE FirstListing(t)
    <3>1. /\ tasks[t] = 1 /\ chips = << >> /\ chosen = << >> /\ t # u
          /\ \A x \in InFlight : x.kind # "switch" /\ (x.kind = "policies" => x = t)
      BY <2>2, <2>4, <2>7 DEF CheckInv, FirstAlone
    <3>2. u \notin InFlight /\ t \notin InFlight' /\ u.kind = "policies"
      BY <2>4, <2>5, <2>7, <3>1 DEF FirstListing
    <3>3. PolicyTasks'
      BY <2>4, <2>5, <3>2 DEF CheckInv, PolicyTasks
    <3>4. ChecksOnce'
      <4>1. \A x \in InFlight' : x.kind \in Checks => x \in InFlight /\ tasks'[x] = tasks[x]
        BY <2>5, <3>2 DEF Checks
      <4> QED  BY <2>1, <4>1 DEF CheckInv, ChecksOnce
    <3>5. FirstAlone'
      BY <2>1, <2>5, <3>1, <3>2 DEF FirstAlone, FirstListing
    <3>6. ForChosen'
      BY <2>1, <2>5, <3>2 DEF CheckInv, ForChosen, Checks
    <3> QED  BY <2>1, <2>5, <3>3, <3>4, <3>5, <3>6 DEF CheckInv
  <2>8. CASE ~FirstListing(t)
    <3>1. \/ u.kind \in EditorKinds /\ PolicyShape(u)
          \/ t.kind = "policies" /\ t.id # {} /\ u = PolicyTask("policies", u.step, t.id, u.left, u.data)
      BY <2>1, <2>3, <2>4, <2>8 DEF EditorKinds, FirstListing
    <3>2. \A x \in InFlight' : (x.kind \in Checks \/ FirstListing(x)) => x # u /\ x # t
      BY <2>1, <2>4, <2>8 DEF Checks, FirstListing
    <3> QED  BY <2>1, <2>5, <2>6, <3>1, <3>2, OthersMove
  <2> QED  BY <2>7, <2>8
<1>7. ASSUME NEW t \in InFlight, PoliciesListed(t) PROVE IsABag(tasks)' /\ CheckInv'
  <2>1. t.kind = "policies" /\ UNCHANGED <<checks, checking, crossed>>
    BY <1>7 DEF PoliciesListed
  <2>2. CASE t.id = {}
    <3>1. /\ tasks[t] = 1 /\ chosen = << >>
          /\ \A x \in InFlight : x.kind # "switch" /\ (x.kind = "policies" => x = t)
      BY <2>1, <2>2 DEF CheckInv, FirstAlone, FirstListing
    <3>2. PICK d \in Deliveries : chosen' = Only(d, t.data[d]) /\ GoesOn(t, Listing({d}))
      BY <1>7, <2>2 DEF PoliciesListed
    <3> DEFINE u == Listing({d})
    <3>3. u.kind = "policies" /\ u.id = {d} /\ PolicyShape(u)
      BY DEF Listing, PolicyShape
    <3>4. GoesOn(t, u)
      BY <3>2
    <3> HIDE DEF u
    <3>5. /\ IsABag(tasks')
          /\ InFlight' \subseteq InFlight \cup {u}
          /\ \A x \in InFlight' : x # t /\ x # u => tasks'[x] = tasks[x]
          /\ t \notin InFlight'
      BY <2>2, <3>1, <3>3, <3>4, GoesOnBag
    <3>6. \A x \in InFlight' : ~FirstListing(x) /\ (x \in InFlight \/ x = u) /\ x.kind # "switch"
      BY <3>1, <3>3, <3>5 DEF FirstListing
    <3>7. PolicyTasks'
      BY <3>3, <3>6 DEF CheckInv, PolicyTasks
    <3>8. ChecksOnce'
      <4>1. \A x \in InFlight' : x.kind \in Checks => x \in InFlight /\ tasks'[x] = tasks[x]
        BY <2>1, <3>3, <3>5 DEF Checks
      <4> QED  BY <2>1, <4>1 DEF CheckInv, ChecksOnce
    <3>9. ForChosen'
      <4>1. DOMAIN chosen' = {d} /\ DOMAIN chosen \subseteq DOMAIN chosen'
        BY <1>0, <3>1, <3>2 DEF Only
      <4>2. \A x \in InFlight' : x.kind \in Checks => x \in InFlight
        BY <3>3, <3>6 DEF Checks
      <4> QED  BY <2>1, <3>6, <4>1, <4>2 DEF CheckInv, ForChosen
    <3> QED  BY <2>1, <3>5, <3>6, <3>7, <3>8, <3>9, NoFirstMove DEF CheckInv
  <2>3. CASE t.id # {}
    <3>1. Ended(t) /\ chosen' = chosen
      BY <1>7, <2>3 DEF PoliciesListed
    <3>2. \A x \in InFlight : ~FirstListing(x)
      BY <2>1, <2>3 DEF CheckInv, FirstAlone, FirstListing
    <3>3. /\ IsABag(tasks') /\ InFlight' \subseteq InFlight
          /\ \A x \in InFlight' : x.kind \in Checks => tasks'[x] = 1
      BY <3>1, EndStep
    <3>4. PolicyTasks' /\ ChecksOnce'
      BY <2>1, <3>3 DEF CheckInv, PolicyTasks, ChecksOnce
    <3>5. ForChosen'
      BY <2>1, <3>1, <3>3 DEF CheckInv, ForChosen
    <3> QED  BY <2>1, <3>2, <3>3, <3>4, <3>5, NoFirstMove DEF CheckInv
  <2> QED  BY <2>2, <2>3
<1>8. ASSUME NEW t \in InFlight, Switched(t) PROVE IsABag(tasks)' /\ CheckInv'
  <2> DEFINE u == Listing(t.id)
  <2>1. /\ t.kind = "switch" /\ chosen' = t.data /\ GoesOn(t, u)
        /\ UNCHANGED <<checks, checking, crossed>>
    BY <1>8 DEF Switched
  <2>2. DOMAIN t.data = t.id /\ \E d : t.id = {d}
    BY <2>1 DEF CheckInv, PolicyTasks
  <2>3. u.kind = "policies" /\ u.id = t.id /\ PolicyShape(u) /\ ~FirstListing(u)
    BY <2>2 DEF Listing, PolicyShape, FirstListing
  <2> HIDE DEF u
  <2>4. /\ IsABag(tasks')
        /\ InFlight' \subseteq InFlight \cup {u}
        /\ \A x \in InFlight' : x # t /\ x # u => tasks'[x] = tasks[x]
    BY <2>1, GoesOnBag
  <2>5. \A x \in InFlight : ~FirstListing(x)
    BY <2>1 DEF CheckInv, FirstAlone
  <2>6. PolicyTasks'
    BY <2>3, <2>4 DEF CheckInv, PolicyTasks
  <2>7. \A x \in InFlight' : x.kind \in Checks => x \in InFlight /\ tasks'[x] = tasks[x]
    BY <2>1, <2>3, <2>4 DEF Checks
  <2>8. ChecksOnce'
    BY <2>1, <2>7 DEF CheckInv, ChecksOnce
  <2>9. ForChosen'
    <3>1. \A x \in InFlight' : x.kind = "switch" => x \in InFlight
      BY <2>3, <2>4
    <3>2. ~crossed => DOMAIN chosen' = DOMAIN chosen
      BY <2>1, <2>2 DEF CheckInv, ForChosen
    <3> QED  BY <2>1, <2>2, <2>7, <3>1, <3>2 DEF CheckInv, ForChosen
  <2> QED  BY <2>1, <2>3, <2>4, <2>5, <2>6, <2>8, <2>9, NoFirstMove DEF CheckInv
<1>9. ASSUME NEW t \in InFlight, PolicyChecked(t) PROVE IsABag(tasks)' /\ CheckInv'
  <2>1. /\ t.kind \in Checks /\ checks' \in {checks, [checks EXCEPT ![t.kind] = t.id]}
        /\ checking' = checking \ {t.kind} /\ Ended(t) /\ UNCHANGED <<chips, chosen, crossed>>
    BY <1>9 DEF PolicyChecked
  <2>2. /\ IsABag(tasks') /\ InFlight' \subseteq InFlight
        /\ \A x \in InFlight' : x.kind \in Checks \/ FirstListing(x) => tasks'[x] = 1 /\ x # t
    BY <2>1, EndStep
  <2>3. ChecksOnce'
    <3>1. \A x \in InFlight' : x.kind \in Checks => x.kind # t.kind
      BY <2>1, <2>2 DEF CheckInv, ChecksOnce
    <3> QED  BY <2>1, <2>2, <3>1 DEF CheckInv, ChecksOnce
  <2>4. PolicyTasks' /\ FirstAlone'
    BY <2>1, <2>2 DEF CheckInv, PolicyTasks, FirstAlone
  <2>5. DOMAIN checks' = Checks
    BY <2>1 DEF CheckInv
  <2>6. ASSUME ~crossed PROVE \A c \in Checks : checks'[c] \subseteq DOMAIN chosen
    <3>1. t.id \subseteq DOMAIN chosen /\ \A c \in Checks : checks[c] \subseteq DOMAIN chosen
      BY <2>1, <2>6 DEF CheckInv, ForChosen
    <3> QED  BY <2>1, <3>1 DEF CheckInv
  <2>7. ForChosen'
    BY <2>1, <2>2, <2>6 DEF CheckInv, ForChosen
  <2> QED  BY <2>2, <2>3, <2>4, <2>5, <2>7 DEF CheckInv
<1>10. ASSUME NEW t \in InFlight, TabLoaded(t) PROVE IsABag(tasks)' /\ CheckInv'
  <2> DEFINE n == NextTab(t)
             rest == tasks (-) One(t)
  <2>1. /\ t.kind = "all" /\ UNCHANGED <<chips, chosen, checks, checking, crossed>>
        /\ \/ tasks' = rest (+) n
           \/ \E d \in Deliveries : tasks' = rest (+) n (+) One(FetchAll({d}))
    BY <1>10 DEF TabLoaded
  <2>2. IsABag(n) /\ \A x \in BagToSet(n) : x.kind = "all" /\ PolicyShape(x)
    BY <1>0, <2>1, NextTabKind
  <2>3. /\ IsABag(rest) /\ BagToSet(rest) \subseteq InFlight
        /\ \A x \in InFlight \ {t} : rest[x] = tasks[x]
    BY OneBag, BagTake DEF InFlight
  <2> HIDE DEF n, rest
  <2>4. /\ IsABag(rest (+) n) /\ BagToSet(rest (+) n) = BagToSet(rest) \cup BagToSet(n)
        /\ \A x \in BagToSet(rest) \ BagToSet(n) : (rest (+) n)[x] = rest[x]
    BY <2>2, <2>3, BagAdd
  <2>5. /\ IsABag(tasks')
        /\ \A x \in InFlight' :
             \/ x.kind = "all" /\ PolicyShape(x)
             \/ x \in InFlight /\ tasks'[x] = tasks[x]
    <3>1. CASE tasks' = rest (+) n
      BY <1>0, <2>1, <2>2, <2>3, <2>4, <3>1 DEF InFlight
    <3>2. ASSUME NEW d \in Deliveries, tasks' = rest (+) n (+) One(FetchAll({d})) PROVE <2>5
      <4> DEFINE f == FetchAll({d})
      <4>1. f.kind = "all" /\ PolicyShape(f)
        BY DEF FetchAll, PolicyShape
      <4> HIDE DEF f
      <4>2. /\ IsABag(tasks') /\ BagToSet(tasks') = BagToSet(rest (+) n) \cup {f}
            /\ \A x \in BagToSet(rest (+) n) \ {f} : tasks'[x] = (rest (+) n)[x]
        BY <2>4, <3>2, OneBag, BagAdd DEF f
      <4> QED  BY <1>0, <2>1, <2>2, <2>3, <2>4, <4>1, <4>2 DEF InFlight
    <3> QED  BY <2>1, <3>1, <3>2
  <2>6. \A x \in InFlight : x.kind \in Checks \/ FirstListing(x) => tasks[x] = 1
    BY DEF CheckInv, ChecksOnce, FirstAlone
  <2> QED  BY <2>1, <2>5, <2>6, OthersMove DEF EditorKinds
<1>11. ASSUME NEW t \in InFlight, Edited(t) PROVE IsABag(tasks)' /\ CheckInv'
  <2> DEFINE u == FetchAll(t.id)
  <2>1. /\ t.kind = "edit" /\ UNCHANGED <<chips, chosen, checks, checking, crossed>>
        /\ Ended(t) \/ GoesOn(t, u)
    BY <1>11 DEF Edited
  <2>2. u.kind = "all" /\ PolicyShape(u)
    BY DEF FetchAll, PolicyShape
  <2> HIDE DEF u
  <2>3. /\ IsABag(tasks')
        /\ InFlight' \subseteq InFlight \cup {u}
        /\ \A x \in InFlight' : x # t /\ x # u => tasks'[x] = tasks[x]
    BY <2>1, GoesOnBag, EndedBag
  <2>4. \A x \in InFlight : x.kind \in Checks \/ FirstListing(x) => tasks[x] = 1
    BY DEF CheckInv, ChecksOnce, FirstAlone
  <2> QED  BY <1>0, <2>1, <2>2, <2>3, <2>4, OthersMove DEF EditorKinds
<1>12. ASSUME NEW t \in InFlight, PolicyRequestFails(t) PROVE IsABag(tasks)' /\ CheckInv'
  <2>1. /\ Ended(t) /\ UNCHANGED <<chips, chosen, checks, checking>>
        /\ crossed' = (crossed \/ (t.kind \in {"switch", "edit"} /\ t.step = "served"))
    BY <1>12 DEF PolicyRequestFails
  <2>2. ~crossed' => ~crossed
    BY <2>1
  <2>3. /\ IsABag(tasks') /\ InFlight' \subseteq InFlight
        /\ \A x \in InFlight' : x.kind \in Checks \/ FirstListing(x) => tasks'[x] = 1
    BY <2>1, EndStep
  <2> QED  BY <2>1, <2>2, <2>3, OthersMove
<1> QED
  BY <1>1, <1>2, <1>3, <1>4, <1>5, <1>6, <1>7, <1>8, <1>9, <1>10, <1>11, <1>12 DEF PoliciesNext

LEMMA ChecksOfChosenHold == CheckInv => ChecksOfChosen
BY DEF CheckInv, ForChosen, ChecksOfChosen

-----------------------------------------------------------------------------
(* Signing in *)

SignShape(t) ==
  /\ t = SignTask(t.kind, t.step, t.tab, t.data)
  /\ t.tab \in BrowserTabs \cup {NoTab}

\* The provider is asked to grant the flow that the API has just forgotten.
Granting(t) == t.kind = "callback" /\ t.step = "grant"

Login == [user : Users, flow : Nat, live : BOOLEAN]

\* A flow of the provider is remembered, being granted once, or in one session.
FlowRows ==
  /\ flows \in Nat /\ states \subseteq 1 .. flows
  /\ logins \in Seq(Login)
  /\ \A k \in DOMAIN logins : logins[k].flow <= flows /\ logins[k].flow \notin states
  /\ OneSessionPerFlow

FlowTasks ==
  \A t \in InFlight : SignShape(t) /\ (t.kind = "login" => t.data.user \in Users)

GrantOnce ==
  \A t \in InFlight : Granting(t) =>
    /\ tasks[t] = 1
    /\ t.data.state \in (1 .. flows) \ states
    /\ \A k \in DOMAIN logins : logins[k].flow # t.data.state
    /\ \A u \in InFlight : Granting(u) /\ u.data.state = t.data.state => u = t

FlowInv == FlowRows /\ FlowTasks /\ GrantOnce

USE DEF SignTask

LEMMA SignExcept ==
  ASSUME NEW t, SignShape(t), NEW step, NEW data
  PROVE  [t EXCEPT !.step = step, !.data = data] = SignTask(t.kind, step, t.tab, data)
<1> DEFINE r == [t EXCEPT !.step = step]
<1>1. r = SignTask(t.kind, step, t.tab, t.data)
  BY DEF SignShape
<1>2. [t EXCEPT !.step = step, !.data = data] = [r EXCEPT !.data = data]
  OBVIOUS
<1> HIDE DEF r
<1>3. [r EXCEPT !.data = data] = SignTask(t.kind, step, t.tab, data)
  BY <1>1
<1> QED  BY <1>2, <1>3

Unheard(t) == SignTask(t.kind, t.step, NoTab, t.data)

\* What waits once the page of tab b has been left.
LEMMA WithoutTabBag ==
  ASSUME IsABag(tasks), FlowTasks, NEW b \in BrowserTabs
  PROVE  /\ IsABag(WithoutTab(b))
         /\ BagToSet(WithoutTab(b)) = {x \in InFlight : x.tab # b}
                                        \cup {Unheard(t) : t \in {x \in InFlight : x.tab = b}}
         /\ \A x \in InFlight : x.tab # b /\ (\A t \in InFlight : t.tab = b => x # Unheard(t))
              => WithoutTab(b)[x] = tasks[x]
         /\ \A t \in InFlight : t.tab = b /\ Unheard(t) \notin InFlight
              => WithoutTab(b)[Unheard(t)] = tasks[t]
<1> DEFINE Stay == {x \in InFlight : x.tab # b}
           Gone == {x \in InFlight : x.tab = b}
           Moved == {[t EXCEPT !.tab = NoTab] : t \in Gone}
           p == [t \in Stay |-> tasks[t]]
           q == [u \in Moved |-> tasks[[u EXCEPT !.tab = b]]]
<1>1. \A t \in Gone : [t EXCEPT !.tab = NoTab] = Unheard(t) /\ [Unheard(t) EXCEPT !.tab = b] = t
  BY DEF FlowTasks, SignShape, Unheard
<1>2. Moved = {Unheard(t) : t \in Gone}
  BY <1>1
<1>3. WithoutTab(b) = p (+) q
  BY DEF WithoutTab
<1> HIDE DEF Moved
<1>4. IsABag(p) /\ BagToSet(p) = Stay
  BY DEF IsABag, BagToSet, InFlight
<1>5. DOMAIN q = Moved /\ \A t \in Gone : q[Unheard(t)] = tasks[t]
  BY <1>1, <1>2
<1>6. IsABag(q) /\ BagToSet(q) = Moved
  <2>1. \A t \in Gone : tasks[t] \in {n \in Nat : n > 0}
    BY DEF IsABag, InFlight, BagToSet
  <2>2. q = [u \in Moved |-> q[u]]
    OBVIOUS
  <2> HIDE DEF q
  <2>3. ASSUME NEW u \in Moved PROVE q[u] \in {n \in Nat : n > 0}
    <3>1. PICK t \in Gone : u = Unheard(t)
      BY <1>2
    <3> QED  BY <1>5, <2>1, <3>1
  <2> QED  BY <1>5, <2>2, <2>3 DEF IsABag, BagToSet
<1>7. \A x \in Stay : p[x] = tasks[x]
  OBVIOUS
<1> HIDE DEF p, q
<1>8. /\ IsABag(p (+) q) /\ BagToSet(p (+) q) = Stay \cup Moved
      /\ \A x \in Stay \ Moved : (p (+) q)[x] = p[x]
      /\ \A x \in Moved \ Stay : (p (+) q)[x] = q[x]
  BY <1>4, <1>6, BagAdd
<1>9. \A x \in InFlight : x.tab # b /\ (\A t \in InFlight : t.tab = b => x # Unheard(t))
              => WithoutTab(b)[x] = tasks[x]
  BY <1>2, <1>3, <1>7, <1>8
<1>10. \A t \in InFlight : t.tab = b /\ Unheard(t) \notin InFlight
              => WithoutTab(b)[Unheard(t)] = tasks[t]
  BY <1>2, <1>3, <1>5, <1>8
<1> QED  BY <1>2, <1>3, <1>8, <1>9, <1>10

\* Each grant is still the one it was, of a page that was left perhaps.
LEMMA TasksMove ==
  ASSUME FlowInv, UNCHANGED <<flows, states, logins>>,
         \A x \in InFlight' :
           \/ SignShape(x) /\ ~Granting(x) /\ (x.kind = "login" => x.data.user \in Users)
           \/ x \in InFlight /\ (Granting(x) => tasks'[x] = 1)
  PROVE  FlowInv'
<1>1. FlowRows'
  BY DEF FlowInv, FlowRows, OneSessionPerFlow
<1>2. FlowTasks'
  BY DEF FlowInv, FlowTasks
<1>3. \A x \in InFlight' : Granting(x) => x \in InFlight /\ tasks'[x] = 1
  OBVIOUS
<1>4. GrantOnce'
  BY <1>3 DEF FlowInv, GrantOnce
<1> QED  BY <1>1, <1>2, <1>4 DEF FlowInv

\* The page of a tab is left, and perhaps something else is asked or dropped.
LEMMA LeaveStep ==
  ASSUME IsABag(tasks), FlowInv, UNCHANGED <<flows, states, logins>>, NEW b \in BrowserTabs,
         NEW u, SignShape(u), ~Granting(u), u.kind # "login",
         tasks' = WithoutTab(b) (+) One(u) \/ tasks' = WithoutTab(b) (-) One(u)
  PROVE  IsABag(tasks)' /\ FlowInv'
<1> DEFINE w == WithoutTab(b)
<1>1. /\ IsABag(w)
      /\ BagToSet(w) = {x \in InFlight : x.tab # b} \cup {Unheard(t) : t \in {x \in InFlight : x.tab = b}}
      /\ \A x \in InFlight : x.tab # b /\ (\A t \in InFlight : t.tab = b => x # Unheard(t)) => w[x] = tasks[x]
      /\ \A t \in InFlight : t.tab = b /\ Unheard(t) \notin InFlight => w[Unheard(t)] = tasks[t]
  BY WithoutTabBag DEF FlowInv
<1>2. tasks' = w (+) One(u) \/ tasks' = w (-) One(u)
  OBVIOUS
<1> HIDE DEF w
<1>3. /\ IsABag(tasks') /\ InFlight' \subseteq BagToSet(w) \cup {u}
      /\ \A x \in InFlight' : x # u => x \in BagToSet(w) /\ tasks'[x] = w[x]
  BY <1>1, <1>2, OneBag, BagAdd, BagTake DEF InFlight
<1>4. \A t \in InFlight : SignShape(t)
  BY DEF FlowInv, FlowTasks
<1>5. ASSUME NEW x \in BagToSet(w)
      PROVE  \E y \in InFlight : /\ IF y.tab = b THEN x = Unheard(y) ELSE x = y
                                 /\ x.kind = y.kind /\ x.step = y.step /\ x.data = y.data
  BY <1>1 DEF Unheard
<1>6. FlowRows'
  BY DEF FlowInv, FlowRows, OneSessionPerFlow
<1>7. FlowTasks'
  <2>1. ASSUME NEW x \in BagToSet(w) PROVE SignShape(x) /\ (x.kind = "login" => x.data.user \in Users)
    <3>1. PICK y \in InFlight : /\ x = Unheard(y) \/ x = y
                                /\ x.kind = y.kind /\ x.data = y.data
      BY <1>5
    <3> QED  BY <1>4, <3>1 DEF SignShape, Unheard, FlowInv, FlowTasks
  <2> QED  BY <1>3, <2>1 DEF FlowTasks
<1>8. ASSUME NEW x \in InFlight', Granting(x)
      PROVE  /\ tasks'[x] = 1
             /\ x.data.state \in (1 .. flows) \ states
             /\ \A k \in DOMAIN logins : logins[k].flow # x.data.state
             /\ \A z \in InFlight' : Granting(z) /\ z.data.state = x.data.state => z = x
  <2>1. x \in BagToSet(w) /\ tasks'[x] = w[x]
    BY <1>3, <1>8
  <2>2. PICK y \in InFlight : /\ IF y.tab = b THEN x = Unheard(y) ELSE x = y
                              /\ x.kind = y.kind /\ x.step = y.step /\ x.data = y.data
    BY <1>5, <2>1
  <2>3. Granting(y)
    BY <1>8, <2>2 DEF Granting
  <2>4. /\ tasks[y] = 1
        /\ y.data.state \in (1 .. flows) \ states
        /\ \A k \in DOMAIN logins : logins[k].flow # y.data.state
        /\ \A v \in InFlight : Granting(v) /\ v.data.state = y.data.state => v = y
    BY <2>3 DEF FlowInv, GrantOnce
  <2>5. w[x] = 1
    <3>1. CASE y.tab = b
      <4>1. Unheard(y) \notin InFlight
        <5>1. Granting(Unheard(y)) /\ Unheard(y).data = y.data /\ Unheard(y).tab = NoTab
          BY <2>3 DEF Unheard, Granting
        <5>2. Unheard(y) # y
          BY <3>1, <5>1, SignInAssumption
        <5> QED  BY <2>4, <5>1, <5>2
      <4> QED  BY <1>1, <2>2, <2>4, <3>1, <4>1
    <3>2. CASE y.tab # b
      <4>1. ASSUME NEW t \in InFlight, t.tab = b PROVE x # Unheard(t)
        <5>1. CASE x = Unheard(t)
          <6>1. Granting(t) /\ t.data.state = y.data.state
            BY <2>2, <2>3, <3>2, <5>1 DEF Unheard, Granting
          <6> QED  BY <2>4, <3>2, <4>1, <6>1
        <5> QED  BY <5>1
      <4> QED  BY <1>1, <2>2, <2>4, <3>2, <4>1
    <3> QED  BY <3>1, <3>2
  <2>6. ASSUME NEW z \in InFlight', Granting(z), z.data.state = x.data.state PROVE z = x
    <3>1. z \in BagToSet(w)
      BY <1>3, <2>6
    <3>2. PICK v \in InFlight : /\ IF v.tab = b THEN z = Unheard(v) ELSE z = v
                                /\ z.kind = v.kind /\ z.step = v.step /\ z.data = v.data
      BY <1>5, <3>1
    <3>3. v = y
      BY <2>2, <2>4, <2>6, <3>2 DEF Granting
    <3> QED  BY <2>2, <3>2, <3>3
  <2> QED  BY <2>1, <2>2, <2>4, <2>5, <2>6
<1>9. GrantOnce'
  BY <1>8 DEF GrantOnce
<1> QED  BY <1>3, <1>6, <1>7, <1>9 DEF FlowInv

\* A session is revoked: its flow stays used.
LEMMA RevokedRows ==
  ASSUME FlowRows, NEW token, logins' = Revoked(token), flows' = flows, states' \subseteq states
  PROVE  FlowRows' /\ DOMAIN logins' = DOMAIN logins
         /\ \A k \in DOMAIN logins : logins'[k].flow = logins[k].flow
<1>1. logins \in Seq(Login) /\ DOMAIN logins = 1 .. Len(logins)
  BY DEF FlowRows
<1>2. ASSUME NEW k \in DOMAIN logins
      PROVE  /\ [logins[k] EXCEPT !.live = FALSE] \in Login
             /\ [logins[k] EXCEPT !.live = FALSE].flow = logins[k].flow
  <2>1. logins[k] \in Login
    BY <1>1
  <2> QED  BY <2>1 DEF Login
<1>3. DOMAIN logins' = DOMAIN logins
      /\ \A k \in DOMAIN logins : logins'[k] \in Login /\ logins'[k].flow = logins[k].flow
  BY <1>1, <1>2 DEF Revoked
<1>4. logins' \in Seq(Login)
  <2>1. logins' = [k \in 1 .. Len(logins) |-> logins'[k]]
    BY <1>1 DEF Revoked
  <2>2. Len(logins) \in Nat
    BY <1>1
  <2> QED  BY <1>1, <1>3, <2>1, <2>2
<1>5. OneSessionPerFlow'
  BY <1>3 DEF FlowRows, OneSessionPerFlow
<1>6. \A k \in DOMAIN logins' : logins'[k].flow <= flows' /\ logins'[k].flow \notin states'
  BY <1>3 DEF FlowRows
<1>7. flows' \in Nat /\ states' \subseteq 1 .. flows'
  BY DEF FlowRows
<1> QED  BY <1>3, <1>4, <1>5, <1>6, <1>7 DEF FlowRows

\* A new session, of a flow that no other session and no grant has.
LEMMA NewLogin ==
  ASSUME FlowRows, NEW u \in Users, NEW f \in 0 .. flows, f \notin states,
         f = 0 \/ \A k \in DOMAIN logins : logins[k].flow # f,
         logins' = Append(logins, [user |-> u, flow |-> f, live |-> TRUE]),
         UNCHANGED <<flows, states>>
  PROVE  /\ FlowRows'
         /\ \A k \in DOMAIN logins' : logins'[k].flow = f \/ (k \in DOMAIN logins /\ logins'[k].flow = logins[k].flow)
<1> DEFINE e == [user |-> u, flow |-> f, live |-> TRUE]
<1>1. logins \in Seq(Login) /\ DOMAIN logins = 1 .. Len(logins) /\ Len(logins) \in Nat /\ flows \in Nat
  BY DEF FlowRows
<1>2. e \in Login /\ e.flow = f
  BY <1>1 DEF Login
<1> HIDE DEF e
<1>3. logins' = Append(logins, e)
  BY DEF e
<1>4. /\ logins' \in Seq(Login) /\ DOMAIN logins' = 1 .. Len(logins) + 1
      /\ logins'[Len(logins) + 1] = e
      /\ \A k \in 1 .. Len(logins) : logins'[k] = logins[k]
  BY <1>1, <1>2, <1>3
<1>5. \A k \in DOMAIN logins' : \/ k = Len(logins) + 1 /\ logins'[k].flow = f
                                \/ k \in DOMAIN logins /\ logins'[k].flow = logins[k].flow
  BY <1>1, <1>2, <1>4
<1>6. OneSessionPerFlow'
  BY <1>1, <1>5 DEF FlowRows, OneSessionPerFlow
<1>7. \A k \in DOMAIN logins' : logins'[k].flow <= flows' /\ logins'[k].flow \notin states'
  BY <1>1, <1>5 DEF FlowRows
<1> QED  BY <1>1, <1>4, <1>5, <1>6, <1>7 DEF FlowRows

LEMMA SignStep ==
  ASSUME IsABag(tasks), FlowInv, SignNext
  PROVE  IsABag(tasks)' /\ FlowInv'
<1>0. /\ \A t \in InFlight : SignShape(t)
      /\ \A t \in InFlight : t.kind = "login" => t.data.user \in Users
      /\ \A t \in InFlight : Granting(t) => tasks[t] = 1
      /\ FlowRows
  BY DEF FlowInv, FlowTasks, GrantOnce
<1>1. ASSUME NEW b \in BrowserTabs, OpenPage(b) PROVE IsABag(tasks)' /\ FlowInv'
  <2> DEFINE u == SignTask("me", "asked", b, cookies)
  <2>1. tasks' = WithoutTab(b) (+) One(u) /\ UNCHANGED <<flows, states, logins>>
    BY <1>1 DEF OpenPage
  <2>2. SignShape(u) /\ ~Granting(u) /\ u.kind # "login"
    BY <1>0 DEF SignShape, Granting
  <2> HIDE DEF u
  <2> QED  BY <2>1, <2>2, LeaveStep
<1>2. ASSUME NEW b \in BrowserTabs, ReturnFromProvider(b) PROVE IsABag(tasks)' /\ FlowInv'
  <2> DEFINE u == SignTask("callback", "asked", b, [flow |-> place[b], state |-> cookies.state])
  <2>1. tasks' = WithoutTab(b) (+) One(u) /\ UNCHANGED <<flows, states, logins>>
    BY <1>2 DEF ReturnFromProvider
  <2>2. SignShape(u) /\ ~Granting(u) /\ u.kind # "login"
    BY <1>0 DEF SignShape, Granting
  <2> HIDE DEF u
  <2> QED  BY <2>1, <2>2, LeaveStep
<1>3. ASSUME NEW t \in InFlight, ProviderOpened(t) PROVE IsABag(tasks)' /\ FlowInv'
  <2> DEFINE u == [t EXCEPT !.tab = NoTab]
  <2>1. /\ tasks' = WithoutTab(t.tab) (-) One(u) /\ UNCHANGED <<flows, states, logins>>
        /\ t.kind = "oidc" /\ t.tab # NoTab
    BY <1>3 DEF ProviderOpened, ToTab
  <2>2. u = SignTask(t.kind, t.step, NoTab, t.data)
    BY <1>0 DEF SignShape
  <2> HIDE DEF u
  <2>3. SignShape(u) /\ ~Granting(u) /\ u.kind # "login"
    BY <1>0, <2>1, <2>2 DEF SignShape, Granting
  <2>4. CASE t.tab \in BrowserTabs
    BY <2>1, <2>3, <2>4, LeaveStep
  <2> QED  BY <1>0, <2>1, <2>4 DEF SignShape
<1>4. ASSUME NEW u, SignShape(u), ~Granting(u), u.kind = "login" => u.data.user \in Users,
             Waits(u), UNCHANGED <<flows, states, logins>>
      PROVE  IsABag(tasks)' /\ FlowInv'
  <2>1. /\ IsABag(tasks') /\ InFlight' = InFlight \cup {u}
        /\ \A x \in InFlight' : x # u => tasks'[x] = tasks[x]
    BY <1>4, WaitsBag
  <2> QED  BY <1>0, <1>4, <2>1, TasksMove
<1>5. ASSUME NEW b \in BrowserTabs, StartOidcLogin(b) \/ LogOut(b) \/ \E u \in Users : SubmitForm(b, u)
      PROVE  IsABag(tasks)' /\ FlowInv'
  <2>1. UNCHANGED <<flows, states, logins>>
    BY <1>5 DEF StartOidcLogin, LogOut, SubmitForm
  <2>2. ASSUME NEW kind \in {"oidc", "logout"}, NEW data, Waits(SignTask(kind, "asked", b, data))
        PROVE  IsABag(tasks)' /\ FlowInv'
    <3> DEFINE u == SignTask(kind, "asked", b, data)
    <3>1. SignShape(u) /\ ~Granting(u) /\ u.kind # "login"
      BY DEF SignShape, Granting
    <3>2. Waits(u)
      BY <2>2
    <3> HIDE DEF u
    <3> QED  BY <1>4, <2>1, <3>1, <3>2
  <2>3. ASSUME NEW user \in Users, Waits(SignTask("login", "asked", b, [user |-> user]))
        PROVE  IsABag(tasks)' /\ FlowInv'
    <3> DEFINE u == SignTask("login", "asked", b, [user |-> user])
    <3>1. SignShape(u) /\ ~Granting(u) /\ u.data.user \in Users
      BY DEF SignShape, Granting
    <3>2. Waits(u)
      BY <2>3
    <3> HIDE DEF u
    <3> QED  BY <1>4, <2>1, <3>1, <3>2
  <2> QED  BY <1>5, <2>2, <2>3 DEF StartOidcLogin, LogOut, SubmitForm
<1>6. ASSUME NEW t \in InFlight, NEW u, GoesOn(t, u) \/ Ended(t), SignShape(u), ~Granting(u),
             u.kind = "login" => u.data.user \in Users, UNCHANGED <<flows, states, logins>>
      PROVE  IsABag(tasks)' /\ FlowInv'
  <2>1. /\ IsABag(tasks') /\ InFlight' \subseteq InFlight \cup {u}
        /\ \A x \in InFlight' : x # t /\ x # u => tasks'[x] = tasks[x]
        /\ tasks[t] = 1 /\ t # u => t \notin InFlight' \/ (Ended(t) /\ t \notin InFlight')
    BY <1>6, GoesOnBag, EndedBag
  <2> QED  BY <1>0, <1>6, <2>1, TasksMove
<1>7. ASSUME NEW t \in InFlight, Ended(t), UNCHANGED <<flows, states, logins>>
      PROVE  IsABag(tasks)' /\ FlowInv'
  <2>1. /\ IsABag(tasks') /\ InFlight' \subseteq InFlight
        /\ \A x \in InFlight' : x # t => tasks'[x] = tasks[x]
        /\ tasks[t] = 1 => t \notin InFlight'
    BY <1>7, EndedBag
  <2> QED  BY <1>0, <1>7, <2>1, TasksMove
<1>8. ASSUME NEW t \in InFlight, LoginAnswered(t) \/ MeAnswered(t) \/ LogoutAnswered(t) \/ SignFails(t)
      PROVE  IsABag(tasks)' /\ FlowInv'
  <2>1. Ended(t) /\ UNCHANGED <<flows, states, logins>>
    BY <1>8 DEF LoginAnswered, MeAnswered, LogoutAnswered, SignFails
  <2> QED  BY <1>7, <2>1
<1>9. ASSUME NEW t \in InFlight, CallbackAnswered(t) PROVE IsABag(tasks)' /\ FlowInv'
  <2> DEFINE u == SignTask("me", "asked", t.tab, cookies')
  <2>1. GoesOn(t, u) /\ UNCHANGED <<flows, states, logins>>
    BY <1>9 DEF CallbackAnswered
  <2>2. SignShape(u) /\ ~Granting(u) /\ u.kind # "login"
    BY <1>0 DEF SignShape, Granting
  <2> HIDE DEF u
  <2> QED  BY <1>6, <2>1, <2>2
<1>10. ASSUME NEW t \in InFlight, Identified(t) PROVE IsABag(tasks)' /\ FlowInv'
  <2> DEFINE data == [user |-> Resolved(t.data)]
             u == [t EXCEPT !.step = "served", !.data = data]
  <2>1. t.kind = "me" /\ GoesOn(t, u) /\ UNCHANGED <<flows, states, logins>>
    BY <1>10 DEF Identified, signVars
  <2> HIDE DEF data
  <2>2. u = SignTask(t.kind, "served", t.tab, data)
    BY <1>0, SignExcept
  <2> HIDE DEF u
  <2>3. SignShape(u) /\ ~Granting(u) /\ u.kind # "login"
    BY <1>0, <2>1, <2>2 DEF SignShape, Granting
  <2> QED  BY <1>6, <2>1, <2>3
<1>11. ASSUME NEW f, Forget(f) PROVE IsABag(tasks)' /\ FlowInv'
  <2>1. states' = states \ {f} /\ UNCHANGED <<logins, flows, tasks>>
    BY <1>11 DEF Forget
  <2>2. FlowRows'
    BY <2>1 DEF FlowInv, FlowRows, OneSessionPerFlow
  <2>3. FlowTasks' /\ GrantOnce'
    BY <2>1 DEF FlowInv, FlowTasks, GrantOnce, InFlight
  <2> QED  BY <2>1, <2>2, <2>3 DEF FlowInv
<1>12. ASSUME NEW k, Expire(k) PROVE IsABag(tasks)' /\ FlowInv'
  <2>1. logins' = Revoked(k) /\ UNCHANGED <<flows, states, tasks>>
    BY <1>12 DEF Expire
  <2>2. /\ FlowRows' /\ DOMAIN logins' = DOMAIN logins
        /\ \A j \in DOMAIN logins : logins'[j].flow = logins[j].flow
    BY <1>0, <2>1, RevokedRows
  <2>3. FlowTasks' /\ GrantOnce'
    BY <2>1, <2>2 DEF FlowInv, FlowTasks, GrantOnce, InFlight
  <2> QED  BY <2>1, <2>2, <2>3 DEF FlowInv
<1>13. ASSUME NEW t \in InFlight, RevokedLocal(t) \/ RevokedOidc(t) PROVE IsABag(tasks)' /\ FlowInv'
  <2>1. PICK token, step : /\ t.kind = "logout" /\ logins' = Revoked(token) /\ step # "grant"
                           /\ GoesOn(t, [t EXCEPT !.step = step]) /\ UNCHANGED <<flows, states>>
    BY <1>13 DEF RevokedLocal, RevokedOidc
  <2> DEFINE u == [t EXCEPT !.step = step]
  <2>2. u = SignTask(t.kind, step, t.tab, t.data)
    BY <1>0 DEF SignShape
  <2>3. GoesOn(t, u)
    BY <2>1
  <2> HIDE DEF u
  <2>4. SignShape(u) /\ ~Granting(u) /\ u.kind # "login"
    BY <1>0, <2>1, <2>2 DEF SignShape, Granting
  <2>5. /\ FlowRows' /\ DOMAIN logins' = DOMAIN logins
        /\ \A j \in DOMAIN logins : logins'[j].flow = logins[j].flow
    BY <1>0, <2>1, RevokedRows
  <2>6. /\ IsABag(tasks') /\ InFlight' \subseteq InFlight \cup {u}
        /\ \A x \in InFlight' : x # t /\ x # u => tasks'[x] = tasks[x]
    BY <2>3, GoesOnBag
  <2>7. FlowTasks'
    BY <1>0, <2>4, <2>6 DEF FlowTasks
  <2>8. GrantOnce'
    <3>1. \A x \in InFlight' : Granting(x) => x \in InFlight /\ tasks'[x] = tasks[x]
      BY <2>1, <2>4, <2>6 DEF Granting
    <3> QED  BY <2>1, <2>5, <3>1 DEF FlowInv, GrantOnce
  <2> QED  BY <2>5, <2>6, <2>7, <2>8 DEF FlowInv
<1>14. ASSUME NEW t \in InFlight, LoggedIn(t) PROVE IsABag(tasks)' /\ FlowInv'
  <2> DEFINE data == [user |-> t.data.user, token |-> Len(logins')]
             u == [t EXCEPT !.step = "served", !.data = data]
  <2>1. /\ t.kind = "login" /\ logins' = Append(logins, [user |-> t.data.user, flow |-> 0, live |-> TRUE])
        /\ GoesOn(t, u) /\ UNCHANGED <<flows, states>>
    BY <1>14 DEF LoggedIn
  <2>2. t.data.user \in Users /\ data.user = t.data.user
    BY <1>0, <2>1
  <2> HIDE DEF data
  <2>3. u = SignTask(t.kind, "served", t.tab, data)
    BY <1>0, SignExcept
  <2> HIDE DEF u
  <2>4. SignShape(u) /\ ~Granting(u) /\ u.data.user \in Users
    BY <1>0, <2>1, <2>2, <2>3 DEF SignShape, Granting
  <2>5. 0 \in 0 .. flows /\ 0 \notin states
    BY <1>0 DEF FlowRows
  <2>6. /\ FlowRows'
        /\ \A k \in DOMAIN logins' : logins'[k].flow = 0 \/ (k \in DOMAIN logins /\ logins'[k].flow = logins[k].flow)
    BY <1>0, <2>1, <2>2, <2>5, NewLogin
  <2>7. /\ IsABag(tasks') /\ InFlight' \subseteq InFlight \cup {u}
        /\ \A x \in InFlight' : x # t /\ x # u => tasks'[x] = tasks[x]
    BY <2>1, GoesOnBag
  <2>8. FlowTasks'
    BY <1>0, <2>4, <2>7 DEF FlowTasks
  <2>9. GrantOnce'
    <3>1. \A x \in InFlight' : Granting(x) => x \in InFlight /\ tasks'[x] = tasks[x]
      BY <2>1, <2>4, <2>7 DEF Granting
    <3>2. ASSUME NEW x \in InFlight', Granting(x), NEW k \in DOMAIN logins' PROVE logins'[k].flow # x.data.state
      BY <1>0, <2>6, <3>1, <3>2 DEF FlowInv, GrantOnce, FlowRows
    <3> QED  BY <2>1, <3>1, <3>2 DEF FlowInv, GrantOnce
  <2> QED  BY <2>6, <2>7, <2>8, <2>9 DEF FlowInv
<1>15. ASSUME NEW t \in InFlight, StateKept(t) PROVE IsABag(tasks)' /\ FlowInv'
  <2> DEFINE data == [state |-> flows']
             u == [t EXCEPT !.step = "served", !.data = data]
  <2>1. /\ t.kind = "oidc" /\ flows' = flows + 1 /\ states' = states \cup {flows'}
        /\ GoesOn(t, u) /\ logins' = logins
    BY <1>15 DEF StateKept
  <2> HIDE DEF data
  <2>2. u = SignTask(t.kind, "served", t.tab, data)
    BY <1>0, SignExcept
  <2> HIDE DEF u
  <2>3. SignShape(u) /\ ~Granting(u) /\ u.kind # "login"
    BY <1>0, <2>1, <2>2 DEF SignShape, Granting
  <2>4. /\ IsABag(tasks') /\ InFlight' \subseteq InFlight \cup {u}
        /\ \A x \in InFlight' : x # t /\ x # u => tasks'[x] = tasks[x]
    BY <2>1, GoesOnBag
  <2>5. ASSUME NEW k \in DOMAIN logins PROVE logins[k].flow \in Nat
    <3>1. logins[k] \in Login
      BY <1>0 DEF FlowRows
    <3> QED  BY <3>1 DEF Login
  <2>6. FlowRows'
    <3>1. OneSessionPerFlow' /\ logins' \in Seq(Login) /\ flows' \in Nat
      BY <1>0, <2>1 DEF FlowRows, OneSessionPerFlow
    <3>2. states' \subseteq 1 .. flows'
      <4>1. flows \in Nat /\ states \subseteq 1 .. flows
        BY <1>0 DEF FlowRows
      <4>2. flows' \in 1 .. flows' /\ \A f \in 1 .. flows : f \in 1 .. flows'
        BY <2>1, <4>1
      <4> QED  BY <2>1, <4>1, <4>2
    <3>3. \A k \in DOMAIN logins' : logins'[k].flow <= flows' /\ logins'[k].flow \notin states'
      <4>1. /\ flows \in Nat /\ states' = states \cup {flows'} /\ flows' = flows + 1 /\ logins' = logins
            /\ \A k \in DOMAIN logins : logins[k].flow <= flows /\ logins[k].flow \notin states
        BY <1>0, <2>1 DEF FlowRows
      <4> QED  BY <2>5, <4>1
    <3> QED  BY <3>1, <3>2, <3>3 DEF FlowRows
  <2>7. FlowTasks'
    BY <1>0, <2>3, <2>4 DEF FlowTasks
  <2>8. GrantOnce'
    <3>1. \A x \in InFlight' : Granting(x) => x \in InFlight /\ tasks'[x] = tasks[x]
      BY <2>1, <2>3, <2>4 DEF Granting
    <3>2. flows \in Nat
      BY <1>0 DEF FlowRows
    <3> QED  BY <2>1, <3>1, <3>2 DEF FlowInv, GrantOnce
  <2> QED  BY <2>4, <2>6, <2>7, <2>8 DEF FlowInv
<1>16. ASSUME NEW t \in InFlight, StateUsed(t) PROVE IsABag(tasks)' /\ FlowInv'
  <2> DEFINE u == [t EXCEPT !.step = "grant"]
  <2>1. /\ t.kind = "callback" /\ t.step = "asked" /\ t.data.state \in states
        /\ states' = states \ {t.data.state} /\ GoesOn(t, u) /\ UNCHANGED <<flows, logins>>
    BY <1>16 DEF StateUsed
  <2>2. u = SignTask(t.kind, "grant", t.tab, t.data)
    BY <1>0 DEF SignShape
  <2> HIDE DEF u
  <2>3. SignShape(u) /\ Granting(u) /\ u.kind # "login" /\ u.data = t.data
    BY <1>0, <2>1, <2>2 DEF SignShape, Granting
  <2>4. /\ IsABag(tasks') /\ InFlight' \subseteq InFlight \cup {u}
        /\ \A x \in InFlight' : x # t /\ x # u => tasks'[x] = tasks[x]
        /\ u \notin InFlight => tasks'[u] = 1
    BY <2>1, GoesOnBag
  <2>5. \A x \in InFlight : Granting(x) => x.data.state # t.data.state
    BY <2>1 DEF FlowInv, GrantOnce
  <2>6. u \notin InFlight
    BY <2>3, <2>5
  <2>7. FlowRows'
    BY <1>0, <2>1 DEF FlowRows, OneSessionPerFlow
  <2>8. FlowTasks'
    BY <1>0, <2>3, <2>4 DEF FlowTasks
  <2>9. GrantOnce'
    <3>1. \A x \in InFlight' : Granting(x) => x = u \/ (x \in InFlight /\ tasks'[x] = tasks[x])
      BY <2>1, <2>4 DEF Granting
    <3>2. t.data.state \in 1 .. flows /\ \A k \in DOMAIN logins : logins[k].flow # t.data.state
      BY <1>0, <2>1 DEF FlowRows
    <3>3. ASSUME NEW x \in InFlight', Granting(x)
          PROVE  /\ tasks'[x] = 1
                 /\ x.data.state \in (1 .. flows) \ states'
                 /\ \A k \in DOMAIN logins : logins[k].flow # x.data.state
                 /\ \A z \in InFlight' : Granting(z) /\ z.data.state = x.data.state => z = x
      <4>1. CASE x = u
        BY <2>1, <2>3, <2>4, <2>5, <2>6, <3>1, <3>2, <4>1
      <4>2. CASE x # u
        BY <2>1, <2>3, <2>5, <3>1, <3>3, <4>2 DEF FlowInv, GrantOnce
      <4> QED  BY <4>1, <4>2
    <3> QED  BY <2>1, <3>3 DEF GrantOnce
  <2> QED  BY <2>4, <2>7, <2>8, <2>9 DEF FlowInv
<1>17. ASSUME NEW t \in InFlight, NEW user \in Users, Granted(t, user) PROVE IsABag(tasks)' /\ FlowInv'
  <2> DEFINE data == [token |-> Len(logins')]
             u == [t EXCEPT !.step = "served", !.data = data]
             f == t.data.flow
  <2>1. /\ t.kind = "callback" /\ t.step = "grant" /\ f = t.data.state
        /\ logins' = Append(logins, [user |-> user, flow |-> f, live |-> TRUE])
        /\ GoesOn(t, u) /\ UNCHANGED <<flows, states>>
    BY <1>17 DEF Granted
  <2> HIDE DEF data
  <2>2. u = SignTask(t.kind, "served", t.tab, data)
    BY <1>0, SignExcept
  <2> HIDE DEF u
  <2>3. SignShape(u) /\ ~Granting(u) /\ u.kind # "login"
    BY <1>0, <2>1, <2>2 DEF SignShape, Granting
  <2>4. /\ tasks[t] = 1 /\ f \in (1 .. flows) \ states /\ t # u
        /\ \A k \in DOMAIN logins : logins[k].flow # f
        /\ \A x \in InFlight : Granting(x) /\ x.data.state = f => x = t
    BY <2>1, <2>3 DEF FlowInv, GrantOnce, Granting
  <2> HIDE DEF f
  <2>5. f \in 0 .. flows /\ f \notin states
    BY <1>0, <2>4 DEF FlowRows
  <2>6. /\ FlowRows'
        /\ \A k \in DOMAIN logins' : logins'[k].flow = f \/ (k \in DOMAIN logins /\ logins'[k].flow = logins[k].flow)
    BY <1>0, <2>1, <2>4, <2>5, NewLogin
  <2>7. /\ IsABag(tasks') /\ InFlight' \subseteq InFlight \cup {u} /\ t \notin InFlight'
        /\ \A x \in InFlight' : x # t /\ x # u => tasks'[x] = tasks[x]
    BY <2>1, <2>4, GoesOnBag
  <2>8. FlowTasks'
    BY <1>0, <2>3, <2>7 DEF FlowTasks
  <2>9. GrantOnce'
    <3>1. \A x \in InFlight' : Granting(x) => x \in InFlight /\ x # t /\ tasks'[x] = tasks[x]
      BY <2>3, <2>7
    <3>2. ASSUME NEW x \in InFlight', Granting(x), NEW k \in DOMAIN logins' PROVE logins'[k].flow # x.data.state
      BY <2>4, <2>6, <3>1, <3>2 DEF FlowInv, GrantOnce
    <3> QED  BY <2>1, <3>1, <3>2 DEF FlowInv, GrantOnce
  <2> QED  BY <2>6, <2>7, <2>8, <2>9 DEF FlowInv
<1> QED
  BY <1>1, <1>2, <1>3, <1>5, <1>8, <1>9, <1>10, <1>11, <1>12, <1>13, <1>14, <1>15, <1>16, <1>17 DEF SignNext

-----------------------------------------------------------------------------
(* Who a tab acts as *)

Token == 0 .. Len(logins)

\* What the tasks carry, by what they have come to.
SignData(t) ==
  /\ t.kind \in {"me", "login", "oidc", "callback", "logout"}
  /\ t.kind \in {"login", "oidc", "me"} => t.step \in {"asked", "served"}
  /\ t.kind = "login" /\ t.step = "served" =>
       t.data.token \in Token \ {0} /\ logins[t.data.token].user = t.data.user
  /\ t.kind = "oidc" /\ t.step = "served" => t.data.state \in 1 .. flows
  /\ t.kind = "callback" =>
       IF t.step = "served" THEN t.data.token \in Token \ {0} ELSE t.data.state \in 0 .. flows
  /\ t.kind = "logout" \/ (t.kind = "me" /\ t.step = "asked") => t.data.local \in Token /\ t.data.oidc \in Token
  /\ t.kind = "me" /\ t.step = "served" => t.data.user \in Users \cup {NoUser}

\* A page that loads waits for one answer, and shows nobody.
Alone(t) == tasks[t] = 1 /\ \A u \in InFlight : u.tab = t.tab => u = t

SignPages ==
  /\ cookies \in [local : Token, oidc : Token, state : 0 .. flows]
  /\ identity \in [BrowserTabs -> Users \cup {NoUser}]
  /\ place \in [BrowserTabs -> 0 .. flows]
  /\ overtaken \subseteq BrowserTabs
  /\ \A t \in InFlight : SignData(t)
  /\ \A t \in InFlight : t.tab # NoTab =>
       /\ t.kind = "callback" <=> place[t.tab] # 0
       /\ t.kind \in {"me", "callback"} => Alone(t) /\ identity[t.tab] = NoUser
  /\ \A b \in BrowserTabs : place[b] # 0 => identity[b] = NoUser

\* The sessions sent with a request are those of the cookies, or have ended.
Sent(data) ==
  \A c \in {"local", "oidc"} : data[c] = cookies[c] \/ (cookies[c] = 0 /\ ~Live(data[c]))

\* The cookies stand for whoever the answer to task t will show.
HeardTask(t) ==
  /\ t.kind = "login" => ~Live(cookies.oidc)
  /\ t.kind = "me" /\ t.step = "asked" => Sent(t.data)
  /\ t.kind = "me" /\ t.step = "served" => Resolved(cookies) \in {t.data.user, NoUser}

\* A tab that nothing has overtaken: no other tab signs in or out, and the
\* cookies stand for whoever it shows or is about to show.
Heard(b) ==
  /\ \A t \in InFlight : t.tab \in {b, NoTab} \/ t.kind = "me"
  /\ \A other \in BrowserTabs \ {b} : place[other] = 0
  /\ \A t \in InFlight : t.tab = b => HeardTask(t)
  /\ place[b] = 0 /\ ~TaskOf(b, {"me"}) => Resolved(cookies) \in {identity[b], NoUser}

ActInv == SignPages /\ \A b \in BrowserTabs \ overtaken : Heard(b)

\* Sessions are added and end; none comes back.
Grows ==
  /\ Len(logins) <= Len(logins') /\ flows <= flows'
  /\ \A k \in Token \ {0} : logins'[k].user = logins[k].user /\ (logins'[k].live => logins[k].live)

LEMMA Numbers ==
  ASSUME FlowInv
  PROVE  flows \in Nat /\ Len(logins) \in Nat /\ logins \in Seq(Login) /\ DOMAIN logins = Token \ {0}
<1>1. flows \in Nat /\ logins \in Seq(Login)
  BY DEF FlowInv, FlowRows
<1>2. Len(logins) \in Nat /\ DOMAIN logins = 1 .. Len(logins)
  BY <1>1
<1>3. 1 .. Len(logins) = Token \ {0}
  BY <1>2 DEF Token
<1> QED  BY <1>1, <1>2, <1>3

LEMMA TokensGrow ==
  ASSUME FlowInv, FlowInv', Grows
  PROVE  Token \subseteq Token' /\ 0 .. flows \subseteq 0 .. flows' /\ 1 .. flows \subseteq 1 .. flows'
<1>1. flows \in Nat /\ Len(logins) \in Nat
  BY Numbers
<1>2. flows' \in Nat /\ Len(logins') \in Nat
  BY DEF FlowInv, FlowRows
<1> QED  BY <1>1, <1>2 DEF Grows, Token

LEMMA SameGrows ==
  ASSUME FlowInv, UNCHANGED <<logins, flows>>
  PROVE  Grows
BY Numbers DEF Grows

LEMMA AppendGrows ==
  ASSUME FlowInv, NEW e, logins' = Append(logins, e), flows' = flows
  PROVE  Grows /\ Len(logins') = Len(logins) + 1 /\ logins'[Len(logins')] = e
         /\ \A k \in Token \ {0} : logins'[k] = logins[k]
<1>1. flows \in Nat /\ Len(logins) \in Nat /\ logins \in Seq(Login)
  BY Numbers
<1>2. Len(logins') = Len(logins) + 1 /\ logins'[Len(logins) + 1] = e
      /\ \A k \in 1 .. Len(logins) : logins'[k] = logins[k]
  BY <1>1
<1> QED  BY <1>1, <1>2 DEF Grows, Token

LEMMA RevokedGrows ==
  ASSUME FlowInv, FlowInv', NEW token, logins' = Revoked(token), flows' = flows
  PROVE  Grows /\ Len(logins') = Len(logins)
         /\ (token \in Token \ {0} => ~logins'[token].live)
<1>1. /\ flows \in Nat /\ Len(logins) \in Nat /\ logins \in Seq(Login)
      /\ DOMAIN logins = Token \ {0}
  BY Numbers
<1>2. DOMAIN logins' = DOMAIN logins
  BY DEF Revoked
<1>3. Len(logins') = Len(logins)
  <2>1. Len(logins') \in Nat /\ DOMAIN logins' = 1 .. Len(logins') /\ DOMAIN logins = 1 .. Len(logins)
    <3>1. logins' \in Seq(Login)
      BY DEF FlowInv, FlowRows
    <3> QED  BY <1>1, <3>1
  <2> QED  BY <1>1, <1>2, <2>1
<1>4. ASSUME NEW k \in Token \ {0}
      PROVE  /\ logins'[k].user = logins[k].user /\ (logins'[k].live => logins[k].live)
             /\ (k = token => ~logins'[k].live)
  <2>1. logins[k] \in Login
    BY <1>1
  <2>2. [logins[k] EXCEPT !.live = FALSE].user = logins[k].user /\ [logins[k] EXCEPT !.live = FALSE].live = FALSE
    BY <2>1 DEF Login
  <2> QED  BY <1>1, <2>2 DEF Revoked
<1> QED  BY <1>1, <1>3, <1>4 DEF Grows

\* A session that has ended has ended.
LEMMA DeadStays ==
  ASSUME Grows, NEW k \in Token, ~Live(k) PROVE ~Live(k)'
BY DEF Grows, Live

\* What a task carries stays true.
LEMMA DataKeeps ==
  ASSUME FlowInv, FlowInv', Grows, NEW t, SignData(t)
  PROVE  SignData(t)'
<1>1. Token \subseteq Token' /\ 0 .. flows \subseteq 0 .. flows' /\ 1 .. flows \subseteq 1 .. flows'
  BY TokensGrow
<1> QED  BY <1>1 DEF SignData, Grows

LEMMA UnheardData ==
  ASSUME NEW t, SignData(t)
  PROVE  SignData(Unheard(t)) /\ Unheard(t).tab = NoTab /\ Unheard(t).kind = t.kind
BY DEF SignData, Unheard

SignTabs ==
  /\ cookies \in [local : Token, oidc : Token, state : 0 .. flows]
  /\ identity \in [BrowserTabs -> Users \cup {NoUser}]
  /\ place \in [BrowserTabs -> 0 .. flows]
  /\ overtaken \subseteq BrowserTabs

\* A step of tab b leaves the pages of the other tabs alone.
LEMMA OtherPages ==
  ASSUME FlowInv, FlowInv', SignPages, NEW b, SignTabs',
         \A x \in InFlight' : SignData(x)',
         \A x \in InFlight' : x.tab \notin {b, NoTab} =>
           x \in InFlight /\ (x.kind \in {"me", "callback"} => tasks'[x] = tasks[x]),
         \A x \in InFlight' : x.tab = b /\ b # NoTab =>
           /\ x.kind = "callback" <=> place'[b] # 0
           /\ x.kind \in {"me", "callback"} =>
                tasks'[x] = 1 /\ identity'[b] = NoUser /\ \A u \in InFlight' : u.tab = b => u = x,
         \A c \in BrowserTabs : c # b => place'[c] = place[c] /\ identity'[c] = identity[c],
         b \in BrowserTabs => (place'[b] # 0 => identity'[b] = NoUser)
  PROVE  SignPages'
<1>1. \A x \in InFlight' : x.tab \in BrowserTabs \cup {NoTab}
  BY DEF FlowInv, FlowTasks, SignShape
<1>2. ASSUME NEW x \in InFlight', x.tab # NoTab
      PROVE  /\ x.kind = "callback" <=> place'[x.tab] # 0
             /\ x.kind \in {"me", "callback"} =>
                  /\ identity'[x.tab] = NoUser /\ tasks'[x] = 1
                  /\ \A u \in InFlight' : u.tab = x.tab => u = x
  <2>1. CASE x.tab = b
    BY <1>2, <2>1
  <2>2. CASE x.tab # b
    <3>1. x \in InFlight /\ place'[x.tab] = place[x.tab] /\ identity'[x.tab] = identity[x.tab]
      BY <1>1, <1>2, <2>2
    <3>2. /\ x.kind = "callback" <=> place[x.tab] # 0
          /\ x.kind \in {"me", "callback"} => Alone(x) /\ identity[x.tab] = NoUser
      BY <1>2, <3>1 DEF SignPages
    <3>3. ASSUME x.kind \in {"me", "callback"}, NEW u \in InFlight', u.tab = x.tab PROVE u = x
      BY <1>2, <2>2, <3>2, <3>3 DEF Alone
    <3> QED  BY <1>2, <2>2, <3>1, <3>2, <3>3 DEF Alone
  <2> QED  BY <2>1, <2>2
<1>3. \A c \in BrowserTabs : place'[c] # 0 => identity'[c] = NoUser
  BY DEF SignPages
<1> QED  BY <1>2, <1>3 DEF SignPages, SignTabs, Alone

\* What tab c has heard of stays so while it does nothing but be answered.
LEMMA HeardKept ==
  ASSUME Grows, SignPages, NEW c \in BrowserTabs, Heard(c),
         \A x \in InFlight' : x.tab \in {c, NoTab} \/ x.kind = "me",
         \A x \in InFlight' : x.tab = c => x \in InFlight \/ HeardTask(x)',
         TaskOf(c, {"me"}) => TaskOf(c, {"me"})',
         \A other \in BrowserTabs : place'[other] = place[other],
         identity'[c] = identity[c],
         \A k \in {"local", "oidc"} :
           cookies'[k] = cookies[k] \/ (cookies'[k] = 0 /\ ~logins'[cookies[k]].live),
         Resolved(cookies)' \in {Resolved(cookies), NoUser}
  PROVE  Heard(c)'
<1>1. /\ cookies.local \in Token /\ cookies.oidc \in Token
      /\ \A t \in InFlight : t.kind = "me" /\ t.step = "asked" => t.data.local \in Token /\ t.data.oidc \in Token
  BY DEF SignPages, SignData
<1>2. ~Live(0)'
  BY DEF Live
<1>3. ~Live(cookies.oidc) => ~Live(cookies.oidc)'
  BY <1>1 DEF Grows, Live
<1>4. ASSUME NEW t \in InFlight, t.kind = "me", t.step = "asked", Sent(t.data) PROVE Sent(t.data)'
  <2>1. ASSUME NEW k \in {"local", "oidc"}
        PROVE  t.data[k] = cookies'[k] \/ (cookies'[k] = 0 /\ ~Live(t.data[k])')
    <3>1. t.data[k] \in Token
      BY <1>1, <1>4
    <3>2. CASE t.data[k] = cookies[k]
      BY <3>2 DEF Live
    <3>3. CASE cookies[k] = 0 /\ ~Live(t.data[k])
      BY <3>1, <3>3 DEF Grows, Live
    <3> QED  BY <1>4, <3>2, <3>3 DEF Sent
  <2> QED  BY <2>1 DEF Sent
<1>5. ASSUME NEW t \in InFlight', t.tab = c PROVE HeardTask(t)'
  <2>1. CASE t \in InFlight
    <3>1. HeardTask(t)
      BY <1>5, <2>1 DEF Heard
    <3> QED  BY <1>3, <1>4, <2>1, <3>1 DEF HeardTask
  <2> QED  BY <1>5, <2>1
<1>6. place'[c] = 0 /\ ~TaskOf(c, {"me"})' => Resolved(cookies)' \in {identity'[c], NoUser}
  BY DEF Heard
<1>7. \A other \in BrowserTabs \ {c} : place'[other] = 0
  BY DEF Heard
<1> QED  BY <1>5, <1>6, <1>7 DEF Heard

LEMMA ResolvedSame ==
  ASSUME SignPages, cookies' = cookies, \A k \in Token \ {0} : logins'[k] = logins[k]
  PROVE  Resolved(cookies)' = Resolved(cookies)
BY DEF SignPages, Resolved, Live

\* Whoever signs in or out has overtaken the other tabs.
LEMMA OneSigns ==
  ASSUME NEW t \in InFlight, t.kind # "me", t.tab # NoTab, NEW c, Heard(c)
  PROVE  c = t.tab
BY DEF Heard

LEMMA TabsKeep ==
  ASSUME FlowInv, FlowInv', Grows, SignPages
  PROVE  /\ cookies \in [local : Token', oidc : Token', state : 0 .. flows']
         /\ place \in [BrowserTabs -> 0 .. flows']
<1>1. Token \subseteq Token' /\ 0 .. flows \subseteq 0 .. flows'
  BY TokensGrow
<1> QED  BY <1>1 DEF SignPages

\* A task goes on in the API, and no cookie, page or place changes.
LEMMA ServeStep ==
  ASSUME IsABag(tasks), FlowInv, FlowInv', ActInv, Grows,
         NEW t \in InFlight, NEW u, GoesOn(t, u), u.tab = t.tab, u.kind = t.kind, u # t, SignData(u)',
         UNCHANGED <<cookies, identity, place>>,
         overtaken \subseteq overtaken', overtaken' \subseteq BrowserTabs,
         overtaken' # BrowserTabs => Resolved(cookies)' \in {Resolved(cookies), NoUser},
         t.tab \notin overtaken' => HeardTask(u)' \/ t.tab = NoTab
  PROVE  ActInv'
<1>1. /\ InFlight' \subseteq InFlight \cup {u} /\ (InFlight \ {t}) \cup {u} \subseteq InFlight'
      /\ \A x \in InFlight' : x # t /\ x # u => tasks'[x] = tasks[x]
      /\ tasks[t] = 1 => t \notin InFlight'
      /\ u \notin InFlight => tasks'[u] = 1
  BY GoesOnBag
<1>2. SignPages
  BY DEF ActInv
<1>3. SignTabs'
  BY <1>2, TabsKeep DEF SignTabs, SignPages
<1>4. \A x \in InFlight' : SignData(x)'
  BY <1>1, <1>2, DataKeeps DEF SignPages
<1>5. SignPages'
  <2>1. t.tab # NoTab =>
          /\ t.kind = "callback" <=> place[t.tab] # 0
          /\ t.kind \in {"me", "callback"} => Alone(t) /\ identity[t.tab] = NoUser
    BY <1>2 DEF SignPages
  <2>2. ASSUME NEW x \in InFlight', x.tab = t.tab, t.tab # NoTab
        PROVE  /\ x.kind = "callback" <=> place'[t.tab] # 0
               /\ x.kind \in {"me", "callback"} =>
                    tasks'[x] = 1 /\ identity'[t.tab] = NoUser /\ \A v \in InFlight' : v.tab = t.tab => v = x
    <3>1. x.kind = "callback" <=> place'[t.tab] # 0
      BY <1>1, <1>2, <2>1, <2>2 DEF SignPages
    <3>2. ASSUME x.kind \in {"me", "callback"}
          PROVE  tasks'[x] = 1 /\ identity'[t.tab] = NoUser /\ \A v \in InFlight' : v.tab = t.tab => v = x
      <4>1. t.kind \in {"me", "callback"}
        BY <1>1, <1>2, <2>2, <3>2 DEF SignPages, Alone
      <4>2. /\ tasks[t] = 1 /\ identity[t.tab] = NoUser
            /\ \A v \in InFlight : v.tab = t.tab => v = t
        BY <2>1, <2>2, <4>1 DEF Alone
      <4>3. u \notin InFlight /\ t \notin InFlight'
        BY <1>1, <4>2
      <4> QED  BY <1>1, <2>2, <4>2, <4>3
    <3> QED  BY <3>1, <3>2
  <2>3. \A x \in InFlight' : x.tab \notin {t.tab, NoTab} =>
           x \in InFlight /\ (x.kind \in {"me", "callback"} => tasks'[x] = tasks[x])
    BY <1>1
  <2>4. \A b \in BrowserTabs : place'[b] # 0 => identity'[b] = NoUser
    BY <1>2 DEF SignPages
  <2> QED  BY <1>2, <1>3, <1>4, <2>2, <2>3, <2>4, OtherPages
<1>6. ASSUME NEW c \in BrowserTabs \ overtaken' PROVE Heard(c)'
  <2>1. Heard(c) /\ c \notin overtaken'
    BY <1>6 DEF ActInv
  <2>2. \A x \in InFlight' : x.tab \in {c, NoTab} \/ x.kind = "me"
    BY <1>1, <2>1 DEF Heard
  <2>3. \A x \in InFlight' : x.tab = c => x \in InFlight \/ HeardTask(x)'
    BY <1>1, <1>6, SignInAssumption
  <2>4. TaskOf(c, {"me"}) => TaskOf(c, {"me"})'
    BY <1>1 DEF TaskOf
  <2>5. Resolved(cookies)' \in {Resolved(cookies), NoUser}
    BY <1>6
  <2> QED  BY <1>2, <2>1, <2>2, <2>3, <2>4, <2>5, HeardKept
<1> QED  BY <1>5, <1>6 DEF ActInv

\* What a task in flight is like.
LEMMA InShape ==
  ASSUME FlowInv, ActInv, NEW t \in InFlight
  PROVE  /\ SignShape(t) /\ SignData(t)
         /\ t.tab \in BrowserTabs \cup {NoTab}
         /\ t.kind = "login" => t.data.user \in Users
         /\ t.tab \in BrowserTabs \ overtaken => Heard(t.tab) /\ HeardTask(t)
<1>1. SignShape(t) /\ SignData(t) /\ (t.kind = "login" => t.data.user \in Users)
  BY DEF FlowInv, FlowTasks, ActInv, SignPages
<1>2. t.tab \in BrowserTabs \cup {NoTab}
  BY <1>1 DEF SignShape
<1>3. t.tab \in BrowserTabs \ overtaken => Heard(t.tab) /\ HeardTask(t)
  BY DEF ActInv, Heard
<1> QED  BY <1>1, <1>2, <1>3

LEMMA LoggedInStep ==
  ASSUME IsABag(tasks), FlowInv, FlowInv', ActInv, NEW t \in InFlight, LoggedIn(t)
  PROVE  ActInv'
<1> DEFINE e == [user |-> t.data.user, flow |-> 0, live |-> TRUE]
<1>0. PICK data, u : data = [user |-> t.data.user, token |-> Len(logins')] /\ u = [t EXCEPT !.step = "served", !.data = data]
  OBVIOUS
<1>1. /\ t.kind = "login" /\ t.step = "asked" /\ logins' = Append(logins, e)
      /\ GoesOn(t, u) /\ UNCHANGED <<flows, cookies, identity, place, overtaken>>
  BY <1>0 DEF LoggedIn
<1>2. data.user = t.data.user /\ data.token = Len(logins') /\ e.user = t.data.user
  BY <1>0
<1>3. SignPages /\ SignShape(t) /\ t.tab \in BrowserTabs \cup {NoTab}
      /\ (t.tab \in BrowserTabs \ overtaken => HeardTask(t))
  BY InShape DEF ActInv
<1> HIDE DEF e
<1>4. u = SignTask(t.kind, "served", t.tab, data)
  BY <1>0, <1>3, SignExcept
<1>5. u.kind = t.kind /\ u.tab = t.tab /\ u.step = "served" /\ u.data = data /\ u # t
  BY <1>1, <1>4
<1>6. Grows /\ Len(logins') = Len(logins) + 1 /\ logins'[Len(logins')] = e
      /\ \A k \in Token \ {0} : logins'[k] = logins[k]
  BY <1>1, AppendGrows
<1>7. Len(logins) \in Nat
  BY Numbers
<1>8. SignData(u)'
  BY <1>1, <1>2, <1>5, <1>6, <1>7 DEF SignData, Token
<1>9. Resolved(cookies)' = Resolved(cookies)
  BY <1>1, <1>3, <1>6, ResolvedSame
<1>10. t.tab \in BrowserTabs \ overtaken => HeardTask(u)'
  <2>1. cookies.oidc \in Token
    BY <1>3 DEF SignPages
  <2> QED  BY <1>1, <1>3, <1>5, <1>6, <2>1 DEF HeardTask, Grows, Live
<1>11. overtaken \subseteq overtaken' /\ overtaken' \subseteq BrowserTabs
  BY <1>1, <1>3 DEF SignPages
<1> QED  BY <1>1, <1>3, <1>5, <1>6, <1>8, <1>9, <1>10, <1>11, ServeStep

LEMMA StateKeptStep ==
  ASSUME IsABag(tasks), FlowInv, FlowInv', ActInv, NEW t \in InFlight, StateKept(t)
  PROVE  ActInv'
<1>0. PICK data, u : data = [state |-> flows'] /\ u = [t EXCEPT !.step = "served", !.data = data]
  OBVIOUS
<1>1. /\ t.kind = "oidc" /\ t.step = "asked" /\ flows' = flows + 1
      /\ GoesOn(t, u) /\ UNCHANGED <<logins, cookies, identity, place, overtaken>>
  BY <1>0 DEF StateKept
<1>2. data.state = flows'
  BY <1>0
<1>3. SignPages /\ SignShape(t)
  BY InShape DEF ActInv
<1>4. u = SignTask(t.kind, "served", t.tab, data)
  BY <1>0, <1>3, SignExcept
<1>5. u.kind = t.kind /\ u.tab = t.tab /\ u.step = "served" /\ u.data = data /\ u # t
  BY <1>1, <1>4
<1>6. flows \in Nat
  BY Numbers
<1>7. Grows
  BY <1>1, <1>6, Numbers DEF Grows
<1>8. SignData(u)'
  BY <1>1, <1>2, <1>5, <1>6 DEF SignData
<1>9. Resolved(cookies)' = Resolved(cookies)
  BY <1>1 DEF Resolved, Live
<1>10. HeardTask(u)'
  BY <1>1, <1>5 DEF HeardTask
<1>11. overtaken \subseteq overtaken' /\ overtaken' \subseteq BrowserTabs
  BY <1>1, <1>3 DEF SignPages
<1> QED  BY <1>1, <1>3, <1>5, <1>7, <1>8, <1>9, <1>10, <1>11, ServeStep

LEMMA StateUsedStep ==
  ASSUME IsABag(tasks), FlowInv, FlowInv', ActInv, NEW t \in InFlight, StateUsed(t)
  PROVE  ActInv'
<1> DEFINE u == [t EXCEPT !.step = "grant"]
<1>1. /\ t.kind = "callback" /\ t.step = "asked"
      /\ GoesOn(t, u) /\ UNCHANGED <<logins, flows, cookies, identity, place, overtaken>>
  BY DEF StateUsed
<1>2. SignPages /\ SignShape(t) /\ SignData(t)
  BY InShape DEF ActInv
<1>3. u = SignTask("callback", "grant", t.tab, t.data)
  BY <1>1, <1>2 DEF SignShape
<1> HIDE DEF u
<1>4. u.kind = t.kind /\ u.tab = t.tab /\ u.step = "grant" /\ u.data = t.data /\ u # t
  BY <1>1, <1>3
<1>5. Grows
  BY <1>1, SameGrows
<1>6. SignData(u)'
  BY <1>1, <1>2, <1>4 DEF SignData
<1>7. Resolved(cookies)' = Resolved(cookies)
  BY <1>1 DEF Resolved, Live
<1>8. HeardTask(u)'
  BY <1>1, <1>4 DEF HeardTask
<1>9. overtaken \subseteq overtaken' /\ overtaken' \subseteq BrowserTabs
  BY <1>1, <1>2 DEF SignPages
<1> QED  BY <1>1, <1>4, <1>5, <1>6, <1>7, <1>8, <1>9, ServeStep

LEMMA GrantedStep ==
  ASSUME IsABag(tasks), FlowInv, FlowInv', ActInv, NEW t \in InFlight, NEW user \in Users, Granted(t, user)
  PROVE  ActInv'
<1> DEFINE e == [user |-> user, flow |-> t.data.flow, live |-> TRUE]
<1>0. PICK data, u : data = [token |-> Len(logins')] /\ u = [t EXCEPT !.step = "served", !.data = data]
  OBVIOUS
<1>1. /\ t.kind = "callback" /\ t.step = "grant" /\ logins' = Append(logins, e)
      /\ GoesOn(t, u) /\ UNCHANGED <<flows, cookies, identity, place, overtaken>>
  BY <1>0 DEF Granted
<1>2. data.token = Len(logins')
  BY <1>0
<1>3. SignPages /\ SignShape(t)
  BY InShape DEF ActInv
<1> HIDE DEF e
<1>4. u = SignTask(t.kind, "served", t.tab, data)
  BY <1>0, <1>3, SignExcept
<1>5. u.kind = t.kind /\ u.tab = t.tab /\ u.step = "served" /\ u.data = data /\ u # t
  BY <1>1, <1>4
<1>6. Grows /\ Len(logins') = Len(logins) + 1 /\ \A k \in Token \ {0} : logins'[k] = logins[k]
  BY <1>1, AppendGrows
<1>7. Len(logins) \in Nat
  BY Numbers
<1>8. SignData(u)'
  BY <1>1, <1>2, <1>5, <1>6, <1>7 DEF SignData, Token
<1>9. Resolved(cookies)' = Resolved(cookies)
  BY <1>1, <1>3, <1>6, ResolvedSame
<1>10. HeardTask(u)'
  BY <1>1, <1>5 DEF HeardTask
<1>11. overtaken \subseteq overtaken' /\ overtaken' \subseteq BrowserTabs
  BY <1>1, <1>3 DEF SignPages
<1> QED  BY <1>1, <1>5, <1>6, <1>8, <1>9, <1>10, <1>11, ServeStep

\* Who the cookies stand for is one of the users.
LEMMA ResolvedUser ==
  ASSUME FlowInv, NEW sent, sent.local \in Token, sent.oidc \in Token
  PROVE  /\ Resolved(sent) \in Users \cup {NoUser}
         /\ Resolved(sent) = NoUser => ~Live(sent.oidc)
<1>1. logins \in Seq(Login) /\ DOMAIN logins = Token \ {0} /\ Len(logins) \in Nat
  BY Numbers
<1>2. ASSUME NEW k \in Token \ {0} PROVE logins[k].user \in Users
  <2>1. k \in 1 .. Len(logins)
    BY <1>1 DEF Token
  <2>2. logins[k] \in Login
    BY <1>1, <2>1
  <2> QED  BY <2>2 DEF Login
<1>3. Live(sent.oidc) => sent.oidc \in Token \ {0}
  BY DEF Live
<1>4. Live(sent.local) => sent.local \in Token \ {0}
  BY DEF Live
<1> QED  BY <1>2, <1>3, <1>4, SignInAssumption DEF Resolved

LEMMA IdentifiedStep ==
  ASSUME IsABag(tasks), FlowInv, FlowInv', ActInv, NEW t \in InFlight, Identified(t)
  PROVE  ActInv'
<1>0. PICK data, u : data = [user |-> Resolved(t.data)] /\ u = [t EXCEPT !.step = "served", !.data = data]
  OBVIOUS
<1>1. /\ t.kind = "me" /\ t.step = "asked"
      /\ GoesOn(t, u) /\ UNCHANGED <<logins, flows, cookies, identity, place, overtaken>>
  BY <1>0 DEF Identified, signVars
<1>2. data.user = Resolved(t.data)
  BY <1>0
<1>3. SignPages /\ SignShape(t) /\ SignData(t) /\ t.tab \in BrowserTabs \cup {NoTab}
      /\ (t.tab \in BrowserTabs \ overtaken => HeardTask(t))
  BY InShape DEF ActInv
<1>4. u = SignTask(t.kind, "served", t.tab, data)
  BY <1>0, <1>3, SignExcept
<1>5. u.kind = t.kind /\ u.tab = t.tab /\ u.step = "served" /\ u.data = data /\ u # t
  BY <1>1, <1>4
<1>6. Grows
  BY <1>1, SameGrows
<1>7. SignData(u)'
  <2>1. t.data.local \in Token /\ t.data.oidc \in Token
    BY <1>1, <1>3 DEF SignData
  <2>2. Resolved(t.data) \in Users \cup {NoUser}
    BY <2>1, ResolvedUser
  <2> QED  BY <1>1, <1>2, <1>5, <2>2 DEF SignData
<1>8. Resolved(cookies)' = Resolved(cookies)
  BY <1>1 DEF Resolved, Live
<1>9. Sent(t.data) => Resolved(t.data) = Resolved(cookies)
  <2>1. ~Live(0)
    BY DEF Live
  <2>2. Sent(t.data) => /\ t.data.local = cookies.local \/ (cookies.local = 0 /\ ~Live(t.data.local))
                        /\ t.data.oidc = cookies.oidc \/ (cookies.oidc = 0 /\ ~Live(t.data.oidc))
    BY DEF Sent
  <2> QED  BY <2>1, <2>2 DEF Resolved
<1>10. t.tab \in BrowserTabs \ overtaken => HeardTask(u)'
  BY <1>1, <1>2, <1>3, <1>5, <1>8, <1>9 DEF HeardTask
<1>11. overtaken \subseteq overtaken' /\ overtaken' \subseteq BrowserTabs
  BY <1>1, <1>3 DEF SignPages
<1> QED  BY <1>1, <1>3, <1>5, <1>6, <1>7, <1>8, <1>10, <1>11, ServeStep

LEMMA RevokedStep ==
  ASSUME IsABag(tasks), FlowInv, FlowInv', ActInv, NEW t \in InFlight, RevokedLocal(t) \/ RevokedOidc(t)
  PROVE  ActInv'
<1>1. PICK token, step : /\ t.kind = "logout" /\ step # t.step /\ logins' = Revoked(token)
                         /\ GoesOn(t, [t EXCEPT !.step = step])
                         /\ UNCHANGED <<flows, cookies, identity, place>> /\ MayTakeOver
  BY DEF RevokedLocal, RevokedOidc
<1> DEFINE u == [t EXCEPT !.step = step]
<1>2. SignPages /\ SignShape(t) /\ SignData(t)
  BY InShape DEF ActInv
<1>3. u = SignTask("logout", step, t.tab, t.data) /\ GoesOn(t, u)
  BY <1>1, <1>2 DEF SignShape
<1> HIDE DEF u
<1>4. u.kind = t.kind /\ u.tab = t.tab /\ u.step = step /\ u.data = t.data /\ u # t
  BY <1>1, <1>3
<1>5. Grows
  BY <1>1, RevokedGrows
<1>6. SignData(u)'
  <2>1. Token \subseteq Token'
    BY <1>5, TokensGrow
  <2> QED  BY <1>1, <1>2, <1>4, <2>1 DEF SignData
<1>7. HeardTask(u)'
  BY <1>1, <1>4 DEF HeardTask
<1>8. /\ overtaken \subseteq overtaken' /\ overtaken' \subseteq BrowserTabs
      /\ overtaken' # BrowserTabs => Resolved(cookies)' \in {Resolved(cookies), NoUser}
  BY <1>1, <1>2 DEF SignPages, MayTakeOver
<1> QED  BY <1>1, <1>3, <1>4, <1>5, <1>6, <1>7, <1>8, ServeStep

\* A task ends: the tab that asked may show somebody else, and no other tab.
LEMMA AnswerPages ==
  ASSUME IsABag(tasks), FlowInv, FlowInv', SignPages, NEW t \in InFlight, Ended(t), SignTabs',
         UNCHANGED <<logins, flows, place>>,
         \A c \in BrowserTabs : c # t.tab \/ t.kind = "callback" => identity'[c] = identity[c]
  PROVE  SignPages' /\ (t.tab # NoTab /\ t.kind \in {"me", "callback"} =>
                          \A x \in InFlight' : x.tab # t.tab)
<1>1. InFlight' \subseteq InFlight /\ (\A x \in InFlight' : x # t => tasks'[x] = tasks[x])
      /\ (tasks[t] = 1 => t \notin InFlight')
  BY EndedBag
<1>2. \A x \in InFlight' : SignData(x)'
  BY <1>1, DataKeeps, SameGrows DEF SignPages
<1>3. ASSUME NEW x \in InFlight', x.tab # NoTab, t.tab = x.tab
      PROVE  x.kind \notin {"me", "callback"} /\ t.kind \notin {"me", "callback"}
  <2>1. ASSUME NEW z \in {x, t}, z.kind \in {"me", "callback"} PROVE FALSE
    <3>1. Alone(z) /\ z \in InFlight
      BY <1>1, <1>3, <2>1 DEF SignPages
    <3>2. x = t /\ tasks[t] = 1
      BY <1>1, <1>3, <2>1, <3>1 DEF Alone
    <3> QED  BY <1>1, <1>3, <3>2
  <2> QED  BY <2>1
<1>4. \A x \in InFlight' : x.tab \notin {t.tab, NoTab} =>
        x \in InFlight /\ (x.kind \in {"me", "callback"} => tasks'[x] = tasks[x])
  BY <1>1
<1>5. \A x \in InFlight' : x.tab = t.tab /\ t.tab # NoTab =>
        /\ x.kind = "callback" <=> place'[t.tab] # 0
        /\ x.kind \notin {"me", "callback"}
  BY <1>1, <1>3 DEF SignPages
<1>6. t.tab \in BrowserTabs => (place'[t.tab] # 0 => identity'[t.tab] = NoUser)
  <2>1. ASSUME t.tab \in BrowserTabs, place[t.tab] # 0 PROVE t.kind = "callback" /\ identity[t.tab] = NoUser
    BY <2>1, SignInAssumption DEF SignPages
  <2> QED  BY <2>1
<1>7. \A c \in BrowserTabs : c # t.tab => place'[c] = place[c] /\ identity'[c] = identity[c]
  OBVIOUS
<1>8. SignPages'
  BY <1>2, <1>4, <1>5, <1>6, <1>7, OtherPages
<1> QED  BY <1>3, <1>8

\* What another tab is answered changes nothing for a tab that has heard of everything.
LEMMA OthersAnswered ==
  ASSUME IsABag(tasks), FlowInv, SignPages, NEW t \in InFlight, Ended(t),
         UNCHANGED <<logins, flows, place, cookies>>,
         NEW c \in BrowserTabs, Heard(c), t.tab # c \/ t.kind # "me", identity'[c] = identity[c]
  PROVE  Heard(c)'
<1>1. InFlight' \subseteq InFlight /\ InFlight \ {t} \subseteq InFlight'
  BY EndedBag
<1>2. Grows
  BY SameGrows
<1>3. TaskOf(c, {"me"}) => TaskOf(c, {"me"})'
  BY <1>1 DEF TaskOf
<1>4. Resolved(cookies)' \in {Resolved(cookies), NoUser}
  BY DEF Resolved, Live
<1>5. \A x \in InFlight' : x.tab \in {c, NoTab} \/ x.kind = "me"
  BY <1>1 DEF Heard
<1> QED  BY <1>1, <1>2, <1>3, <1>4, <1>5, HeardKept

LEMMA MeAnsweredStep ==
  ASSUME IsABag(tasks), FlowInv, FlowInv', ActInv, NEW t \in InFlight, MeAnswered(t)
  PROVE  ActInv'
<1>1. /\ t.kind = "me" /\ t.step = "served" /\ t.tab # NoTab /\ Ended(t)
      /\ identity' = [identity EXCEPT ![t.tab] = t.data.user]
      /\ UNCHANGED <<cookies, logins, flows, place, overtaken>>
  BY DEF MeAnswered, ToTab
<1>2. SignPages /\ SignData(t) /\ t.tab \in BrowserTabs /\ (t.tab \notin overtaken => HeardTask(t))
  BY <1>1, InShape DEF ActInv
<1>3. t.data.user \in Users \cup {NoUser}
  BY <1>1, <1>2 DEF SignData
<1>4. SignTabs' /\ identity'[t.tab] = t.data.user /\ \A c \in BrowserTabs : c # t.tab => identity'[c] = identity[c]
  BY <1>1, <1>2, <1>3, SameGrows, TabsKeep DEF SignTabs, SignPages
<1>5. SignPages' /\ \A x \in InFlight' : x.tab # t.tab
  BY <1>1, <1>2, <1>4, AnswerPages
<1>6. ASSUME NEW c \in BrowserTabs \ overtaken' PROVE Heard(c)'
  <2>1. Heard(c)
    BY <1>1, <1>6 DEF ActInv
  <2>2. CASE c # t.tab
    BY <1>1, <1>2, <1>4, <2>1, <2>2, OthersAnswered
  <2>3. CASE c = t.tab
    <3>1. Resolved(cookies) \in {t.data.user, NoUser}
      BY <1>1, <1>2, <1>6, <2>3 DEF HeardTask
    <3>2. Resolved(cookies)' = Resolved(cookies)
      BY <1>1 DEF Resolved, Live
    <3>3. InFlight' \subseteq InFlight
      BY <1>1, EndedBag
    <3> QED  BY <1>1, <1>4, <1>5, <2>1, <2>3, <3>1, <3>2, <3>3 DEF Heard
  <2> QED  BY <2>2, <2>3
<1> QED  BY <1>5, <1>6 DEF ActInv

LEMMA LoginAnsweredStep ==
  ASSUME IsABag(tasks), FlowInv, FlowInv', ActInv, NEW t \in InFlight, LoginAnswered(t)
  PROVE  ActInv'
<1>1. /\ t.kind = "login" /\ t.step = "served" /\ t.tab # NoTab /\ Ended(t)
      /\ cookies' = [cookies EXCEPT !.local = t.data.token]
      /\ identity' = [identity EXCEPT ![t.tab] = t.data.user]
      /\ UNCHANGED <<logins, flows, place, overtaken>>
  BY DEF LoginAnswered, ToTab
<1>2. /\ SignPages /\ SignData(t) /\ t.tab \in BrowserTabs /\ t.data.user \in Users
      /\ t.tab \notin overtaken => HeardTask(t)
  BY <1>1, InShape DEF ActInv
<1>3. t.data.token \in Token \ {0} /\ logins[t.data.token].user = t.data.user
  BY <1>1, <1>2 DEF SignData
<1>4. /\ cookies' \in [local : Token, oidc : Token, state : 0 .. flows]
      /\ cookies'.local = t.data.token /\ cookies'.oidc = cookies.oidc
  BY <1>1, <1>2, <1>3 DEF SignPages
<1>5. Token' = Token
  BY <1>1 DEF Token
<1>6. SignTabs' /\ identity'[t.tab] = t.data.user /\ \A c \in BrowserTabs : c # t.tab => identity'[c] = identity[c]
  BY <1>1, <1>2, <1>4, <1>5 DEF SignTabs, SignPages
<1>7. SignPages'
  BY <1>1, <1>2, <1>6, AnswerPages
<1>8. ASSUME NEW c \in BrowserTabs \ overtaken' PROVE Heard(c)'
  <2>1. Heard(c) /\ c = t.tab
    BY <1>1, <1>8, OneSigns DEF ActInv
  <2>2. ~Live(cookies.oidc)
    BY <1>1, <1>2, <1>8, <2>1 DEF HeardTask
  <2>3. Resolved(cookies)' \in {t.data.user, NoUser}
    BY <1>1, <1>3, <1>4, <2>2 DEF Resolved, Live
  <2>4. InFlight' \subseteq InFlight
    BY <1>1, EndedBag
  <2>5. ASSUME NEW x \in InFlight', x.tab = c PROVE HeardTask(x)'
    <3>1. x.kind # "me"
      BY <1>1, <1>2, <2>1, <2>4, <2>5 DEF SignPages, Alone
    <3> QED  BY <1>1, <1>4, <2>2, <3>1 DEF HeardTask, Live
  <2> QED  BY <1>1, <1>6, <2>1, <2>3, <2>4, <2>5 DEF Heard
<1> QED  BY <1>7, <1>8 DEF ActInv

LEMMA LogoutAnsweredStep ==
  ASSUME IsABag(tasks), FlowInv, FlowInv', ActInv, NEW t \in InFlight, LogoutAnswered(t)
  PROVE  ActInv'
<1>1. /\ t.kind = "logout" /\ t.tab # NoTab /\ Ended(t)
      /\ cookies' = [cookies EXCEPT !.local = 0, !.oidc = 0]
      /\ identity' = [identity EXCEPT ![t.tab] = NoUser]
      /\ UNCHANGED <<logins, flows, place, overtaken>>
  BY DEF LogoutAnswered, ToTab
<1>2. SignPages /\ t.tab \in BrowserTabs
  BY <1>1, InShape DEF ActInv
<1>3. Len(logins) \in Nat /\ 0 \in Token
  BY Numbers DEF Token
<1>4. /\ cookies' \in [local : Token, oidc : Token, state : 0 .. flows]
      /\ cookies'.local = 0 /\ cookies'.oidc = 0
  BY <1>1, <1>2, <1>3 DEF SignPages
<1>5. Token' = Token
  BY <1>1 DEF Token
<1>6. SignTabs' /\ identity'[t.tab] = NoUser /\ \A c \in BrowserTabs : c # t.tab => identity'[c] = identity[c]
  BY <1>1, <1>2, <1>4, <1>5 DEF SignTabs, SignPages
<1>7. SignPages'
  BY <1>1, <1>2, <1>6, AnswerPages
<1>8. ASSUME NEW c \in BrowserTabs \ overtaken' PROVE Heard(c)'
  <2>1. Heard(c) /\ c = t.tab
    BY <1>1, <1>8, OneSigns DEF ActInv
  <2>2. Resolved(cookies)' = NoUser /\ ~Live(cookies.oidc)'
    BY <1>4 DEF Resolved, Live
  <2>3. InFlight' \subseteq InFlight
    BY <1>1, EndedBag
  <2>4. ASSUME NEW x \in InFlight', x.tab = c PROVE HeardTask(x)'
    <3>1. x.kind # "me"
      BY <1>1, <1>2, <2>1, <2>3, <2>4 DEF SignPages, Alone
    <3> QED  BY <2>2, <3>1 DEF HeardTask
  <2> QED  BY <1>1, <1>6, <2>1, <2>2, <2>3, <2>4 DEF Heard
<1> QED  BY <1>7, <1>8 DEF ActInv

LEMMA SignFailsStep ==
  ASSUME IsABag(tasks), FlowInv, FlowInv', ActInv, NEW t \in InFlight, SignFails(t)
  PROVE  ActInv'
<1>1. /\ overtaken' = overtaken \cup {b \in BrowserTabs : t.kind = "me" /\ t.tab = b}
      /\ Ended(t) /\ UNCHANGED <<cookies, logins, flows, identity, place>>
  BY DEF SignFails
<1>2. SignPages
  BY DEF ActInv
<1>3. SignTabs'
  BY <1>1, <1>2, SameGrows, TabsKeep DEF SignTabs, SignPages
<1>4. SignPages'
  BY <1>1, <1>2, <1>3, AnswerPages
<1>5. ASSUME NEW c \in BrowserTabs \ overtaken' PROVE Heard(c)'
  <2>1. Heard(c) /\ (t.tab # c \/ t.kind # "me")
    BY <1>1, <1>5 DEF ActInv
  <2> QED  BY <1>1, <1>2, <2>1, OthersAnswered
<1> QED  BY <1>4, <1>5 DEF ActInv

\* A tab that shows its page asks for something: it overtakes the others.
LEMMA TabAsks ==
  ASSUME IsABag(tasks), FlowInv, FlowInv', ActInv, NEW b \in BrowserTabs,
         NEW u, u.tab = b, u.kind \notin {"me", "callback"}, SignData(u), Waits(u), Overtakes(b),
         UNCHANGED <<cookies, logins, flows, identity, place>>,
         place[b] = 0, ~TaskOf(b, {"me"}),
         b \notin overtaken => HeardTask(u)
  PROVE  ActInv'
<1>1. /\ InFlight' = InFlight \cup {u} /\ \A x \in InFlight' : x # u => tasks'[x] = tasks[x]
  BY WaitsBag
<1>2. SignPages /\ Grows
  BY SameGrows DEF ActInv
<1>3. SignTabs'
  BY <1>2, TabsKeep DEF SignTabs, SignPages, Overtakes
<1>4. \A x \in InFlight' : SignData(x)'
  BY <1>1, <1>2, DataKeeps DEF SignPages
<1>5. SignPages'
  <2>1. \A x \in InFlight' : x.tab \notin {b, NoTab} =>
          x \in InFlight /\ (x.kind \in {"me", "callback"} => tasks'[x] = tasks[x])
    BY <1>1
  <2>2. ASSUME NEW x \in InFlight', x.tab = b, b # NoTab
        PROVE  (x.kind = "callback" <=> place'[b] # 0) /\ x.kind \notin {"me", "callback"}
    BY <1>1, <1>2, <2>2 DEF SignPages, TaskOf
  <2> QED  BY <1>2, <1>3, <1>4, <2>1, <2>2, OtherPages
<1>6. ASSUME NEW c \in BrowserTabs \ overtaken' PROVE Heard(c)'
  <2>1. c = b /\ b \notin overtaken /\ Heard(b)
    BY <1>6 DEF Overtakes, ActInv
  <2>2. HeardTask(u)'
    <3>1. HeardTask(u)
      BY <2>1
    <3>2. Resolved(cookies)' = Resolved(cookies) /\ (Live(cookies.oidc)' <=> Live(cookies.oidc))
      BY DEF Resolved, Live
    <3> QED  BY <3>1, <3>2 DEF HeardTask, Sent
  <2>3. \A x \in InFlight' : x.tab \in {b, NoTab} \/ x.kind = "me"
    BY <1>1, <2>1 DEF Heard
  <2>4. Resolved(cookies)' \in {Resolved(cookies), NoUser}
    BY DEF Resolved, Live
  <2> QED  BY <1>1, <1>2, <2>1, <2>2, <2>3, <2>4, HeardKept
<1> QED  BY <1>5, <1>6 DEF ActInv

LEMMA FormStep ==
  ASSUME IsABag(tasks), FlowInv, FlowInv', ActInv, NEW b \in BrowserTabs,
         StartOidcLogin(b) \/ LogOut(b) \/ \E user \in Users : SubmitForm(b, user)
  PROVE  ActInv'
<1>1. /\ Overtakes(b) /\ UNCHANGED <<cookies, logins, flows, identity, place>>
      /\ SignPages
  BY DEF StartOidcLogin, LogOut, SubmitForm, ActInv
<1>2. cookies.local \in Token /\ cookies.oidc \in Token
  BY <1>1 DEF SignPages
<1>3. ASSUME NEW kind \in {"oidc", "logout"}, NEW data, Waits(SignTask(kind, "asked", b, data)),
             kind = "logout" => data = cookies, place[b] = 0, ~TaskOf(b, {"me"})
      PROVE  ActInv'
  <2> DEFINE u == SignTask(kind, "asked", b, data)
  <2>1. u.tab = b /\ u.kind = kind /\ u.step = "asked" /\ u.data = data
    OBVIOUS
  <2>2. Waits(u)
    BY <1>3
  <2> HIDE DEF u
  <2>3. SignData(u) /\ HeardTask(u)
    BY <1>2, <1>3, <2>1 DEF SignData, HeardTask
  <2> QED  BY <1>1, <1>3, <2>1, <2>2, <2>3, TabAsks
<1>4. ASSUME LogOut(b) PROVE ActInv'
  <2>1. identity[b] # NoUser
    BY <1>4 DEF LogOut
  <2>2. place[b] = 0 /\ ~TaskOf(b, {"me"})
    BY <1>1, <2>1, SignInAssumption DEF SignPages, TaskOf
  <2> QED  BY <1>3, <1>4, <2>2 DEF LogOut
<1>5. ASSUME StartOidcLogin(b) PROVE ActInv'
  BY <1>3, <1>5 DEF StartOidcLogin, FormShown
<1>6. ASSUME NEW user \in Users, SubmitForm(b, user) PROVE ActInv'
  <2> DEFINE u == SignTask("login", "asked", b, [user |-> user])
  <2>1. u.tab = b /\ u.kind = "login" /\ u.step = "asked"
    OBVIOUS
  <2>2. Waits(u) /\ identity[b] = NoUser /\ place[b] = 0 /\ ~TaskOf(b, {"me"})
    BY <1>6 DEF SubmitForm, FormShown
  <2> HIDE DEF u
  <2>3. SignData(u)
    BY <2>1 DEF SignData
  <2>4. ASSUME b \notin overtaken PROVE HeardTask(u)
    <3>1. Heard(b)
      BY <2>4 DEF ActInv
    <3>2. Resolved(cookies) = NoUser
      BY <2>2, <3>1 DEF Heard
    <3> QED  BY <1>2, <2>1, <3>2, ResolvedUser DEF HeardTask
  <2> QED  BY <1>1, <2>1, <2>2, <2>3, <2>4, TabAsks
<1> QED  BY <1>4, <1>5, <1>6

\* What may wait once the page of tab b was left for task u.
StillThere(x, b, u) ==
  \/ x = u
  \/ x \in InFlight /\ x.tab # b
  \/ x.tab = NoTab /\ \E y \in InFlight : x = Unheard(y)

\* The page of tab b is left, and perhaps it asks for something at once.
LEMMA LeftBag ==
  ASSUME IsABag(tasks), FlowInv, NEW b \in BrowserTabs, NEW u,
         tasks' = WithoutTab(b) (+) One(u) \/ (tasks' = WithoutTab(b) (-) One(u) /\ u.tab = NoTab)
  PROVE  /\ \A x \in InFlight' : StillThere(x, b, u)
         /\ \A x \in InFlight : x.tab \notin {b, NoTab} => x \in InFlight'
         /\ \A x \in InFlight' : x.tab \notin {b, NoTab} /\ x # u => tasks'[x] = tasks[x]
         /\ tasks' = WithoutTab(b) (+) One(u) /\ u.tab = b => tasks'[u] = 1
<1> DEFINE w == WithoutTab(b)
<1>1. /\ IsABag(w)
      /\ BagToSet(w) = {x \in InFlight : x.tab # b} \cup {Unheard(t) : t \in {x \in InFlight : x.tab = b}}
      /\ \A x \in InFlight : x.tab # b /\ (\A t \in InFlight : t.tab = b => x # Unheard(t)) => w[x] = tasks[x]
  BY WithoutTabBag DEF FlowInv
<1>2. tasks' = w (+) One(u) \/ (tasks' = w (-) One(u) /\ u.tab = NoTab)
  OBVIOUS
<1>3. \A t : Unheard(t).tab = NoTab
  BY DEF Unheard
<1>4. tasks' = WithoutTab(b) (+) One(u) <=> tasks' = w (+) One(u)
  OBVIOUS
<1> HIDE DEF w
<1>5. /\ InFlight' \subseteq BagToSet(w) \cup {u} /\ BagToSet(w) \ {u} \subseteq InFlight'
      /\ \A x \in InFlight' : x # u => x \in BagToSet(w) /\ tasks'[x] = w[x]
      /\ tasks' = w (+) One(u) => u \in InFlight' /\ (u \notin BagToSet(w) => tasks'[u] = 1)
  BY <1>1, <1>2, OneBag, BagAdd, BagTake DEF InFlight
<1>6. b # NoTab
  BY SignInAssumption
<1>7. ASSUME NEW x \in InFlight'
      PROVE  x = u \/ (x \in InFlight /\ x.tab # b) \/ (x.tab = NoTab /\ \E y \in InFlight : x = Unheard(y))
  BY <1>1, <1>3, <1>5
<1>8. ASSUME NEW x \in InFlight, x.tab \notin {b, NoTab} PROVE x \in InFlight' /\ x \in BagToSet(w) /\ w[x] = tasks[x]
  BY <1>1, <1>2, <1>3, <1>5, <1>8
<1>9. ASSUME NEW x \in InFlight', x.tab \notin {b, NoTab}, x # u PROVE tasks'[x] = tasks[x]
  BY <1>5, <1>7, <1>8, <1>9
<1>10. u.tab = b => u \notin BagToSet(w)
  BY <1>1, <1>3, <1>6
<1> QED  BY <1>4, <1>5, <1>7, <1>8, <1>9, <1>10 DEF StillThere

\* What is in flight once a page was left is as it was.
LEMMA LeftData ==
  ASSUME FlowInv, FlowInv', SignPages, Grows, NEW b, NEW u,
         u \in InFlight' => SignData(u)',
         \A x \in InFlight' : StillThere(x, b, u)
  PROVE  \A x \in InFlight' : SignData(x)'
<1>1. ASSUME NEW y \in InFlight PROVE SignData(y)' /\ SignData(Unheard(y))'
  <2>1. SignData(y)
    BY DEF SignPages
  <2>2. SignData(y)' /\ SignData(Unheard(y))
    BY <2>1, UnheardData, DataKeeps
  <2> QED  BY <2>2, DataKeeps
<1> QED  BY <1>1 DEF StillThere

\* The same, for a page that goes on to ask who is signed in.
LEMMA AsksWho ==
  ASSUME FlowInv, ActInv, NEW b \in BrowserTabs, NEW u \in InFlight',
         u.tab = b, u.kind = "me", u.step = "asked", u.data = cookies',
         \A x \in InFlight' : x = u \/ x.tab = NoTab \/ (x \in InFlight /\ x.tab # b),
         \A c \in BrowserTabs : c # b => place'[c] = place[c],
         b \notin overtaken \/ ~Rivals(b)
  PROVE  Heard(b)'
<1>1. \A x \in InFlight : x.tab # b => x.tab = NoTab \/ x.kind = "me"
  <2>1. CASE ~Rivals(b)
    BY <2>1 DEF Rivals
  <2>2. CASE b \notin overtaken
    BY <2>2 DEF ActInv, Heard
  <2> QED  BY <2>1, <2>2
<1>2. \A other \in BrowserTabs \ {b} : place[other] = 0
  BY DEF ActInv, Heard, Rivals
<1>3. \A x \in InFlight' : x.tab \in {b, NoTab} \/ x.kind = "me"
  BY <1>1
<1>4. \A x \in InFlight' : x.tab = b => x = u
  BY SignInAssumption
<1>5. HeardTask(u)'
  BY DEF HeardTask, Sent
<1>6. TaskOf(b, {"me"})'
  BY DEF TaskOf
<1> QED  BY <1>2, <1>3, <1>4, <1>5, <1>6 DEF Heard

LEMMA OpenPageStep ==
  ASSUME IsABag(tasks), FlowInv, FlowInv', ActInv, NEW b \in BrowserTabs, OpenPage(b)
  PROVE  ActInv'
<1> DEFINE v == SignTask("me", "asked", b, cookies)
<1>0. PICK u : u = v
  OBVIOUS
<1>1. /\ tasks' = WithoutTab(b) (+) One(u)
      /\ identity' = [identity EXCEPT ![b] = NoUser] /\ place' = [place EXCEPT ![b] = 0]
      /\ overtaken' = (IF Rivals(b) THEN overtaken ELSE overtaken \ {b})
      /\ UNCHANGED <<cookies, logins, flows>>
  BY <1>0 DEF OpenPage
<1>2. u.tab = b /\ u.kind = "me" /\ u.step = "asked" /\ u.data = cookies
  BY <1>0
<1> HIDE DEF v
<1>3. SignPages /\ Grows
  BY <1>1, SameGrows DEF ActInv
<1>4. /\ \A x \in InFlight' : StillThere(x, b, u)
      /\ \A x \in InFlight : x.tab \notin {b, NoTab} => x \in InFlight'
      /\ \A x \in InFlight' : x.tab \notin {b, NoTab} /\ x # u => tasks'[x] = tasks[x]
      /\ tasks'[u] = 1
  BY <1>1, <1>2, LeftBag
<1>5. u \in InFlight'
  <2>1. IsABag(WithoutTab(b))
    BY WithoutTabBag DEF FlowInv
  <2> QED  BY <1>1, <2>1, OneBag, BagAdd DEF InFlight
<1>6. /\ identity'[b] = NoUser /\ place'[b] = 0
      /\ \A c \in BrowserTabs : c # b => place'[c] = place[c] /\ identity'[c] = identity[c]
  BY <1>1, <1>3 DEF SignPages
<1>7. SignTabs'
  <2>1. flows \in Nat
    BY Numbers
  <2>2. /\ cookies' \in [local : Token', oidc : Token', state : 0 .. flows']
        /\ place \in [BrowserTabs -> 0 .. flows']
    BY <1>1, <1>3, TabsKeep
  <2> QED  BY <1>1, <1>3, <2>1, <2>2 DEF SignTabs, SignPages
<1>8. \A x \in InFlight' : SignData(x)'
  <2>1. SignData(u)
    BY <1>2, <1>3 DEF SignPages, SignData
  <2>2. SignData(u)'
    BY <1>3, <2>1, DataKeeps
  <2> QED  BY <1>3, <1>4, <2>2, LeftData
<1>9. SignPages'
  <2>1. \A x \in InFlight' : x.tab \notin {b, NoTab} =>
          x \in InFlight /\ (x.kind \in {"me", "callback"} => tasks'[x] = tasks[x])
    BY <1>2, <1>4 DEF StillThere
  <2>2. \A x \in InFlight' : x.tab = b => x = u
    BY <1>4, SignInAssumption DEF StillThere
  <2> QED  BY <1>2, <1>3, <1>4, <1>6, <1>7, <1>8, <2>1, <2>2, OtherPages
<1>10. ASSUME NEW c \in BrowserTabs \ overtaken' PROVE Heard(c)'
  <2>1. CASE c = b
    <3>1. b \notin overtaken \/ ~Rivals(b)
      BY <1>1, <1>10, <2>1
    <3> QED  BY <1>1, <1>2, <1>4, <1>5, <1>6, <2>1, <3>1, AsksWho DEF StillThere
  <2>2. CASE c # b
    <3>1. Heard(c)
      BY <1>1, <1>10, <2>2 DEF ActInv
    <3>2. \A x \in InFlight' : x.tab \in {c, NoTab} \/ x.kind = "me"
      BY <1>2, <1>4, <3>1 DEF Heard, StillThere
    <3>3. \A x \in InFlight' : x.tab = c => x \in InFlight
      BY <1>2, <1>4, <2>2, SignInAssumption DEF StillThere
    <3>4. TaskOf(c, {"me"}) => TaskOf(c, {"me"})'
      BY <1>4, <2>2, SignInAssumption DEF TaskOf
    <3>5. \A other \in BrowserTabs : place'[other] = place[other]
      BY <1>6, <2>2, <3>1 DEF Heard
    <3>6. Resolved(cookies)' \in {Resolved(cookies), NoUser}
      BY <1>1 DEF Resolved, Live
    <3> QED  BY <1>1, <1>3, <1>6, <2>2, <3>1, <3>2, <3>3, <3>4, <3>5, <3>6, HeardKept
  <2> QED  BY <2>1, <2>2
<1> QED  BY <1>9, <1>10 DEF ActInv

LEMMA ReturnStep ==
  ASSUME IsABag(tasks), FlowInv, FlowInv', ActInv, NEW b \in BrowserTabs, ReturnFromProvider(b)
  PROVE  ActInv'
<1>0. PICK u : u = SignTask("callback", "asked", b, [flow |-> place[b], state |-> cookies.state])
  OBVIOUS
<1>1. /\ tasks' = WithoutTab(b) (+) One(u) /\ Overtakes(b) /\ place[b] # 0
      /\ UNCHANGED <<cookies, logins, flows, identity, place>>
  BY <1>0 DEF ReturnFromProvider
<1>2. u.tab = b /\ u.kind = "callback" /\ u.step = "asked" /\ u.data.state = cookies.state
  BY <1>0
<1>3. SignPages /\ Grows
  BY <1>1, SameGrows DEF ActInv
<1>4. /\ \A x \in InFlight' : StillThere(x, b, u)
      /\ \A x \in InFlight' : x.tab \notin {b, NoTab} /\ x # u => tasks'[x] = tasks[x]
      /\ tasks'[u] = 1
  BY <1>1, <1>2, LeftBag
<1>5. SignTabs'
  BY <1>1, <1>3, TabsKeep DEF SignTabs, SignPages, Overtakes
<1>6. \A x \in InFlight' : SignData(x)'
  <2>1. SignData(u)
    BY <1>2, <1>3 DEF SignPages, SignData
  <2>2. SignData(u)'
    BY <1>3, <2>1, DataKeeps
  <2> QED  BY <1>3, <1>4, <2>2, LeftData
<1>7. \A x \in InFlight' : x.tab = b => x = u
  BY <1>4, SignInAssumption DEF StillThere
<1>8. identity[b] = NoUser
  BY <1>1, <1>3 DEF SignPages
<1>9. SignPages'
  <2>1. \A x \in InFlight' : x.tab \notin {b, NoTab} =>
          x \in InFlight /\ (x.kind \in {"me", "callback"} => tasks'[x] = tasks[x])
    BY <1>2, <1>4 DEF StillThere
  <2> QED  BY <1>1, <1>2, <1>3, <1>4, <1>5, <1>6, <1>7, <1>8, <2>1, OtherPages
<1>10. ASSUME NEW c \in BrowserTabs \ overtaken' PROVE Heard(c)'
  <2>1. c = b /\ Heard(b)
    BY <1>1, <1>10 DEF Overtakes, ActInv
  <2>2. \A x \in InFlight' : x.tab \in {b, NoTab} \/ x.kind = "me"
    BY <1>2, <1>4, <2>1 DEF Heard, StillThere
  <2>3. HeardTask(u)'
    BY <1>2 DEF HeardTask
  <2> QED  BY <1>1, <1>7, <2>1, <2>2, <2>3 DEF Heard
<1> QED  BY <1>9, <1>10 DEF ActInv

LEMMA ProviderOpenedStep ==
  ASSUME IsABag(tasks), FlowInv, FlowInv', ActInv, NEW t \in InFlight, ProviderOpened(t)
  PROVE  ActInv'
<1>0. PICK b, u : b = t.tab /\ u = [t EXCEPT !.tab = NoTab]
  OBVIOUS
<1>1. /\ t.kind = "oidc" /\ t.step = "served" /\ t.tab # NoTab
      /\ tasks' = WithoutTab(b) (-) One(u)
      /\ cookies' = [cookies EXCEPT !.state = t.data.state]
      /\ place' = [place EXCEPT ![b] = t.data.state] /\ identity' = [identity EXCEPT ![b] = NoUser]
      /\ UNCHANGED <<logins, flows, overtaken>>
  BY <1>0 DEF ProviderOpened, ToTab
<1>2. /\ SignPages /\ Grows /\ SignShape(t) /\ b \in BrowserTabs /\ flows \in Nat
      /\ t.data.state \in 1 .. flows
  BY <1>0, <1>1, InShape, SameGrows, Numbers DEF ActInv, SignData
<1>3. u = Unheard(t) /\ u.tab = NoTab
  BY <1>0, <1>2 DEF SignShape, Unheard
<1>4. /\ \A x \in InFlight' : StillThere(x, b, u)
      /\ \A x \in InFlight' : x.tab \notin {b, NoTab} /\ x # u => tasks'[x] = tasks[x]
  BY <1>1, <1>2, <1>3, LeftBag
<1>5. /\ identity'[b] = NoUser /\ place'[b] # 0
      /\ \A c \in BrowserTabs : c # b => place'[c] = place[c] /\ identity'[c] = identity[c]
  BY <1>1, <1>2 DEF SignPages
<1>6. Token' = Token
  BY <1>1 DEF Token
<1>7. SignTabs'
  <2>1. /\ cookies \in [local : Token, oidc : Token, state : 0 .. flows]
        /\ identity \in [BrowserTabs -> Users \cup {NoUser}] /\ place \in [BrowserTabs -> 0 .. flows]
        /\ overtaken \subseteq BrowserTabs /\ t.data.state \in 0 .. flows
    BY <1>2 DEF SignPages
  <2>2. cookies' \in [local : Token, oidc : Token, state : 0 .. flows]
    BY <1>1, <2>1
  <2> QED  BY <1>1, <1>6, <2>1, <2>2 DEF SignTabs
<1>8. \A x \in InFlight' : SignData(x)'
  <2>1. SignData(u)
    BY <1>2, <1>3, UnheardData DEF SignPages
  <2>2. SignData(u)'
    BY <1>2, <2>1, DataKeeps
  <2> QED  BY <1>2, <1>4, <2>2, LeftData
<1>9. \A x \in InFlight' : x.tab # b
  BY <1>2, <1>3, <1>4, SignInAssumption DEF StillThere
<1>10. SignPages'
  <2>1. \A x \in InFlight' : x.tab \notin {b, NoTab} =>
          x \in InFlight /\ (x.kind \in {"me", "callback"} => tasks'[x] = tasks[x])
    BY <1>3, <1>4 DEF StillThere
  <2> QED  BY <1>2, <1>5, <1>7, <1>8, <1>9, <2>1, OtherPages
<1>11. ASSUME NEW c \in BrowserTabs \ overtaken' PROVE Heard(c)'
  <2>1. Heard(c) /\ c = b
    BY <1>0, <1>1, <1>11, OneSigns DEF ActInv
  <2>2. \A x \in InFlight' : x.tab = NoTab \/ x.kind = "me"
    BY <1>3, <1>4, <2>1 DEF Heard, StillThere
  <2>3. \A other \in BrowserTabs \ {c} : place'[other] = 0
    BY <1>5, <2>1 DEF Heard
  <2> QED  BY <1>5, <1>9, <2>1, <2>2, <2>3 DEF Heard
<1> QED  BY <1>10, <1>11 DEF ActInv

LEMMA CallbackAnsweredStep ==
  ASSUME IsABag(tasks), FlowInv, FlowInv', ActInv, NEW t \in InFlight, CallbackAnswered(t)
  PROVE  ActInv'
<1>0. PICK b, u : b = t.tab /\ u = SignTask("me", "asked", t.tab, cookies')
  OBVIOUS
<1>1. /\ t.kind = "callback" /\ t.step = "served" /\ t.tab # NoTab /\ GoesOn(t, u)
      /\ cookies' = [cookies EXCEPT !.oidc = t.data.token, !.state = 0]
      /\ place' = [place EXCEPT ![b] = 0]
      /\ overtaken' = (IF Rivals(b) THEN overtaken ELSE overtaken \ {b})
      /\ UNCHANGED <<logins, flows, identity>>
  BY <1>0 DEF CallbackAnswered, ToTab
<1>2. u.tab = b /\ u.kind = "me" /\ u.step = "asked" /\ u.data = cookies' /\ u # t
  BY <1>0, <1>1
<1>3. /\ SignPages /\ Grows /\ b \in BrowserTabs /\ flows \in Nat
      /\ t.data.token \in Token
  BY <1>0, <1>1, InShape, SameGrows, Numbers DEF ActInv, SignData
<1>4. Alone(t) /\ identity[b] = NoUser
  BY <1>0, <1>1, <1>3 DEF SignPages
<1>5. /\ InFlight' \subseteq InFlight \cup {u} /\ u \in InFlight' /\ t \notin InFlight'
      /\ \A x \in InFlight' : x # t /\ x # u => tasks'[x] = tasks[x]
      /\ u \notin InFlight => tasks'[u] = 1
  BY <1>1, <1>2, <1>4, GoesOnBag DEF Alone
<1>6. u \notin InFlight /\ \A x \in InFlight' : x.tab = b => x = u
  BY <1>0, <1>2, <1>4, <1>5 DEF Alone
<1>7. place'[b] = 0 /\ \A c \in BrowserTabs : c # b => place'[c] = place[c]
  BY <1>1, <1>3 DEF SignPages
<1>8. Token' = Token
  BY <1>1 DEF Token
<1>9. SignTabs'
  <2>1. /\ cookies \in [local : Token, oidc : Token, state : 0 .. flows]
        /\ place \in [BrowserTabs -> 0 .. flows] /\ overtaken \subseteq BrowserTabs /\ 0 \in 0 .. flows
    BY <1>3 DEF SignPages
  <2>2. cookies' \in [local : Token, oidc : Token, state : 0 .. flows]
    BY <1>1, <1>3, <2>1
  <2> QED  BY <1>1, <1>3, <1>8, <2>1, <2>2 DEF SignTabs, SignPages
<1>10. \A x \in InFlight' : SignData(x)'
  <2>1. SignData(u)'
    BY <1>2, <1>9 DEF SignTabs, SignData
  <2> QED  BY <1>3, <1>5, <2>1, DataKeeps DEF SignPages
<1>11. SignPages'
  <2>1. \A x \in InFlight' : x.tab \notin {b, NoTab} =>
          x \in InFlight /\ (x.kind \in {"me", "callback"} => tasks'[x] = tasks[x])
    BY <1>2, <1>5
  <2> QED  BY <1>1, <1>2, <1>3, <1>4, <1>5, <1>6, <1>7, <1>9, <1>10, <2>1, OtherPages
<1>12. ASSUME NEW c \in BrowserTabs \ overtaken' PROVE Heard(c)'
  <2>1. c = b
    <3>1. c = b \/ Heard(c)
      BY <1>1, <1>12 DEF ActInv
    <3> QED  BY <1>0, <1>1, <3>1, OneSigns
  <2>2. b \notin overtaken \/ ~Rivals(b)
    BY <1>1, <1>12, <2>1
  <2>3. \A x \in InFlight' : x = u \/ x.tab = NoTab \/ (x \in InFlight /\ x.tab # b)
    BY <1>5, <1>6
  <2> QED  BY <1>1, <1>2, <1>3, <1>5, <1>7, <2>1, <2>2, <2>3, AsksWho
<1> QED  BY <1>11, <1>12 DEF ActInv

\* No page does anything: a session ends, or the API forgets a flow.
LEMMA StillStep ==
  ASSUME FlowInv, FlowInv', ActInv, Grows, UNCHANGED <<tasks, identity, place, flows>>,
         cookies' \in [local : Token, oidc : Token, state : 0 .. flows],
         overtaken \subseteq overtaken', overtaken' \subseteq BrowserTabs,
         overtaken' # BrowserTabs => Resolved(cookies)' \in {Resolved(cookies), NoUser},
         \A k \in {"local", "oidc"} :
           cookies'[k] = cookies[k] \/ (cookies'[k] = 0 /\ ~logins'[cookies[k]].live)
  PROVE  ActInv'
<1>1. SignPages /\ InFlight' = InFlight /\ Token \subseteq Token'
  BY TokensGrow DEF ActInv, InFlight
<1>2. SignTabs'
  BY <1>1 DEF SignTabs, SignPages
<1>3. \A x \in InFlight' : SignData(x)'
  BY <1>1, DataKeeps DEF SignPages
<1>4. SignPages'
  BY <1>1, <1>2, <1>3 DEF SignPages, SignTabs, Alone
<1>5. ASSUME NEW c \in BrowserTabs \ overtaken' PROVE Heard(c)'
  <2>1. Heard(c) /\ overtaken' # BrowserTabs
    BY <1>5 DEF ActInv
  <2>2. TaskOf(c, {"me"}) => TaskOf(c, {"me"})'
    BY <1>1 DEF TaskOf
  <2>3. \A x \in InFlight' : x.tab \in {c, NoTab} \/ x.kind = "me"
    BY <1>1, <2>1 DEF Heard
  <2> QED  BY <1>1, <2>1, <2>2, <2>3, HeardKept
<1> QED  BY <1>4, <1>5 DEF ActInv

LEMMA ExpireStep ==
  ASSUME FlowInv, FlowInv', ActInv, NEW k \in DOMAIN logins, Expire(k)
  PROVE  ActInv'
<1>1. /\ logins' = Revoked(k) /\ MayTakeOver /\ UNCHANGED <<flows, identity, place, tasks>>
      /\ cookies' = [c \in DOMAIN cookies |-> IF c # "state" /\ cookies[c] = k THEN 0 ELSE cookies[c]]
  BY DEF Expire
<1>2. SignPages /\ k \in Token \ {0} /\ Len(logins) \in Nat /\ 0 \in Token
  BY Numbers DEF ActInv, Token
<1>3. Grows /\ ~logins'[k].live
  BY <1>1, <1>2, RevokedGrows
<1>4. cookies \in [local : Token, oidc : Token, state : 0 .. flows]
  BY <1>2 DEF SignPages
<1>5. PICK l, o, s : l \in Token /\ o \in Token /\ s \in 0 .. flows /\ cookies = [local |-> l, oidc |-> o, state |-> s]
  BY <1>4
<1>6. cookies' = [local |-> IF l = k THEN 0 ELSE l, oidc |-> IF o = k THEN 0 ELSE o, state |-> s]
  BY <1>1, <1>5
<1>7. /\ cookies' \in [local : Token, oidc : Token, state : 0 .. flows]
      /\ \A c \in {"local", "oidc"} :
           cookies'[c] = cookies[c] \/ (cookies'[c] = 0 /\ ~logins'[cookies[c]].live)
  BY <1>2, <1>3, <1>5, <1>6
<1>8. /\ overtaken \subseteq overtaken' /\ overtaken' \subseteq BrowserTabs
      /\ overtaken' # BrowserTabs => Resolved(cookies)' \in {Resolved(cookies), NoUser}
  BY <1>1, <1>2 DEF SignPages, MayTakeOver
<1> QED  BY <1>1, <1>3, <1>7, <1>8, StillStep

LEMMA ForgetStep ==
  ASSUME FlowInv, FlowInv', ActInv, NEW f, Forget(f)
  PROVE  ActInv'
<1>1. UNCHANGED <<cookies, logins, flows, identity, place, overtaken, tasks>>
  BY DEF Forget
<1>2. SignPages /\ Grows
  BY <1>1, SameGrows DEF ActInv
<1>3. Resolved(cookies)' = Resolved(cookies)
  BY <1>1 DEF Resolved, Live
<1>4. /\ cookies' \in [local : Token, oidc : Token, state : 0 .. flows]
      /\ overtaken \subseteq overtaken' /\ overtaken' \subseteq BrowserTabs
  BY <1>1, <1>2 DEF SignPages
<1> QED  BY <1>1, <1>2, <1>3, <1>4, StillStep

LEMMA ActStep ==
  ASSUME IsABag(tasks), FlowInv, ActInv, SignNext
  PROVE  ActInv'
<1>1. FlowInv'
  BY SignStep
<1>2. ASSUME NEW b \in BrowserTabs,
             \/ OpenPage(b) \/ StartOidcLogin(b) \/ ReturnFromProvider(b) \/ LogOut(b)
             \/ \E u \in Users : SubmitForm(b, u)
      PROVE  ActInv'
  BY <1>1, <1>2, OpenPageStep, FormStep, ReturnStep
<1>3. ASSUME NEW k \in DOMAIN logins, Expire(k) PROVE ActInv'
  BY <1>1, <1>3, ExpireStep
<1>4. ASSUME NEW f \in states, Forget(f) PROVE ActInv'
  BY <1>1, <1>4, ForgetStep
<1>5. ASSUME NEW t \in InFlight,
             \/ LoggedIn(t) \/ StateKept(t) \/ StateUsed(t) \/ Identified(t)
             \/ \E u \in Users : Granted(t, u)
             \/ RevokedLocal(t) \/ RevokedOidc(t)
      PROVE  ActInv'
  BY <1>1, <1>5, LoggedInStep, StateKeptStep, StateUsedStep, IdentifiedStep, GrantedStep, RevokedStep
<1>6. ASSUME NEW t \in InFlight,
             \/ LoginAnswered(t) \/ ProviderOpened(t) \/ CallbackAnswered(t)
             \/ MeAnswered(t) \/ LogoutAnswered(t) \/ SignFails(t)
      PROVE  ActInv'
  BY <1>1, <1>6, LoginAnsweredStep, ProviderOpenedStep, CallbackAnsweredStep, MeAnsweredStep,
     LogoutAnsweredStep, SignFailsStep
<1> QED  BY <1>2, <1>3, <1>4, <1>5, <1>6 DEF SignNext

-----------------------------------------------------------------------------
(* The connector panel *)

RowKinds == {"save", "link", "unlink"}

\* What may be typed in a form, and what of a form a row has.
Edit(e) == \A f \in DOMAIN e : f \in DOMAIN Values /\ e[f] \in Values[f]
Holds(row, e) == \A f \in DOMAIN e : e[f] = NoDescription \/ row[f] = e[f]

SettingShape ==
  /\ settings \in [Installations -> Row]
  /\ rows = << >> \/ rows \in [Installations -> Row]
  /\ editing = [i \in DOMAIN editing |-> editing[i]] /\ DOMAIN editing \subseteq DOMAIN rows
  /\ \A i \in DOMAIN editing : Edit(editing[i])
  /\ results \in [Installations -> [Places -> [check : DOMAIN Place \cup {"none"}, running : BOOLEAN]]]

SettingTaskOK(t) ==
  /\ t = SettingTask(t.kind, t.step, t.id, t.data)
  /\ t.kind \in {"list"} \cup RowKinds \cup DOMAIN Place
  /\ t.kind = "list" => t.step = "asked" \/ t.data \in [Installations -> Row]
  /\ t.kind # "list" => \E i \in DOMAIN rows : t.id = {i}
  /\ t.kind \in RowKinds => t.step = "asked" \/ t.data \in Row
  /\ t.kind \in DOMAIN Place => t.step = "asked"
  /\ t.kind = "save" /\ t.step = "asked" => Edit(t.data)
  /\ t.kind \in {"link", "unlink"} /\ t.step = "asked" => t.data \in Credentials

\* Unless two saves overlapped, the only save is of the form that is disabled,
\* whose edits it has.
SaveOnce ==
  ~overlapped => \A t \in InFlight : t.kind = "save" =>
    /\ tasks[t] = 1 /\ \A u \in InFlight : u.kind = "save" => u = t
    /\ t.id = savingId /\ t.id \subseteq DOMAIN editing
    /\ t.step = "asked" => \A i \in t.id : t.data = editing[i]
    /\ t.step # "asked" => \A i \in t.id : Holds(t.data, editing[i])

\* Unless two requests about one row overlapped, the rows shown are those
\* stored, and a list that was read still is what is stored.
StoredShown ==
  ~crossed =>
    /\ rows = << >> \/ rows = settings
    /\ \A t \in InFlight : t.kind = "list" =>
         /\ t.step # "asked" => t.data = settings
         /\ \A u \in InFlight : u.kind \notin RowKinds

CheckOf(t, i, check, p) == t.kind = check /\ check \in DOMAIN Place /\ p = Place[check] /\ t.id = {i}

\* What is disabled or shown as running has a handler that will end.
SettingsHeld ==
  /\ savingId # {} => Loading("save")
  /\ linkingId # {} => Loading("link") \/ Loading("unlink")
  /\ \A i \in Installations : \A p \in Places : results[i][p].running =>
       \E t \in InFlight : CheckOf(t, i, results[i][p].check, p)

SettingInv ==
  /\ SettingShape
  /\ \A t \in InFlight : SettingTaskOK(t)
  /\ SaveOnce
  /\ StoredShown
  /\ SettingsHeld

USE DEF SettingTask

\* A handler stays what it was while rows are shown for the same installations.
LEMMA TaskStays ==
  ASSUME NEW t, SettingTaskOK(t), DOMAIN rows \subseteq DOMAIN rows'
  PROVE  SettingTaskOK(t)'
BY DEF SettingTaskOK, RowKinds

LEMMA RefreshRowsStep ==
  ASSUME IsABag(tasks), SettingInv, RefreshRows
  PROVE  IsABag(tasks)' /\ SettingInv'
<1>1. /\ rows # << >> /\ ~Loading("list") /\ Waits(List)
      /\ crossed' = (crossed \/ \E i \in Installations : Contested(i))
      /\ UNCHANGED <<settings, rows, editing, savingId, linkingId, results, overlapped>>
  BY DEF RefreshRows
<1>2. List.kind = "list" /\ List.step = "asked" /\ SettingTaskOK(List)'
  BY DEF List, SettingTaskOK, RowKinds
<1>3. /\ IsABag(tasks') /\ InFlight' = InFlight \cup {List}
      /\ \A x \in InFlight' : x # List => tasks'[x] = tasks[x]
  BY <1>1, WaitsBag
<1>4. SettingShape'
  BY <1>1 DEF SettingShape, SettingInv
<1>5. \A t \in InFlight' : SettingTaskOK(t)'
  BY <1>1, <1>2, <1>3, TaskStays DEF SettingInv
<1>6. SaveOnce'
  BY <1>1, <1>2, <1>3 DEF SettingInv, SaveOnce
<1>7. StoredShown'
  <2> SUFFICES ASSUME ~crossed' PROVE StoredShown'
    BY DEF StoredShown
  <2>1. ~crossed /\ \A i \in Installations : ~Contested(i)
    BY <1>1
  <2>2. \A t \in InFlight : t.kind \notin RowKinds
    BY <1>1, <2>1 DEF SettingInv, SettingTaskOK, SettingShape, Contested, RowKinds
  <2> QED  BY <1>1, <1>2, <1>3, <2>1, <2>2 DEF SettingInv, StoredShown, RowKinds
<1>8. SettingsHeld'
  BY <1>1, <1>3 DEF SettingInv, SettingsHeld, Loading
<1> QED  BY <1>3, <1>4, <1>5, <1>6, <1>7, <1>8 DEF SettingInv

LEMMA TypeStep ==
  ASSUME SettingInv, NEW i \in Installations, NEW f \in DOMAIN Values, NEW x \in Values[f], Type(i, f, x)
  PROVE  SettingInv'
<1> DEFINE form == [g \in DOMAIN EditOf(i) \cup {f} |-> IF g = f THEN x ELSE editing[i][g]]
<1>1. /\ i \in DOMAIN rows /\ i \notin savingId
      /\ editing' = [j \in DOMAIN editing \cup {i} |-> IF j = i THEN form ELSE editing[j]]
      /\ UNCHANGED <<settings, rows, savingId, linkingId, results, overlapped, tasks, crossed>>
  BY DEF Type
<1>2. Edit(form)
  <2>1. i \in DOMAIN editing => EditOf(i) = editing[i]
    BY DEF EditOf
  <2>2. i \notin DOMAIN editing => EditOf(i) = << >>
    BY DEF EditOf
  <2>3. \A g \in DOMAIN EditOf(i) : g \in DOMAIN Values /\ i \in DOMAIN editing /\ editing[i][g] \in Values[g]
    BY <2>1, <2>2 DEF SettingInv, SettingShape, Edit
  <2> QED  BY <2>3 DEF Edit
<1> HIDE DEF form
<1>3. InFlight' = InFlight
  BY <1>1 DEF InFlight
<1>4. SettingShape'
  BY <1>1, <1>2 DEF SettingInv, SettingShape
<1>5. \A t \in InFlight' : SettingTaskOK(t)'
  BY <1>1, <1>3, TaskStays DEF SettingInv
<1>6. SaveOnce'
  BY <1>1, <1>3 DEF SettingInv, SaveOnce
<1>7. StoredShown' /\ SettingsHeld'
  BY <1>1, <1>3 DEF SettingInv, StoredShown, SettingsHeld, Loading
<1> QED  BY <1>4, <1>5, <1>6, <1>7 DEF SettingInv

LEMMA CancelStep ==
  ASSUME SettingInv, NEW i \in Installations, Cancel(i)
  PROVE  SettingInv'
<1>1. /\ i \notin savingId /\ editing' = [j \in DOMAIN editing \ {i} |-> editing[j]]
      /\ UNCHANGED <<settings, rows, savingId, linkingId, results, overlapped, tasks, crossed>>
  BY DEF Cancel, Dropped
<1>2. InFlight' = InFlight
  BY <1>1 DEF InFlight
<1>3. SettingShape'
  BY <1>1 DEF SettingInv, SettingShape
<1>4. \A t \in InFlight' : SettingTaskOK(t)'
  BY <1>1, <1>2, TaskStays DEF SettingInv
<1>5. SaveOnce'
  BY <1>1, <1>2 DEF SettingInv, SaveOnce
<1>6. StoredShown' /\ SettingsHeld'
  BY <1>1, <1>2 DEF SettingInv, StoredShown, SettingsHeld, Loading
<1> QED  BY <1>3, <1>4, <1>5, <1>6 DEF SettingInv

\* A request about a row is made.
LEMMA AskedStep ==
  ASSUME IsABag(tasks), SettingInv, NEW i \in Installations, NEW kind, NEW data, i \in DOMAIN rows,
         SettingTaskOK(SettingTask(kind, "asked", {i}, data)),
         Waits(SettingTask(kind, "asked", {i}, data)), kind # "list",
         ~crossed' => ~crossed /\ (kind \in RowKinds => ~Contested(i)),
         UNCHANGED <<settings, rows, editing>>
  PROVE  /\ IsABag(tasks') /\ InFlight' = InFlight \cup {SettingTask(kind, "asked", {i}, data)}
         /\ \A t \in InFlight' : t # SettingTask(kind, "asked", {i}, data) => tasks'[t] = tasks[t]
         /\ \A t \in InFlight' : SettingTaskOK(t)'
         /\ StoredShown'
<1> DEFINE u == SettingTask(kind, "asked", {i}, data)
<1>1. u.kind = kind /\ u.step = "asked" /\ u.id = {i}
  OBVIOUS
<1>2. /\ IsABag(tasks') /\ InFlight' = InFlight \cup {u}
      /\ \A t \in InFlight' : t # u => tasks'[t] = tasks[t]
  BY WaitsBag
<1>3. SettingTaskOK(u)'
  BY TaskStays
<1> HIDE DEF u
<1>4. \A t \in InFlight' : SettingTaskOK(t)'
  BY <1>2, <1>3, TaskStays DEF SettingInv
<1>5. StoredShown'
  <2> SUFFICES ASSUME ~crossed' PROVE StoredShown'
    BY DEF StoredShown
  <2>1. ~crossed /\ (kind \in RowKinds => ~Contested(i))
    OBVIOUS
  <2>3. kind \in RowKinds => \A t \in InFlight : t.kind # "list"
    BY <2>1 DEF Contested
  <2> QED  BY <1>1, <1>2, <2>1, <2>3 DEF SettingInv, StoredShown
<1> QED  BY <1>2, <1>4, <1>5 DEF u

LEMMA SaveStep ==
  ASSUME IsABag(tasks), SettingInv, NEW i \in Installations, Save(i)
  PROVE  IsABag(tasks)' /\ SettingInv'
<1> DEFINE u == SettingTask("save", "asked", {i}, editing[i])
<1>1. /\ i \in DOMAIN editing /\ savingId' = {i} /\ Waits(u)
      /\ overlapped' = (overlapped \/ Loading("save")) /\ crossed' = (crossed \/ Contested(i))
      /\ UNCHANGED <<settings, rows, editing, linkingId, results>>
  BY DEF Save
<1>2. i \in DOMAIN rows /\ SettingTaskOK(u)
  BY <1>1 DEF SettingInv, SettingShape, SettingTaskOK, RowKinds
<1>3. /\ IsABag(tasks') /\ InFlight' = InFlight \cup {u}
      /\ \A t \in InFlight' : t # u => tasks'[t] = tasks[t]
      /\ \A t \in InFlight' : SettingTaskOK(t)'
      /\ StoredShown'
  BY <1>1, <1>2, AskedStep DEF RowKinds
<1>4. u.kind = "save" /\ u.step = "asked" /\ u.id = {i} /\ u.data = editing[i]
  OBVIOUS
<1>5. u \notin InFlight => tasks'[u] = 1
  BY <1>1, WaitsBag
<1> HIDE DEF u
<1>6. SettingShape'
  BY <1>1 DEF SettingInv, SettingShape
<1>7. SaveOnce'
  <2> SUFFICES ASSUME ~overlapped' PROVE SaveOnce'
    BY DEF SaveOnce
  <2>1. \A t \in InFlight : t.kind # "save"
    BY <1>1 DEF Loading
  <2>2. u \notin InFlight
    BY <1>4, <2>1
  <2> QED  BY <1>1, <1>3, <1>4, <1>5, <2>1, <2>2 DEF SaveOnce
<1>8. SettingsHeld'
  BY <1>1, <1>3, <1>4 DEF SettingInv, SettingsHeld, Loading
<1> QED  BY <1>3, <1>6, <1>7, <1>8 DEF SettingInv

LEMMA LinkStep ==
  ASSUME IsABag(tasks), SettingInv, NEW i \in Installations, NEW c \in Credentials, Link(i, c)
  PROVE  IsABag(tasks)' /\ SettingInv'
<1> DEFINE kind == IF c \in rows[i].secrets THEN "unlink" ELSE "link"
           u == SettingTask(kind, "asked", {i}, c)
<1>1. /\ i \in DOMAIN rows /\ linkingId' = {i} /\ Waits(u) /\ crossed' = (crossed \/ Contested(i))
      /\ UNCHANGED <<settings, rows, editing, savingId, results, overlapped>>
  BY DEF Link
<1>2. kind \in {"link", "unlink"}
  OBVIOUS
<1> HIDE DEF kind
<1>3. SettingTaskOK(u)
  BY <1>1, <1>2 DEF SettingTaskOK, RowKinds
<1>4. /\ IsABag(tasks') /\ InFlight' = InFlight \cup {u}
      /\ \A t \in InFlight' : t # u => tasks'[t] = tasks[t]
      /\ \A t \in InFlight' : SettingTaskOK(t)'
      /\ StoredShown'
  BY <1>1, <1>2, <1>3, AskedStep DEF RowKinds
<1>5. u.kind = kind
  OBVIOUS
<1> HIDE DEF u
<1>6. SettingShape'
  BY <1>1 DEF SettingInv, SettingShape
<1>7. SaveOnce'
  BY <1>1, <1>2, <1>4, <1>5 DEF SettingInv, SaveOnce
<1>8. SettingsHeld'
  BY <1>1, <1>2, <1>4, <1>5 DEF SettingInv, SettingsHeld, Loading
<1> QED  BY <1>4, <1>6, <1>7, <1>8 DEF SettingInv

LEMMA CheckStep ==
  ASSUME IsABag(tasks), SettingInv, NEW i \in Installations, NEW check \in DOMAIN Place, Check(i, check)
  PROVE  IsABag(tasks)' /\ SettingInv'
<1> DEFINE u == SettingTask(check, "asked", {i}, << >>)
           r == [check |-> check, running |-> TRUE]
<1>1. /\ i \in DOMAIN rows /\ Waits(u) /\ results' = [results EXCEPT ![i][Place[check]] = r]
      /\ UNCHANGED <<settings, rows, editing, savingId, linkingId, overlapped, crossed>>
  BY DEF Check
<1>2. check \notin RowKinds \cup {"list"} /\ Place[check] \in Places
  BY DEF Place, Places, RowKinds
<1>3. SettingTaskOK(u)
  BY <1>1, <1>2 DEF SettingTaskOK, RowKinds
<1>4. /\ IsABag(tasks') /\ InFlight' = InFlight \cup {u}
      /\ \A t \in InFlight' : t # u => tasks'[t] = tasks[t]
      /\ \A t \in InFlight' : SettingTaskOK(t)'
      /\ StoredShown'
  BY <1>1, <1>2, <1>3, AskedStep
<1>5. u.kind = check /\ u.id = {i} /\ r.check = check /\ r.running = TRUE
  OBVIOUS
<1>6. r \in [check : DOMAIN Place \cup {"none"}, running : BOOLEAN]
  OBVIOUS
<1> HIDE DEF u, r
<1>7. SettingShape'
  BY <1>1, <1>2, <1>6 DEF SettingInv, SettingShape
<1>8. SaveOnce'
  BY <1>1, <1>2, <1>4, <1>5 DEF SettingInv, SaveOnce, RowKinds
<1>9. SettingsHeld'
  <2>1. \A j \in Installations : \A p \in Places :
          results'[j][p] = IF j = i /\ p = Place[check] THEN r ELSE results[j][p]
    BY <1>1 DEF SettingInv, SettingShape
  <2>2. \A j \in Installations : \A p \in Places : results'[j][p].running =>
          \E t \in InFlight' : CheckOf(t, j, results'[j][p].check, p)
    BY <1>4, <1>5, <2>1 DEF SettingInv, SettingsHeld, CheckOf
  <2> QED  BY <1>1, <1>4, <2>2 DEF SettingInv, SettingsHeld, Loading
<1> QED  BY <1>4, <1>7, <1>8, <1>9 DEF SettingInv

\* A row merged with a request's JSON is a row that has what was asked for.
LEMMA Merged ==
  ASSUME NEW row \in Row, NEW e, Edit(e)
  PROVE  MergedRow(row, e) \in Row /\ Holds(MergedRow(row, e), e)
<1> DEFINE m == MergedRow(row, e)
<1>1. row = [enabled |-> row.enabled, description |-> row.description, secrets |-> row.secrets]
  BY DEF Row
<1>2. DOMAIN row = {"enabled", "description", "secrets"}
  BY <1>1
<1>3. m = [f \in {"enabled", "description", "secrets"} |->
             IF f \in DOMAIN e /\ e[f] # NoDescription THEN e[f] ELSE row[f]]
  BY <1>2 DEF MergedRow
<1> HIDE DEF m
<1>4. DOMAIN Values = {"enabled", "description"} /\ Values.enabled = BOOLEAN
      /\ Values.description = Descriptions \cup {NoDescription}
  BY DEF Values
<1>5. row.enabled \in BOOLEAN /\ row.description \in Descriptions \cup {NoDescription}
      /\ row.secrets \in SUBSET Credentials
  BY DEF Row
<1>6. m.enabled \in BOOLEAN /\ m.description \in Descriptions \cup {NoDescription}
      /\ m.secrets \in SUBSET Credentials
  BY <1>3, <1>4, <1>5 DEF Edit
<1>7. m = [enabled |-> m.enabled, description |-> m.description, secrets |-> m.secrets]
  BY <1>3
<1>8. m \in Row
  BY <1>6, <1>7 DEF Row
<1>9. Holds(m, e)
  BY <1>3, <1>4 DEF Holds, Edit
<1> QED  BY <1>8, <1>9 DEF m

LEMMA Relinked ==
  ASSUME NEW row \in Row, NEW c \in Credentials
  PROVE  /\ [row EXCEPT !.secrets = @ \cup {c}] \in Row
         /\ [row EXCEPT !.secrets = @ \ {c}] \in Row
BY DEF Row

LEMMA SettingExcept ==
  ASSUME NEW t, t = SettingTask(t.kind, t.step, t.id, t.data), NEW step, NEW data
  PROVE  [t EXCEPT !.step = step, !.data = data] = SettingTask(t.kind, step, t.id, data)
<1> DEFINE r == [t EXCEPT !.step = step]
<1>1. r = SettingTask(t.kind, step, t.id, t.data)
  OBVIOUS
<1>2. [t EXCEPT !.step = step, !.data = data] = [r EXCEPT !.data = data]
  OBVIOUS
<1> HIDE DEF r
<1>3. [r EXCEPT !.data = data] = SettingTask(t.kind, step, t.id, data)
  BY <1>1
<1> QED  BY <1>2, <1>3

\* The service has read and merged: the handler waits for the row or the rows.
LEMMA ReadStep ==
  ASSUME IsABag(tasks), SettingInv, NEW t \in InFlight, t.step = "asked", NEW data,
         t.kind \in {"list"} \cup RowKinds,
         GoesOn(t, SettingTask(t.kind, "read", t.id, data)),
         t.kind = "list" => data = settings,
         t.kind \in RowKinds => data \in Row,
         t.kind = "save" => \A i \in t.id : Holds(data, t.data),
         UNCHANGED <<settingVars, crossed>>
  PROVE  IsABag(tasks)' /\ SettingInv'
<1> DEFINE u == SettingTask(t.kind, "read", t.id, data)
<1>1. u.kind = t.kind /\ u.step = "read" /\ u.id = t.id /\ u.data = data
  OBVIOUS
<1>2. u # t
  BY <1>1
<1>3. UNCHANGED <<settings, rows, editing, savingId, linkingId, results, overlapped, crossed>>
  BY DEF settingVars
<1>4. SettingTaskOK(u)
  <2>1. SettingTaskOK(t)
    BY DEF SettingInv
  <2> QED  BY <2>1 DEF SettingInv, SettingShape, SettingTaskOK, RowKinds, Place
<1>5. /\ IsABag(tasks')
      /\ InFlight' \subseteq InFlight \cup {u} /\ (InFlight \ {t}) \cup {u} \subseteq InFlight'
      /\ \A x \in InFlight' : x # t /\ x # u => tasks'[x] = tasks[x]
      /\ tasks[t] = 1 => t \notin InFlight'
      /\ u \notin InFlight => tasks'[u] = 1
  BY <1>2, GoesOnBag
<1> HIDE DEF u
<1>6. SettingShape'
  BY <1>3 DEF SettingInv, SettingShape
<1>7. \A x \in InFlight' : SettingTaskOK(x)'
  BY <1>3, <1>4, <1>5, TaskStays DEF SettingInv
<1>8. SaveOnce'
  <2> SUFFICES ASSUME ~overlapped PROVE SaveOnce'
    BY <1>3 DEF SaveOnce
  <2>1. CASE t.kind = "save"
    <3>1. /\ tasks[t] = 1 /\ \A x \in InFlight : x.kind = "save" => x = t
          /\ t.id = savingId /\ t.id \subseteq DOMAIN editing /\ \A i \in t.id : t.data = editing[i]
      BY <2>1 DEF SettingInv, SaveOnce
    <3>2. u \notin InFlight
      BY <1>1, <1>2, <2>1, <3>1
    <3>3. \A x \in InFlight' : x.kind = "save" => x = u
      BY <1>5, <3>1
    <3>4. \A i \in u.id : Holds(u.data, editing[i])
      BY <1>1, <2>1, <3>1
    <3> QED  BY <1>1, <1>3, <1>5, <3>1, <3>2, <3>3, <3>4 DEF SaveOnce
  <2>2. CASE t.kind # "save"
    BY <1>1, <1>3, <1>5, <2>2 DEF SettingInv, SaveOnce
  <2> QED  BY <2>1, <2>2
<1>9. StoredShown'
  BY <1>1, <1>3, <1>5 DEF SettingInv, StoredShown
<1>10. SettingsHeld'
  <2>1. \A x \in InFlight : \E y \in InFlight' : y.kind = x.kind /\ y.id = x.id
    BY <1>1, <1>5
  <2>2. \A kind : Loading(kind) => \E y \in InFlight' : y.kind = kind
    BY <2>1 DEF Loading
  <2>3. \A i \in Installations : \A p \in Places : results[i][p].running =>
          \E y \in InFlight' : CheckOf(y, i, results[i][p].check, p)
    BY <2>1 DEF SettingInv, SettingsHeld, CheckOf
  <2>4. savingId # {} => Loading("save")'
    BY <2>2 DEF SettingInv, SettingsHeld, Loading
  <2>5. linkingId # {} => Loading("link")' \/ Loading("unlink")'
    BY <2>2 DEF SettingInv, SettingsHeld, Loading
  <2> QED  BY <1>3, <2>3, <2>4, <2>5 DEF SettingsHeld
<1> QED  BY <1>5, <1>6, <1>7, <1>8, <1>9, <1>10 DEF SettingInv

LEMMA ServiceReadsStep ==
  ASSUME IsABag(tasks), SettingInv, NEW t \in InFlight, ServiceReads(t)
  PROVE  IsABag(tasks)' /\ SettingInv'
<1>1. t.step = "asked" /\ UNCHANGED <<settingVars, crossed>>
  BY DEF ServiceReads
<1>2. SettingTaskOK(t)
  BY DEF SettingInv
<1>3. CASE t.kind = "list" /\ GoesOn(t, [t EXCEPT !.step = "read", !.data = settings])
  <2>1. [t EXCEPT !.step = "read", !.data = settings] = SettingTask(t.kind, "read", t.id, settings)
    BY <1>2, SettingExcept DEF SettingTaskOK
  <2> QED  BY <1>1, <1>3, <2>1, ReadStep DEF RowKinds
<1>4. ASSUME t.kind \in RowKinds, NEW i \in t.id,
             GoesOn(t, [t EXCEPT !.step = "read", !.data =
                 CASE t.kind = "save"   -> MergedRow(settings[i], t.data)
                   [] t.kind = "link"   -> [settings[i] EXCEPT !.secrets = @ \cup {t.data}]
                   [] t.kind = "unlink" -> [settings[i] EXCEPT !.secrets = @ \ {t.data}]])
      PROVE  IsABag(tasks)' /\ SettingInv'
  <2> DEFINE data == CASE t.kind = "save"   -> MergedRow(settings[i], t.data)
                       [] t.kind = "link"   -> [settings[i] EXCEPT !.secrets = @ \cup {t.data}]
                       [] t.kind = "unlink" -> [settings[i] EXCEPT !.secrets = @ \ {t.data}]
  <2>1. settings[i] \in Row
    BY <1>2, <1>4 DEF SettingInv, SettingShape, SettingTaskOK, RowKinds
  <2>2. ASSUME t.kind = "save" PROVE data \in Row /\ Holds(data, t.data)
    <3>1. data = MergedRow(settings[i], t.data)
      BY <2>2
    <3>2. Edit(t.data)
      BY <1>1, <1>2, <2>2 DEF SettingTaskOK
    <3> QED  BY <2>1, <3>1, <3>2, Merged
  <2>3. ASSUME t.kind \in {"link", "unlink"} PROVE data \in Row
    <3>1. t.data \in Credentials
      BY <1>1, <1>2, <2>3 DEF SettingTaskOK
    <3>2. data \in {[settings[i] EXCEPT !.secrets = @ \cup {t.data}], [settings[i] EXCEPT !.secrets = @ \ {t.data}]}
      BY <2>3
    <3> QED  BY <2>1, <3>1, <3>2, Relinked
  <2>4. data \in Row /\ (t.kind = "save" => Holds(data, t.data))
    BY <1>4, <2>2, <2>3 DEF RowKinds
  <2>5. GoesOn(t, [t EXCEPT !.step = "read", !.data = data])
    BY <1>4
  <2> HIDE DEF data
  <2>6. [t EXCEPT !.step = "read", !.data = data] = SettingTask(t.kind, "read", t.id, data)
    BY <1>2, SettingExcept DEF SettingTaskOK
  <2> QED  BY <1>1, <1>4, <2>4, <2>5, <2>6, ReadStep DEF RowKinds
<1> QED  BY <1>1, <1>3, <1>4 DEF ServiceReads, RowKinds

\* A handler ends that was not the one of a flag, or clears the flag.
LEMMA HeldStays ==
  ASSUME SettingInv, NEW t, InFlight \ {t} \subseteq InFlight',
         savingId' = IF t.kind = "save" THEN {} ELSE savingId,
         linkingId' = IF t.kind \in {"link", "unlink"} THEN {} ELSE linkingId,
         \A i \in Installations : \A p \in Places : results'[i][p].running =>
           /\ results'[i][p] = results[i][p]
           /\ ~CheckOf(t, i, results[i][p].check, p)
  PROVE  SettingsHeld'
<1>1. savingId' # {} => Loading("save")'
  BY DEF SettingInv, SettingsHeld, Loading
<1>2. linkingId' # {} => Loading("link")' \/ Loading("unlink")'
  BY DEF SettingInv, SettingsHeld, Loading
<1>3. ASSUME NEW i \in Installations, NEW p \in Places, results'[i][p].running
      PROVE  \E x \in InFlight' : CheckOf(x, i, results'[i][p].check, p)
  <2>1. results'[i][p] = results[i][p]
    BY <1>3
  <2>2. PICK x \in InFlight : CheckOf(x, i, results[i][p].check, p)
    BY <1>3, <2>1 DEF SettingInv, SettingsHeld
  <2>3. x # t
    BY <1>3, <2>2
  <2> QED  BY <2>1, <2>2, <2>3
<1> QED  BY <1>1, <1>2, <1>3 DEF SettingsHeld

\* The last row of a saved form is stored and shown.
LEMMA SavedStep ==
  ASSUME IsABag(tasks), SettingInv, NEW t \in InFlight, Saved(t)
  PROVE  /\ IsABag(tasks)' /\ SettingInv'
         /\ ~overlapped =>
              \A i \in DOMAIN editing \ DOMAIN editing' : Holds(rows'[i], editing[i])
<1>1. PICK i \in t.id : /\ settings' = [settings EXCEPT ![i] = t.data]
                        /\ rows' = [rows EXCEPT ![i] = t.data]
                        /\ editing' = IF t.kind = "save" THEN [j \in DOMAIN editing \ {i} |-> editing[j]]
                                      ELSE editing
  BY DEF Saved, Dropped
<1>2. /\ t.step = "read" /\ t.kind # "list"
      /\ UNCHANGED <<results, overlapped, crossed>>
      /\ savingId' = IF t.kind = "save" THEN {} ELSE savingId
      /\ linkingId' = IF t.kind \in {"link", "unlink"} THEN {} ELSE linkingId
      /\ Ended(t)
  BY DEF Saved, Settles
<1>3. t.kind \in RowKinds /\ i \in DOMAIN rows /\ t.id = {i} /\ t.data \in Row
  BY <1>2 DEF SettingInv, SettingTaskOK, RowKinds, Place
<1>4. rows \in [Installations -> Row] /\ i \in Installations
  BY <1>3 DEF SettingInv, SettingShape
<1>5. /\ IsABag(tasks')
      /\ InFlight' \subseteq InFlight /\ InFlight \ {t} \subseteq InFlight'
      /\ \A x \in InFlight' : x # t => tasks'[x] = tasks[x]
      /\ tasks[t] = 1 => t \notin InFlight'
  BY <1>2, EndedBag
<1>6. DOMAIN rows' = DOMAIN rows
  BY <1>1
<1>7. SettingShape'
  BY <1>1, <1>2, <1>3, <1>4 DEF SettingInv, SettingShape
<1>8. \A x \in InFlight' : SettingTaskOK(x)'
  BY <1>5, <1>6, TaskStays DEF SettingInv
<1>9. SaveOnce'
  <2> SUFFICES ASSUME ~overlapped PROVE SaveOnce'
    BY <1>2 DEF SaveOnce
  <2>1. CASE t.kind = "save"
    <3>1. \A x \in InFlight' : x.kind # "save"
      BY <1>5, <2>1 DEF SettingInv, SaveOnce
    <3> QED  BY <3>1 DEF SaveOnce
  <2>2. CASE t.kind # "save"
    BY <1>1, <1>2, <1>5, <2>2 DEF SettingInv, SaveOnce
  <2> QED  BY <2>1, <2>2
<1>10. StoredShown'
  <2> SUFFICES ASSUME ~crossed PROVE StoredShown'
    BY <1>2 DEF StoredShown
  <2>1. rows # << >>
    BY <1>3
  <2>2. rows = settings /\ \A x \in InFlight : x.kind # "list"
    BY <1>3, <2>1 DEF SettingInv, StoredShown
  <2>3. rows' = settings' /\ \A x \in InFlight' : x.kind # "list"
    BY <1>1, <1>5, <2>2
  <2> QED  BY <2>3 DEF StoredShown
<1>11. t.kind \notin DOMAIN Place
  BY <1>3 DEF RowKinds, Place
<1>12. SettingsHeld'
  BY <1>2, <1>5, <1>11, HeldStays DEF CheckOf
<1>13. ASSUME ~overlapped, NEW j \in DOMAIN editing \ DOMAIN editing' PROVE Holds(rows'[j], editing[j])
  <2>1. j = i /\ t.kind = "save"
    BY <1>1, <1>13
  <2>2. Holds(t.data, editing[i])
    BY <1>2, <1>3, <1>13, <2>1 DEF SettingInv, SaveOnce
  <2>3. rows'[i] = t.data
    BY <1>1, <1>3
  <2> QED  BY <2>1, <2>2, <2>3
<1> QED  BY <1>5, <1>7, <1>8, <1>9, <1>10, <1>12, <1>13 DEF SettingInv

LEMMA RowsArriveStep ==
  ASSUME IsABag(tasks), SettingInv, NEW t \in InFlight, RowsArrive(t)
  PROVE  IsABag(tasks)' /\ SettingInv'
<1>1. /\ t.step = "read" /\ t.kind = "list" /\ rows' = t.data /\ Ended(t)
      /\ UNCHANGED <<settings, editing, savingId, linkingId, results, overlapped, crossed>>
  BY DEF RowsArrive
<1>2. t.data \in [Installations -> Row]
  BY <1>1 DEF SettingInv, SettingTaskOK
<1>3. /\ IsABag(tasks')
      /\ InFlight' \subseteq InFlight /\ InFlight \ {t} \subseteq InFlight'
      /\ \A x \in InFlight' : x # t => tasks'[x] = tasks[x]
  BY <1>1, EndedBag
<1>4. DOMAIN rows \subseteq DOMAIN rows'
  BY <1>1, <1>2 DEF SettingInv, SettingShape
<1>5. SettingShape'
  BY <1>1, <1>2, <1>4 DEF SettingInv, SettingShape
<1>6. \A x \in InFlight' : SettingTaskOK(x)'
  BY <1>3, <1>4, TaskStays DEF SettingInv
<1>7. SaveOnce'
  BY <1>1, <1>3 DEF SettingInv, SaveOnce
<1>8. StoredShown'
  BY <1>1, <1>3 DEF SettingInv, StoredShown
<1>9. t.kind \notin DOMAIN Place
  BY <1>1 DEF Place
<1>10. SettingsHeld'
  BY <1>1, <1>3, <1>9, HeldStays DEF CheckOf
<1> QED  BY <1>3, <1>5, <1>6, <1>7, <1>8, <1>10 DEF SettingInv

LEMMA CheckedStep ==
  ASSUME IsABag(tasks), SettingInv, NEW t \in InFlight, Checked(t)
  PROVE  IsABag(tasks)' /\ SettingInv'
<1> DEFINE r == [check |-> t.kind, running |-> FALSE]
<1>1. PICK i \in t.id : results' = [results EXCEPT ![i][Place[t.kind]] = r]
  BY DEF Checked
<1>2. /\ t.kind \in DOMAIN Place /\ Ended(t)
      /\ UNCHANGED <<settings, rows, editing, savingId, linkingId, overlapped, crossed>>
  BY DEF Checked
<1>3. i \in DOMAIN rows /\ t.id = {i} /\ t.kind \notin RowKinds \cup {"list"} /\ Place[t.kind] \in Places
  BY <1>2 DEF SettingInv, SettingTaskOK, RowKinds, Place, Places
<1>4. i \in Installations
  BY <1>3 DEF SettingInv, SettingShape
<1>5. /\ IsABag(tasks')
      /\ InFlight' \subseteq InFlight /\ InFlight \ {t} \subseteq InFlight'
      /\ \A x \in InFlight' : x # t => tasks'[x] = tasks[x]
  BY <1>2, EndedBag
<1>6. r \in [check : DOMAIN Place \cup {"none"}, running : BOOLEAN] /\ r.running = FALSE
  BY <1>2
<1> HIDE DEF r
<1>7. SettingShape'
  BY <1>1, <1>2, <1>3, <1>6 DEF SettingInv, SettingShape
<1>8. \A x \in InFlight' : SettingTaskOK(x)'
  BY <1>2, <1>5, TaskStays DEF SettingInv
<1>9. SaveOnce'
  BY <1>2, <1>3, <1>5 DEF SettingInv, SaveOnce, RowKinds
<1>10. StoredShown'
  BY <1>2, <1>5 DEF SettingInv, StoredShown
<1>11. \A j \in Installations : \A p \in Places :
         results'[j][p] = IF j = i /\ p = Place[t.kind] THEN r ELSE results[j][p]
  BY <1>1 DEF SettingInv, SettingShape
<1>12. \A j \in Installations : \A p \in Places : results[j][p].running =>
         results[j][p].check \in DOMAIN Place /\ p = Place[results[j][p].check]
  BY DEF SettingInv, SettingsHeld, CheckOf
<1>13. SettingsHeld'
  BY <1>2, <1>3, <1>5, <1>6, <1>11, <1>12, HeldStays DEF RowKinds, CheckOf
<1> QED  BY <1>5, <1>7, <1>8, <1>9, <1>10, <1>13 DEF SettingInv

LEMMA SettingFailsStep ==
  ASSUME IsABag(tasks), SettingInv, NEW t \in InFlight, SettingFails(t)
  PROVE  IsABag(tasks)' /\ SettingInv'
<1>1. /\ t.kind \notin DOMAIN Place /\ Ended(t)
      /\ UNCHANGED <<settings, rows, editing, results, overlapped, crossed>>
      /\ savingId' = IF t.kind = "save" THEN {} ELSE savingId
      /\ linkingId' = IF t.kind \in {"link", "unlink"} THEN {} ELSE linkingId
  BY DEF SettingFails, Settles
<1>2. /\ IsABag(tasks')
      /\ InFlight' \subseteq InFlight /\ InFlight \ {t} \subseteq InFlight'
      /\ \A x \in InFlight' : x # t => tasks'[x] = tasks[x]
      /\ tasks[t] = 1 => t \notin InFlight'
  BY <1>1, EndedBag
<1>3. SettingShape'
  BY <1>1 DEF SettingInv, SettingShape
<1>4. \A x \in InFlight' : SettingTaskOK(x)'
  BY <1>1, <1>2, TaskStays DEF SettingInv
<1>5. SaveOnce'
  <2> SUFFICES ASSUME ~overlapped PROVE SaveOnce'
    BY <1>1 DEF SaveOnce
  <2>1. CASE t.kind = "save"
    <3>1. \A x \in InFlight' : x.kind # "save"
      BY <1>2, <2>1 DEF SettingInv, SaveOnce
    <3> QED  BY <3>1 DEF SaveOnce
  <2>2. CASE t.kind # "save"
    BY <1>1, <1>2, <2>2 DEF SettingInv, SaveOnce
  <2> QED  BY <2>1, <2>2
<1>6. StoredShown'
  BY <1>1, <1>2 DEF SettingInv, StoredShown
<1>7. SettingsHeld'
  BY <1>1, <1>2, HeldStays DEF CheckOf
<1> QED  BY <1>2, <1>3, <1>4, <1>5, <1>6, <1>7 DEF SettingInv

LEMMA SettingsStep ==
  ASSUME IsABag(tasks), SettingInv, SettingsNext
  PROVE  IsABag(tasks)' /\ SettingInv'
<1>1. CASE RefreshRows
  BY <1>1, RefreshRowsStep
<1>2. ASSUME NEW i \in Installations, NEW f \in DOMAIN Values, NEW x \in Values[f], Type(i, f, x)
      PROVE  IsABag(tasks)' /\ SettingInv'
  BY <1>2, TypeStep DEF Type
<1>3. ASSUME NEW i \in Installations, Cancel(i) PROVE IsABag(tasks)' /\ SettingInv'
  BY <1>3, CancelStep DEF Cancel
<1>4. ASSUME NEW i \in Installations,
             Save(i) \/ (\E c \in Credentials : Link(i, c)) \/ (\E check \in DOMAIN Place : Check(i, check))
      PROVE  IsABag(tasks)' /\ SettingInv'
  BY <1>4, SaveStep, LinkStep, CheckStep
<1>5. ASSUME NEW t \in InFlight, ServiceReads(t) \/ Saved(t) \/ RowsArrive(t) \/ Checked(t) \/ SettingFails(t)
      PROVE  IsABag(tasks)' /\ SettingInv'
  BY <1>5, ServiceReadsStep, SavedStep, RowsArriveStep, CheckedStep, SettingFailsStep
<1> QED  BY <1>1, <1>2, <1>3, <1>4, <1>5 DEF SettingsNext

EditKept ==
  \A i \in DOMAIN editing : \A f \in DOMAIN editing[i] :
    \/ i \in DOMAIN editing' /\ f \in DOMAIN editing'[i]
    \/ Cancel(i)
    \/ overlapped
    \/ editing[i][f] = NoDescription
    \/ rows'[i][f] = editing[i][f]

LEMMA EditsStay == ASSUME IsABag(tasks), SettingInv, SettingsNext PROVE EditKept
<1>1. ASSUME UNCHANGED editing PROVE EditKept
  BY <1>1 DEF EditKept
<1>2. ASSUME NEW i \in Installations, NEW f \in DOMAIN Values, NEW x \in Values[f], Type(i, f, x)
      PROVE  EditKept
  <2> DEFINE form == [g \in DOMAIN EditOf(i) \cup {f} |-> IF g = f THEN x ELSE editing[i][g]]
  <2>1. editing' = [j \in DOMAIN editing \cup {i} |-> IF j = i THEN form ELSE editing[j]]
    BY <1>2 DEF Type
  <2>2. i \in DOMAIN editing => DOMAIN editing[i] \subseteq DOMAIN form
    BY DEF EditOf
  <2> HIDE DEF form
  <2>3. \A j \in DOMAIN editing : j \in DOMAIN editing' /\ DOMAIN editing[j] \subseteq DOMAIN editing'[j]
    BY <2>1, <2>2
  <2> QED  BY <2>3 DEF EditKept
<1>3. ASSUME NEW i \in Installations, Cancel(i) PROVE EditKept
  BY <1>3 DEF Cancel, Dropped, EditKept
<1>4. ASSUME NEW t \in InFlight, Saved(t) PROVE EditKept
  <2>1. ~overlapped => \A i \in DOMAIN editing \ DOMAIN editing' : Holds(rows'[i], editing[i])
    BY <1>4, SavedStep
  <2>2. \A i \in DOMAIN editing \cap DOMAIN editing' : editing'[i] = editing[i]
    BY <1>4 DEF Saved, Dropped
  <2> QED  BY <2>1, <2>2 DEF EditKept, Holds
<1>5. RefreshRows => UNCHANGED editing
  BY DEF RefreshRows
<1>6. \A i \in Installations :
        Save(i) \/ (\E c \in Credentials : Link(i, c)) \/ (\E check \in DOMAIN Place : Check(i, check))
          => UNCHANGED editing
  BY DEF Save, Link, Check
<1>7. \A t \in InFlight : ServiceReads(t) \/ RowsArrive(t) \/ Checked(t) \/ SettingFails(t) => UNCHANGED editing
  BY DEF ServiceReads, RowsArrive, Checked, SettingFails, settingVars
<1> QED  BY <1>1, <1>2, <1>3, <1>4, <1>5, <1>6, <1>7 DEF SettingsNext

-----------------------------------------------------------------------------
(* The flags of the buttons *)

\* A flag that is set is the one of a handler under way, or of the list that
\* one of them loads.
BusyHeld ==
  /\ \A t \in InFlight : t.kind \in DOMAIN Flag
  /\ \A f \in busy : \E t \in InFlight :
       f \in Flag[t.kind] \/ (f \in {"recordings", "observations"} /\ t.step = f)
InvokeHeld == invoking => Loading("invoke")
SavingHeld ==
  /\ savingIn \subseteq {"panel", "editor"}
  /\ "panel" \in savingIn => Loading("switch")
  /\ "editor" \in savingIn => Loading("edit")
  /\ checking \subseteq Checks /\ \A c \in checking : Loading(c)

LEMMA HeldWaits ==
  ASSUME IsABag(tasks), NEW t, Waits(t)
  PROVE  (\A k : Loading(k) => Loading(k)') /\ Loading(t.kind)'
BY WaitsBag DEF Loading

LEMMA HeldGoesOn ==
  ASSUME IsABag(tasks), NEW t, NEW u, GoesOn(t, u), u.kind = t.kind
  PROVE  \A k : Loading(k) => Loading(k)'
BY GoesOnBag DEF Loading

LEMMA HeldEnded ==
  ASSUME IsABag(tasks), NEW t, Ended(t) \/ \E u : GoesOn(t, u)
  PROVE  \A k : Loading(k) /\ k # t.kind => Loading(k)'
BY EndedBag, GoesOnBag DEF Loading

\* A handler of the call console goes on; only its flag and its list change.
LEMMA BusyGoesOn ==
  ASSUME IsABag(tasks), BusyHeld, NEW t \in InFlight, NEW u, GoesOn(t, u), u.kind = t.kind,
         busy' \subseteq busy \cup {u.step}, u.step \notin busy => u.step \in {"recordings", "observations"} \/ busy' \subseteq busy,
         t.step \notin {"recordings", "observations"} \/ t.step \notin busy'
  PROVE  BusyHeld'
<1>1. InFlight' \subseteq InFlight \cup {u} /\ (InFlight \ {t}) \cup {u} \subseteq InFlight'
  BY GoesOnBag
<1>2. \A x \in InFlight' : x.kind \in DOMAIN Flag
  BY <1>1 DEF BusyHeld
<1>3. ASSUME NEW f \in busy'
      PROVE  \E x \in InFlight' : f \in Flag[x.kind] \/ (f \in {"recordings", "observations"} /\ x.step = f)
  <2>1. CASE f \in busy
    <3>1. PICK x \in InFlight : f \in Flag[x.kind] \/ (f \in {"recordings", "observations"} /\ x.step = f)
      BY <2>1 DEF BusyHeld
    <3>2. CASE x = t
      BY <1>1, <1>3, <3>1, <3>2
    <3>3. CASE x # t
      BY <1>1, <3>1, <3>3
    <3> QED  BY <3>2, <3>3
  <2>2. CASE f \notin busy
    BY <1>1, <1>3, <2>2
  <2> QED  BY <2>1, <2>2
<1> QED  BY <1>2, <1>3 DEF BusyHeld

\* A handler is over: its flag is cleared, and those in `flags` remain.
LEMMA BusyOver ==
  ASSUME IsABag(tasks), BusyHeld, NEW t \in InFlight, NEW flags, flags \subseteq busy, Over(t, flags),
         t.step \notin {"recordings", "observations"} \/ t.step \notin flags
  PROVE  BusyHeld'
<1>1. InFlight' \subseteq InFlight /\ InFlight \ {t} \subseteq InFlight' /\ busy' = flags \ Flag[t.kind]
  BY EndedBag DEF Over
<1> QED  BY <1>1 DEF BusyHeld

LEMMA BusyWaits ==
  ASSUME IsABag(tasks), BusyHeld, NEW u, Waits(u), u.kind \in DOMAIN Flag,
         busy' \subseteq busy \cup Flag[u.kind]
  PROVE  BusyHeld'
<1>1. InFlight' = InFlight \cup {u}
  BY WaitsBag
<1> QED  BY <1>1 DEF BusyHeld

LEMMA PressHeld ==
  ASSUME IsABag(tasks), BusyHeld, NEW kind \in DOMAIN Flag, NEW s, NEW key, Press(kind, s, key)
  PROVE  BusyHeld'
<1> DEFINE u == CallTask(kind, "asked", call, s, key)
<1>1. Waits(u) /\ busy' = busy \cup Flag[kind]
  BY DEF Press
<1>2. u.kind = kind
  OBVIOUS
<1> HIDE DEF u
<1> QED  BY <1>1, <1>2, BusyWaits

LEMMA CallsHeld ==
  ASSUME IsABag(tasks), CallInv, BusyHeld, CallsNext
  PROVE  BusyHeld'
<1>0. \A t \in InFlight : /\ t = CallTask(t.kind, t.step, t.snap, t.session, t.key)
                          /\ t.kind \in OneAnswer => t.step = "asked"
  BY DEF CallInv, CallShape, CallTaskOK
<1>1. ASSUME NEW c \in Calls, SelectCall(c) PROVE BusyHeld'
  <2> DEFINE u == CallTask("select", "timeline", Copy(c, recent[c]), NoSession, "none")
  <2>1. Waits(u) /\ busy' = busy
    BY <1>1 DEF SelectCall
  <2>2. u.kind \in DOMAIN Flag
    BY DEF Flag
  <2> HIDE DEF u
  <2> QED  BY <2>1, <2>2, BusyWaits
<1>2. ASSUME NEW c \in Calls, Elsewhere(c) PROVE BusyHeld'
  BY <1>2 DEF Elsewhere, BusyHeld, InFlight
<1>3. ASSUME NEW t \in InFlight, Details(t) PROVE BusyHeld'
  <2> HIDE DEF CallTask
  <2>0. \A step : [t EXCEPT !.step = step] = CallTask(t.kind, step, t.snap, t.session, t.key)
    BY <1>0 DEF CallTask
  <2>1. \A step : [t EXCEPT !.step = step].kind = t.kind /\ [t EXCEPT !.step = step].step = step
    BY <2>0 DEF CallTask
  <2>2. CASE Timeline(t)
    <3>1. \/ GoesOn(t, [t EXCEPT !.step = "session"]) /\ busy' = busy
          \/ GoesOn(t, [t EXCEPT !.step = "recordings"]) /\ busy' = busy \cup {"recordings"}
      BY <2>2 DEF Timeline
    <3> QED  BY <2>1, <2>2, <3>1, BusyGoesOn DEF Timeline
  <2>3. CASE LinkedSession(t)
    BY <2>1, <2>3, BusyGoesOn DEF LinkedSession
  <2>4. CASE RecordingsListed(t)
    <3>1. \/ GoesOn(t, [t EXCEPT !.step = "observations"]) /\ busy' = (busy \ {"recordings"}) \cup {"observations"}
          \/ Over(t, busy \ {"recordings", "observations"})
      BY <2>4 DEF RecordingsListed
    <3>2. t.step = "recordings"
      BY <2>4 DEF RecordingsListed
    <3> QED  BY <2>1, <3>1, <3>2, BusyGoesOn, BusyOver
  <2>5. CASE ObservationsListed(t)
    BY <2>1, <2>5, BusyGoesOn DEF ObservationsListed
  <2>6. CASE SharingKnown(t)
    BY <2>6, BusyOver DEF SharingKnown
  <2> QED  BY <1>3, <2>2, <2>3, <2>4, <2>5, <2>6 DEF Details
<1>4. ASSUME NEW t \in InFlight, NEW snap, NEW step, t.step = "asked" \/ t.step = "listing", step \in {"listing", "timeline"},
             GoesOn(t, [t EXCEPT !.step = step, !.snap = snap]), busy' = busy
      PROVE  BusyHeld'
  <2> DEFINE u == [t EXCEPT !.step = step, !.snap = snap]
  <2>1. u = CallTask(t.kind, step, snap, t.session, t.key)
    <3>1. t = CallTask(t.kind, t.step, t.snap, t.session, t.key)
      BY <1>0
    <3> HIDE DEF CallTask, u
    <3>2. ASSUME NEW x, NEW y
          PROVE  [t EXCEPT !.step = y, !.snap = x] = CallTask(t.kind, y, x, t.session, t.key)
      BY <3>1, CallTaskExcept
    <3> QED  BY <3>2 DEF u
  <2>2. u.kind = t.kind /\ u.step = step /\ GoesOn(t, u)
    BY <1>4, <2>1
  <2> HIDE DEF u
  <2> QED  BY <1>4, <2>2, BusyGoesOn
<1>5. ASSUME NEW t \in InFlight, Controlled(t) PROVE BusyHeld'
  BY <1>4, <1>5 DEF Controlled, FetchDetails
<1>6. ASSUME NEW t \in InFlight, WebhookTaken(t) PROVE BusyHeld'
  BY <1>4, <1>6 DEF WebhookTaken
<1>7. ASSUME NEW t \in InFlight, DetailsNext(t) PROVE BusyHeld'
  BY <1>4, <1>7 DEF DetailsNext, FetchDetails
<1>8. ASSUME NEW t \in InFlight, CallsListed(t) PROVE BusyHeld'
  <2>1. CASE t.kind = "calls"
    <3>1. Ended(t) /\ busy' = busy /\ Flag[t.kind] = {} /\ t.step = "asked"
      BY <1>0, <1>8, <2>1 DEF CallsListed, Flag, OneAnswer
    <3>2. Over(t, busy)
      BY <3>1 DEF Over
    <3> QED  BY <3>1, <3>2, BusyOver
  <2>2. CASE t.kind # "calls"
    <3> DEFINE u == [t EXCEPT !.step = "timeline"]
    <3>1. t.step = "listing" /\ GoesOn(t, u) /\ busy' = busy
      BY <1>8, <2>2 DEF CallsListed
    <3>2. u.kind = t.kind /\ u.step = "timeline"
      BY <1>0
    <3> HIDE DEF u
    <3> QED  BY <3>1, <3>2, BusyGoesOn
  <2> QED  BY <2>1, <2>2
<1>9. ASSUME NEW t \in InFlight, Captured(t) \/ Done(t) \/ Refused(t) PROVE BusyHeld'
  <2>1. t.step = "asked" /\ Over(t, busy)
    BY <1>0, <1>9 DEF Captured, Done, Refused, OneAnswer
  <2> QED  BY <2>1, BusyOver
<1> QED  BY <1>1, <1>2, <1>3, <1>5, <1>6, <1>7, <1>8, <1>9, PressHeld
     DEF CallsNext, Control, Bridge, Recordings, Greeting, Sharing, Capture, Observation, AboutSession, Flag

LEMMA DevicesHeld ==
  ASSUME IsABag(tasks), DeviceInv, InvokeHeld, DevicesNext
  PROVE  InvokeHeld'
<1>0. \A t \in InFlight : t = DeviceTask(t.kind, t.step, t.target, t.closure)
  BY DEF DeviceInv
<1>1. ASSUME NEW d \in Devices, OpenDevice(d) PROVE InvokeHeld'
  <2> DEFINE w == tasks (+) One(DeviceTask("open", "detail", d, selectedId))
  <2>1. Selects(d, w) /\ invoking' = invoking
    BY <1>1 DEF OpenDevice
  <2>2. IsABag(w) /\ InFlight \subseteq BagToSet(w)
    BY OneBag, BagAdd DEF InFlight
  <2> HIDE DEF w
  <2>3. InFlight \subseteq InFlight'
    BY <2>1, <2>2, SelectsBag
  <2> QED  BY <2>1, <2>3 DEF InvokeHeld, Loading
<1>2. ASSUME NEW d \in Devices, Enroll(d) PROVE InvokeHeld'
  BY <1>2 DEF Enroll, InvokeHeld, Loading, InFlight
<1>3. CASE PressRefresh
  BY <1>3, HeldWaits DEF PressRefresh, InvokeHeld
<1>4. CASE InvokeTool
  <2> DEFINE u == DeviceTask("invoke", "asked", SelectedDevice, selectedId)
  <2>1. Waits(u) /\ u.kind = "invoke"
    BY <1>4 DEF InvokeTool, DeviceTask
  <2> HIDE DEF u
  <2> QED  BY <2>1, HeldWaits DEF InvokeHeld
<1>5. ASSUME NEW t \in InFlight, Invoked(t) PROVE InvokeHeld'
  <2> DEFINE u == [t EXCEPT !.step = "lists"]
  <2>1. GoesOn(t, u) /\ invoking' = invoking /\ u.kind = t.kind
    BY <1>0, <1>5 DEF Invoked
  <2> HIDE DEF u
  <2> QED  BY <2>1, HeldGoesOn DEF InvokeHeld
<1>6. ASSUME NEW t \in InFlight, ListsArrive(t) PROVE InvokeHeld'
  <2>1. CASE TargetOf(t) = {}
    BY <1>6, <2>1, HeldEnded DEF ListsArrive, InvokeHeld
  <2>2. CASE TargetOf(t) # {}
    <3>1. PICK d \in TargetOf(t) :
            Selects(d, (tasks (-) One(t)) (+) One([t EXCEPT !.step = "detail", !.target = d]))
      BY <1>6, <2>2 DEF ListsArrive
    <3>2. invoking' = invoking
      BY <1>6, <2>2 DEF ListsArrive
    <3> DEFINE u == [t EXCEPT !.step = "detail", !.target = d]
               rest == tasks (-) One(t)
               w == rest (+) One(u)
    <3>3. u.kind = t.kind
      BY <1>0
    <3>4. Selects(d, w)
      BY <3>1
    <3> HIDE DEF u
    <3>5. IsABag(rest) /\ InFlight \ {t} \subseteq BagToSet(rest)
      BY OneBag, BagTake DEF InFlight
    <3> HIDE DEF rest
    <3>6. IsABag(w) /\ (InFlight \ {t}) \cup {u} \subseteq BagToSet(w)
      BY <3>5, OneBag, BagAdd
    <3> HIDE DEF w
    <3>7. (InFlight \ {t}) \cup {u} \subseteq InFlight'
      BY <3>4, <3>6, SelectsBag
    <3> QED  BY <3>2, <3>3, <3>7 DEF InvokeHeld, Loading
  <2> QED  BY <2>1, <2>2
<1>7. ASSUME NEW t \in InFlight, DetailArrives(t) \/ DeviceRequestFails(t) PROVE InvokeHeld'
  BY <1>7, HeldEnded DEF DetailArrives, DeviceRequestFails, InvokeHeld
<1> QED  BY <1>1, <1>2, <1>3, <1>4, <1>5, <1>6, <1>7 DEF DevicesNext

LEMMA PoliciesHeld ==
  ASSUME IsABag(tasks), CheckInv, SavingHeld, PoliciesNext
  PROVE  SavingHeld'
<1>0. \A t \in InFlight : PolicyShape(t)
  BY DEF CheckInv, PolicyTasks
<1>1. ASSUME NEW d \in Deliveries, ChoosePolicy(d) PROVE SavingHeld'
  BY <1>1, HeldWaits DEF ChoosePolicy, SavingHeld
<1>2. ASSUME NEW d \in Deliveries, SwitchPolicy(d) PROVE SavingHeld'
  <2> DEFINE u == PolicyTask("switch", "asked", {d}, << >>, Only(d, ~chosen[d]))
  <2>1. Waits(u) /\ u.kind = "switch" /\ savingIn' = savingIn \cup {"panel"} /\ checking' = checking
    BY <1>2 DEF SwitchPolicy
  <2> HIDE DEF u
  <2> QED  BY <2>1, HeldWaits DEF SavingHeld
<1>3. ASSUME NEW c \in Checks, CheckPolicy(c) PROVE SavingHeld'
  <2> DEFINE u == PolicyTask(c, "asked", DOMAIN chosen, << >>, << >>)
  <2>1. Waits(u) /\ u.kind = c /\ checking' = checking \cup {c} /\ savingIn' = savingIn
    BY <1>3 DEF CheckPolicy
  <2> HIDE DEF u
  <2> QED  BY <2>1, HeldWaits DEF SavingHeld
<1>4. ASSUME NEW p \in Policies, EditPolicy(p) PROVE SavingHeld'
  <2> DEFINE u == PolicyTask("edit", "asked", {p}, << >>, Only(p, ~editor[p]))
  <2>1. Waits(u) /\ u.kind = "edit" /\ savingIn' = savingIn \cup {"editor"} /\ checking' = checking
    BY <1>4 DEF EditPolicy
  <2> HIDE DEF u
  <2> QED  BY <2>1, HeldWaits DEF SavingHeld
<1>5. ASSUME NEW t \in InFlight, PolicyChanged(t) PROVE SavingHeld'
  <2> DEFINE u == [t EXCEPT !.step = "served"]
  <2>1. GoesOn(t, u) /\ UNCHANGED <<savingIn, checking>> /\ u.kind = t.kind
    BY <1>0, <1>5 DEF PolicyChanged, PolicyShape
  <2> HIDE DEF u
  <2> QED  BY <2>1, HeldGoesOn DEF SavingHeld
<1>6. ASSUME NEW t \in InFlight, PolicyRead(t) PROVE SavingHeld'
  <2> DEFINE data == [p \in Wanted(t) |-> inForce[p]]
             u == [t EXCEPT !.step = "served", !.data = data]
  <2>1. GoesOn(t, u) /\ UNCHANGED <<savingIn, checking>>
    BY <1>6 DEF PolicyRead, policyVars
  <2> HIDE DEF data
  <2>2. u = PolicyTask(t.kind, "served", t.id, t.left, data)
    BY <1>0, PolicyExcept
  <2>3. u.kind = t.kind
    BY <2>2
  <2> HIDE DEF u
  <2> QED  BY <2>1, <2>3, HeldGoesOn DEF SavingHeld
<1>7. ASSUME NEW t \in InFlight, PoliciesListed(t) PROVE SavingHeld'
  <2>1. /\ UNCHANGED <<savingIn, checking>> /\ t.kind = "policies"
        /\ Ended(t) \/ \E u : GoesOn(t, u)
    BY <1>7 DEF PoliciesListed
  <2>2. \A k : Loading(k) /\ k # "policies" => Loading(k)'
    BY <2>1, HeldEnded
  <2> QED  BY <2>1, <2>2 DEF SavingHeld, Checks
<1>8. ASSUME NEW t \in InFlight, Switched(t) PROVE SavingHeld'
  <2>1. /\ savingIn' = savingIn \ {"panel"} /\ checking' = checking /\ t.kind = "switch"
        /\ \E u : GoesOn(t, u)
    BY <1>8 DEF Switched
  <2>2. \A k : Loading(k) /\ k # "switch" => Loading(k)'
    BY <2>1, HeldEnded
  <2> QED  BY <2>1, <2>2 DEF SavingHeld, Checks
<1>9. ASSUME NEW t \in InFlight, PolicyChecked(t) PROVE SavingHeld'
  <2>1. \A k : Loading(k) /\ k # t.kind => Loading(k)'
    BY <1>9, HeldEnded DEF PolicyChecked
  <2> QED  BY <1>9, <2>1 DEF PolicyChecked, SavingHeld, Checks
<1>10. ASSUME NEW t \in InFlight, TabLoaded(t) PROVE SavingHeld'
  <2> DEFINE n == NextTab(t)
             rest == tasks (-) One(t)
  <2>1. /\ t.kind = "all" /\ UNCHANGED <<savingIn, checking>>
        /\ \/ tasks' = rest (+) n
           \/ \E d \in Deliveries : tasks' = rest (+) n (+) One(FetchAll({d}))
    BY <1>10 DEF TabLoaded
  <2>2. IsABag(n)
    BY <1>0, <2>1, NextTabKind
  <2>3. IsABag(rest) /\ InFlight \ {t} \subseteq BagToSet(rest)
    BY OneBag, BagTake DEF InFlight
  <2> HIDE DEF n, rest
  <2>4. IsABag(rest (+) n) /\ BagToSet(rest) \subseteq BagToSet(rest (+) n)
    BY <2>2, <2>3, BagAdd
  <2>5. \A d : BagToSet(rest (+) n) \subseteq BagToSet(rest (+) n (+) One(FetchAll({d})))
    BY <2>4, OneBag, BagAdd
  <2>6. InFlight \ {t} \subseteq InFlight'
    BY <2>1, <2>3, <2>4, <2>5 DEF InFlight
  <2> QED  BY <2>1, <2>6 DEF SavingHeld, Loading, Checks
<1>11. ASSUME NEW t \in InFlight, Edited(t) PROVE SavingHeld'
  <2>1. /\ savingIn' = savingIn \ {"editor"} /\ checking' = checking /\ t.kind = "edit"
        /\ Ended(t) \/ \E u : GoesOn(t, u)
    BY <1>11 DEF Edited
  <2>2. \A k : Loading(k) /\ k # "edit" => Loading(k)'
    BY <2>1, HeldEnded
  <2> QED  BY <2>1, <2>2 DEF SavingHeld, Checks
<1>12. ASSUME NEW t \in InFlight, PolicyRequestFails(t) PROVE SavingHeld'
  <2>1. \A k : Loading(k) /\ k # t.kind => Loading(k)'
    BY <1>12, HeldEnded DEF PolicyRequestFails
  <2> QED  BY <1>12, <2>1 DEF PolicyRequestFails, PanelOf, SavingHeld, Checks
<1> QED  BY <1>1, <1>2, <1>3, <1>4, <1>5, <1>6, <1>7, <1>8, <1>9, <1>10, <1>11, <1>12 DEF PoliciesNext

-----------------------------------------------------------------------------
(* What the policy panels show is stored *)

StoreTask(t) ==
  /\ t.step \in {"asked", "served"}
  /\ t.kind \in {"switch", "edit"} => DOMAIN t.data = t.id /\ \E p \in Policies : t.id = {p}
  /\ t.kind = "switch" => t.id \subseteq Deliveries
  /\ t.kind = "policies" => t.step = "asked" \/ DOMAIN t.data = Deliveries
  /\ t.kind = "all" => /\ t.left \in Seq(TabKinds) /\ t.left # << >>
                       /\ t.step = "asked" \/ DOMAIN t.data = Wanted(t)

StoreShape ==
  /\ DOMAIN inForce = Policies /\ DOMAIN changedIn = {"panel", "editor"}
  /\ DOMAIN chips \subseteq Deliveries /\ DOMAIN chosen \subseteq Deliveries
  /\ DOMAIN editor \subseteq Policies
  /\ \A t \in InFlight : StoreTask(t)

\* Each panel makes one change at a time.
ChangeKinds == {"switch", "edit"}
ChangesOnce ==
  \A t \in InFlight : t.kind \in ChangeKinds =>
    /\ PanelOf(t) \in savingIn /\ tasks[t] = 1
    /\ \A u \in InFlight : u.kind = t.kind => u = t

\* The policies of f have their stored values, or the answer of a change that
\* sets them is under way; not those that the other panel has changed.
Agrees(f, other) == \A p \in DOMAIN f \ changedIn[other] : f[p] = inForce[p]
Covered(f, kind, other) ==
  \A p \in DOMAIN f \ changedIn[other] :
    f[p] = inForce[p] \/ \E t \in InFlight : t.kind = kind /\ t.step = "served" /\ p \in t.id

\* No change of a panel meets a load of the panel, and what they carry is stored.
Side(kind, load, other) ==
  /\ \A t, u \in InFlight : ~(t.kind = kind /\ u.kind = load)
  /\ \A t \in InFlight : t.kind \in {kind, load} /\ t.step = "served" => Agrees(t.data, other)

ShownStored ==
  ~crossed =>
    /\ Side("switch", "policies", "editor") /\ Side("edit", "all", "panel")
    /\ Covered(chips, "switch", "editor") /\ Covered(chosen, "switch", "editor")
    /\ Covered(editor, "edit", "panel")

StoreInv == StoreShape /\ ChangesOnce /\ ShownStored

USE DEF ChangeKinds

\* The changes still under way are as they were.
LEMMA OnceKept ==
  ASSUME ChangesOnce, NEW N,
         \A u \in N : u.kind \notin ChangeKinds,
         \A x \in InFlight' : x \in N \/ (x \in InFlight /\ (x.kind \in ChangeKinds => tasks'[x] = tasks[x])),
         \A x \in InFlight' \ N : x.kind \in ChangeKinds /\ PanelOf(x) \in savingIn => PanelOf(x) \in savingIn'
  PROVE  ChangesOnce'
BY DEF ChangesOnce, PanelOf

\* What is shown now is stored, or was shown and the change that sets it remains.
LEMMA CoveredKept ==
  ASSUME NEW kind, NEW other, NEW f, NEW g,
         Covered(f, kind, other), UNCHANGED <<inForce, changedIn>>,
         \A p \in DOMAIN g \ changedIn[other] :
           \/ g[p] = inForce[p]
           \/ /\ p \in DOMAIN f /\ g[p] = f[p]
              /\ \A x \in InFlight : x.kind = kind /\ x.step = "served" /\ p \in x.id => x \in InFlight'
  PROVE  \A p \in DOMAIN g \ changedIn'[other] :
           g[p] = inForce'[p] \/ \E t \in InFlight' : t.kind = kind /\ t.step = "served" /\ p \in t.id
BY DEF Covered

LEMMA UpdatedAt ==
  ASSUME NEW f, NEW g, NEW p \in DOMAIN Updated(f, g)
  PROVE  \/ p \in DOMAIN g /\ Updated(f, g)[p] = g[p]
         \/ p \in DOMAIN f /\ p \notin DOMAIN g /\ Updated(f, g)[p] = f[p]
BY DEF Updated

\* New handlers of a panel are loads without a change beside them, or changes
\* that are asked for without a load beside them.
LEMMA SidesKept ==
  ASSUME Side("switch", "policies", "editor"), Side("edit", "all", "panel"),
         UNCHANGED <<inForce, changedIn>>, NEW N,
         InFlight' \subseteq InFlight \cup N,
         \A u \in N :
           /\ u.kind = "policies" =>
                ~Loading("switch")' /\ (u.step = "served" => Agrees(u.data, "editor"))
           /\ u.kind = "switch" => ~Loading("policies")' /\ u.step # "served"
           /\ u.kind = "all" => ~Loading("edit")' /\ (u.step = "served" => Agrees(u.data, "panel"))
           /\ u.kind = "edit" => ~Loading("all")' /\ u.step # "served"
  PROVE  Side("switch", "policies", "editor")' /\ Side("edit", "all", "panel")'
<1>1. Side("switch", "policies", "editor")'
  <2>1. ASSUME NEW t \in InFlight', NEW u \in InFlight', t.kind = "switch", u.kind = "policies" PROVE FALSE
    BY <2>1 DEF Side, Loading
  <2>2. ASSUME NEW t \in InFlight', t.kind \in {"switch", "policies"}, t.step = "served"
        PROVE  Agrees(t.data, "editor")
    BY <2>2 DEF Side
  <2> QED  BY <2>1, <2>2 DEF Side, Agrees
<1>2. Side("edit", "all", "panel")'
  <2>1. ASSUME NEW t \in InFlight', NEW u \in InFlight', t.kind = "edit", u.kind = "all" PROVE FALSE
    BY <2>1 DEF Side, Loading
  <2>2. ASSUME NEW t \in InFlight', t.kind \in {"edit", "all"}, t.step = "served"
        PROVE  Agrees(t.data, "panel")
    BY <2>2 DEF Side
  <2> QED  BY <2>1, <2>2 DEF Side, Agrees
<1> QED  BY <1>1, <1>2

\* Steps other than a change of the API, by what they start and what they show.
LEMMA StoredKept ==
  ASSUME ShownStored, ~crossed' => ~crossed, UNCHANGED <<inForce, changedIn>>, NEW N,
         InFlight' \subseteq InFlight \cup N,
         ~crossed' => \A u \in N :
           /\ u.kind = "policies" =>
                ~Loading("switch")' /\ (u.step = "served" => Agrees(u.data, "editor"))
           /\ u.kind = "switch" => ~Loading("policies")' /\ u.step # "served"
           /\ u.kind = "all" => ~Loading("edit")' /\ (u.step = "served" => Agrees(u.data, "panel"))
           /\ u.kind = "edit" => ~Loading("all")' /\ u.step # "served",
         ~crossed' => \A p \in DOMAIN chips' \ changedIn["editor"] :
           \/ chips'[p] = inForce[p]
           \/ /\ p \in DOMAIN chips /\ chips'[p] = chips[p]
              /\ \A x \in InFlight : x.kind = "switch" /\ x.step = "served" /\ p \in x.id => x \in InFlight',
         ~crossed' => \A p \in DOMAIN chosen' \ changedIn["editor"] :
           \/ chosen'[p] = inForce[p]
           \/ /\ p \in DOMAIN chosen /\ chosen'[p] = chosen[p]
              /\ \A x \in InFlight : x.kind = "switch" /\ x.step = "served" /\ p \in x.id => x \in InFlight',
         ~crossed' => \A p \in DOMAIN editor' \ changedIn["panel"] :
           \/ editor'[p] = inForce[p]
           \/ /\ p \in DOMAIN editor /\ editor'[p] = editor[p]
              /\ \A x \in InFlight : x.kind = "edit" /\ x.step = "served" /\ p \in x.id => x \in InFlight'
  PROVE  ShownStored'
<1> SUFFICES ASSUME ~crossed'
             PROVE  /\ Side("switch", "policies", "editor")' /\ Side("edit", "all", "panel")'
                    /\ Covered(chips, "switch", "editor")' /\ Covered(chosen, "switch", "editor")'
                    /\ Covered(editor, "edit", "panel")'
  BY DEF ShownStored
<1>1. /\ Side("switch", "policies", "editor") /\ Side("edit", "all", "panel")
      /\ Covered(chips, "switch", "editor") /\ Covered(chosen, "switch", "editor")
      /\ Covered(editor, "edit", "panel")
  BY DEF ShownStored
<1>2. Side("switch", "policies", "editor")' /\ Side("edit", "all", "panel")'
  BY <1>1, SidesKept
<1>3. Covered(chips, "switch", "editor")'
  BY <1>1, CoveredKept DEF Covered
<1>4. Covered(chosen, "switch", "editor")'
  BY <1>1, CoveredKept DEF Covered
<1>5. Covered(editor, "edit", "panel")'
  BY <1>1, CoveredKept DEF Covered
<1> QED  BY <1>2, <1>3, <1>4, <1>5

LEMMA ShapeKept ==
  ASSUME StoreShape, NEW N, InFlight' \subseteq InFlight \cup N, \A u \in N : StoreTask(u),
         DOMAIN inForce' = Policies, DOMAIN changedIn' = {"panel", "editor"},
         DOMAIN chips' \subseteq Deliveries, DOMAIN chosen' \subseteq Deliveries,
         DOMAIN editor' \subseteq Policies
  PROVE  StoreShape'
<1>1. \A t \in InFlight' : StoreTask(t)
  BY DEF StoreShape
<1> QED  BY <1>1 DEF StoreShape, StoreTask

\* What a change or a load brings are policies.
LEMMA DataOfPolicies ==
  ASSUME NEW t, StoreTask(t), t.kind \in {"switch", "edit", "policies", "all"}, t.step = "served"
  PROVE  DOMAIN t.data \subseteq Policies
<1>1. CASE t.kind # "all"
  BY <1>1 DEF StoreTask, Policies
<1>2. CASE t.kind = "all"
  <2>1. t.left \in Seq(TabKinds) /\ t.left # << >> /\ DOMAIN t.data = Wanted(t)
    BY <1>2 DEF StoreTask
  <2>2. Head(t.left) \in TabKinds
    BY <2>1
  <2> QED  BY <1>2, <2>1, <2>2 DEF Wanted, Policies, Switches
<1> QED  BY <1>1, <1>2

LEMMA NextTabAsks ==
  ASSUME NEW t, PolicyShape(t), StoreTask(t), t.kind = "all"
  PROVE  /\ IsABag(NextTab(t))
         /\ \A x \in BagToSet(NextTab(t)) : x.kind = "all" /\ x.step = "asked" /\ StoreTask(x)
<1> DEFINE left == Tail(t.left)
           x == [t EXCEPT !.step = "asked", !.left = left, !.data = << >>]
<1>1. NextTab(t) = IF Len(t.left) = 1 THEN EmptyBag ELSE One(x)
  BY DEF NextTab
<1>2. t.left \in Seq(TabKinds) /\ t.left # << >>
  BY DEF StoreTask
<1>3. Len(t.left) # 1 => left \in Seq(TabKinds) /\ left # << >>
  <2>1. left \in Seq(TabKinds) /\ Len(left) = Len(t.left) - 1
    BY <1>2
  <2>2. Len(t.left) \in Nat /\ Len(<< >>) = 0
    BY <1>2
  <2> HIDE DEF left
  <2>3. left = << >> => Len(left) = 0
    BY <2>2, Zenon
  <2>4. ASSUME Len(t.left) # 1, Len(left) = 0 PROVE FALSE
    BY <2>1, <2>2, <2>4
  <2> QED  BY <2>1, <2>3, <2>4
<1> HIDE DEF left
<1>4. x = PolicyTask("all", "asked", t.id, left, << >>)
  <2> DEFINE r == [t EXCEPT !.step = "asked"]
             q == [r EXCEPT !.left = left]
  <2>1. r = PolicyTask("all", "asked", t.id, t.left, t.data)
    BY DEF PolicyShape
  <2>2. x = [q EXCEPT !.data = << >>]
    OBVIOUS
  <2> HIDE DEF r, x
  <2>3. q = PolicyTask("all", "asked", t.id, left, t.data)
    BY <2>1
  <2> HIDE DEF q
  <2> QED  BY <2>2, <2>3
<1> HIDE DEF x
<1>5. x.kind = "all" /\ x.step = "asked" /\ x.left = left
  BY <1>4
<1>6. Len(t.left) # 1 => StoreTask(x)
  BY <1>3, <1>5 DEF StoreTask
<1>7. IsABag(EmptyBag) /\ BagToSet(EmptyBag) = {}
  BY BagSet DEF EmptyBag
<1> QED  BY <1>1, <1>5, <1>6, <1>7, OneBag

LEMMA StoreStep ==
  ASSUME IsABag(tasks), CheckInv, StoreInv, PoliciesNext
  PROVE  StoreInv'
<1>0. /\ \A t \in InFlight : PolicyShape(t) /\ StoreTask(t)
      /\ StoreShape /\ ChangesOnce /\ ShownStored
      /\ DOMAIN << >> = {}
  BY DEF CheckInv, PolicyTasks, StoreInv, StoreShape
<1>1. ASSUME NEW d \in Deliveries, ChoosePolicy(d) PROVE StoreInv'
  <2> DEFINE u == Listing({d})
  <2>1. /\ d \in DOMAIN chips /\ chosen' = Only(d, chips[d])
        /\ Waits(u) /\ crossed' = (crossed \/ Loading("switch") \/ checking # {})
        /\ UNCHANGED <<inForce, chips, editor, savingIn, changedIn>>
    BY <1>1 DEF ChoosePolicy
  <2>2. u.kind = "policies" /\ u.step = "asked" /\ StoreTask(u)
    <3>1. u.kind = "policies" /\ u.step = "asked"
      BY DEF Listing
    <3> HIDE DEF u
    <3> QED  BY <3>1 DEF StoreTask
  <2> HIDE DEF u
  <2>3. /\ InFlight' = InFlight \cup {u}
        /\ \A x \in InFlight' : x # u => tasks'[x] = tasks[x]
    BY <2>1, WaitsBag
  <2>4. StoreShape'
    BY <1>0, <2>1, <2>2, <2>3, ShapeKept DEF StoreShape, Only
  <2>5. ChangesOnce'
    BY <1>0, <2>1, <2>2, <2>3, OnceKept
  <2>6. ~crossed' => ~crossed /\ ~Loading("switch")'
    BY <2>1, <2>2, <2>3 DEF Loading
  <2>7. \A p \in DOMAIN chosen' : p \in DOMAIN chips /\ chosen'[p] = chips[p]
    BY <2>1 DEF Only
  <2>8. ASSUME ~crossed'
        PROVE  \A p \in DOMAIN chosen' \ changedIn["editor"] : chosen'[p] = inForce[p]
    <3>1. Covered(chips, "switch", "editor") /\ \A x \in InFlight : x.kind # "switch"
      BY <1>0, <2>3, <2>6, <2>8 DEF ShownStored, Loading
    <3> QED  BY <2>7, <3>1 DEF Covered
  <2>9. ShownStored'
    BY <1>0, <2>1, <2>2, <2>3, <2>6, <2>8, StoredKept
  <2> QED  BY <2>4, <2>5, <2>9 DEF StoreInv
<1>2. ASSUME NEW d \in Deliveries, SwitchPolicy(d) PROVE StoreInv'
  <2> DEFINE u == PolicyTask("switch", "asked", {d}, << >>, Only(d, ~chosen[d]))
  <2>1. /\ "panel" \notin savingIn /\ savingIn' = savingIn \cup {"panel"}
        /\ Waits(u) /\ crossed' = (crossed \/ Loading("policies"))
        /\ UNCHANGED <<inForce, chips, chosen, editor, changedIn>>
    BY <1>2 DEF SwitchPolicy
  <2>2. u.kind = "switch" /\ u.step = "asked" /\ StoreTask(u)
    <3>1. u.kind = "switch" /\ u.step = "asked" /\ u.id = {d} /\ DOMAIN u.data = {d}
      BY DEF Only
    <3> HIDE DEF u
    <3> QED  BY <3>1 DEF StoreTask, Policies
  <2> HIDE DEF u
  <2>3. /\ InFlight' = InFlight \cup {u}
        /\ \A x \in InFlight' : x # u => tasks'[x] = tasks[x]
        /\ u \notin InFlight => tasks'[u] = 1
    BY <2>1, WaitsBag
  <2>4. StoreShape'
    BY <1>0, <2>1, <2>2, <2>3, ShapeKept DEF StoreShape
  <2>5. \A x \in InFlight : x.kind # "switch"
    BY <1>0, <2>1 DEF ChangesOnce, PanelOf
  <2>6. ChangesOnce'
    BY <1>0, <2>1, <2>2, <2>3, <2>5 DEF ChangesOnce, PanelOf
  <2>7. ~crossed' => ~crossed /\ ~Loading("policies")'
    BY <2>1, <2>2, <2>3 DEF Loading
  <2>8. ShownStored'
    BY <1>0, <2>1, <2>2, <2>3, <2>7, StoredKept
  <2> QED  BY <2>4, <2>6, <2>8 DEF StoreInv
<1>3. ASSUME NEW c \in Checks, CheckPolicy(c) PROVE StoreInv'
  <2> DEFINE u == PolicyTask(c, "asked", DOMAIN chosen, << >>, << >>)
  <2>1. /\ Waits(u) /\ crossed' = (crossed \/ Loading("switch"))
        /\ UNCHANGED <<inForce, chips, chosen, editor, savingIn, changedIn>>
    BY <1>3 DEF CheckPolicy
  <2>2. u.kind \in Checks /\ u.step = "asked" /\ StoreTask(u)
    <3>1. u.kind \in Checks /\ u.step = "asked"
      OBVIOUS
    <3> HIDE DEF u
    <3> QED  BY <3>1 DEF StoreTask, Checks
  <2> HIDE DEF u
  <2>3. /\ InFlight' = InFlight \cup {u}
        /\ \A x \in InFlight' : x # u => tasks'[x] = tasks[x]
    BY <2>1, WaitsBag
  <2>4. StoreShape'
    BY <1>0, <2>1, <2>2, <2>3, ShapeKept DEF StoreShape
  <2>5. ChangesOnce'
    BY <1>0, <2>1, <2>2, <2>3, OnceKept DEF Checks
  <2>6. u.kind \notin {"policies", "switch", "all", "edit"} /\ (~crossed' => ~crossed)
    BY <2>1, <2>2 DEF Checks
  <2>7. ShownStored'
    BY <1>0, <2>1, <2>3, <2>6, StoredKept
  <2> QED  BY <2>4, <2>5, <2>7 DEF StoreInv
<1>4. ASSUME NEW p \in Policies, EditPolicy(p) PROVE StoreInv'
  <2> DEFINE u == PolicyTask("edit", "asked", {p}, << >>, Only(p, ~editor[p]))
  <2>1. /\ "editor" \notin savingIn /\ savingIn' = savingIn \cup {"editor"}
        /\ Waits(u) /\ crossed' = (crossed \/ Loading("all"))
        /\ UNCHANGED <<inForce, chips, chosen, editor, changedIn>>
    BY <1>4 DEF EditPolicy
  <2>2. u.kind = "edit" /\ u.step = "asked" /\ StoreTask(u)
    <3>1. u.kind = "edit" /\ u.step = "asked" /\ u.id = {p} /\ DOMAIN u.data = {p}
      BY DEF Only
    <3> HIDE DEF u
    <3> QED  BY <3>1 DEF StoreTask
  <2> HIDE DEF u
  <2>3. /\ InFlight' = InFlight \cup {u}
        /\ \A x \in InFlight' : x # u => tasks'[x] = tasks[x]
        /\ u \notin InFlight => tasks'[u] = 1
    BY <2>1, WaitsBag
  <2>4. StoreShape'
    BY <1>0, <2>1, <2>2, <2>3, ShapeKept DEF StoreShape
  <2>5. \A x \in InFlight : x.kind # "edit"
    BY <1>0, <2>1 DEF ChangesOnce, PanelOf
  <2>6. ChangesOnce'
    BY <1>0, <2>1, <2>2, <2>3, <2>5 DEF ChangesOnce, PanelOf
  <2>7. ~crossed' => ~crossed /\ ~Loading("all")'
    BY <2>1, <2>2, <2>3 DEF Loading
  <2>8. ShownStored'
    BY <1>0, <2>1, <2>2, <2>3, <2>7, StoredKept
  <2> QED  BY <2>4, <2>6, <2>8 DEF StoreInv
<1>5. ASSUME NEW t \in InFlight, PolicyChanged(t) PROVE StoreInv'
  <2> DEFINE u == [t EXCEPT !.step = "served"]
  <2>1. /\ t.step = "asked" /\ t.kind \in {"switch", "edit"}
        /\ inForce' = Updated(inForce, t.data)
        /\ changedIn' = [changedIn EXCEPT ![PanelOf(t)] = @ \cup t.id]
        /\ GoesOn(t, u) /\ UNCHANGED <<chips, chosen, editor, savingIn, crossed>>
    BY <1>5 DEF PolicyChanged
  <2>2. /\ u.kind = t.kind /\ u.step = "served" /\ u.id = t.id /\ u.data = t.data
        /\ t # u
    <3>1. u = PolicyTask(t.kind, "served", t.id, t.left, t.data)
      BY <1>0 DEF PolicyShape
    <3> HIDE DEF u
    <3> QED  BY <2>1, <3>1
  <2>3. StoreTask(t) /\ DOMAIN t.data = t.id /\ \E p \in Policies : t.id = {p}
    BY <1>0, <2>1 DEF StoreTask
  <2>4. StoreTask(u)
    BY <2>1, <2>2, <2>3 DEF StoreTask
  <2> HIDE DEF u
  <2>5. /\ InFlight' \subseteq InFlight \cup {u} /\ (InFlight \ {t}) \cup {u} \subseteq InFlight'
        /\ \A x \in InFlight' : x # t /\ x # u => tasks'[x] = tasks[x]
        /\ tasks[t] = 1 => t \notin InFlight'
        /\ u \notin InFlight => tasks'[u] = 1
    BY <2>1, <2>2, GoesOnBag
  <2>6. /\ tasks[t] = 1 /\ PanelOf(t) \in savingIn
        /\ \A x \in InFlight : x.kind = t.kind => x = t
    BY <1>0, <2>1 DEF ChangesOnce
  <2>7. u \notin InFlight /\ t \notin InFlight' /\ InFlight' = (InFlight \ {t}) \cup {u}
    BY <2>2, <2>5, <2>6
  <2>8. /\ DOMAIN inForce' = Policies
        /\ \A p \in Policies : p \in t.id => inForce'[p] = t.data[p]
        /\ \A p \in Policies : p \notin t.id => inForce'[p] = inForce[p]
    BY <1>0, <2>1, <2>3 DEF StoreShape, Updated
  <2>9. /\ DOMAIN changedIn' = {"panel", "editor"}
        /\ \A o \in {"panel", "editor"} : changedIn'[o] = IF o = PanelOf(t) THEN changedIn[o] \cup t.id ELSE changedIn[o]
    BY <1>0, <2>1 DEF StoreShape
  <2>10. StoreShape'
    BY <1>0, <2>1, <2>4, <2>7, <2>8, <2>9, ShapeKept DEF StoreShape
  <2>11. ChangesOnce'
    <3>1. PanelOf(u) = PanelOf(t)
      BY <2>2 DEF PanelOf
    <3>2. ASSUME NEW x \in InFlight', x.kind \in ChangeKinds, x # u
          PROVE  /\ PanelOf(x) \in savingIn /\ tasks'[x] = 1
                 /\ \A y \in InFlight' : y.kind = x.kind => y = x
      BY <1>0, <2>2, <2>5, <2>6, <2>7, <3>2 DEF ChangesOnce
    <3>3. /\ PanelOf(u) \in savingIn /\ tasks'[u] = 1
          /\ \A y \in InFlight' : y.kind = u.kind => y = u
      BY <2>2, <2>5, <2>6, <2>7, <3>1
    <3> QED  BY <2>1, <3>2, <3>3 DEF ChangesOnce
  <2>12. ASSUME ~crossed', t.kind = "switch"
         PROVE  /\ Side("switch", "policies", "editor")' /\ Side("edit", "all", "panel")'
                /\ Covered(chips, "switch", "editor")' /\ Covered(chosen, "switch", "editor")'
                /\ Covered(editor, "edit", "panel")'
    <3>1. /\ Side("switch", "policies", "editor") /\ Side("edit", "all", "panel")
          /\ Covered(chips, "switch", "editor") /\ Covered(chosen, "switch", "editor")
          /\ Covered(editor, "edit", "panel")
      BY <1>0, <2>1, <2>12 DEF ShownStored
    <3>2. changedIn'["panel"] = changedIn["panel"] \cup t.id /\ changedIn'["editor"] = changedIn["editor"]
      BY <2>9, <2>12 DEF PanelOf
    <3>3. /\ DOMAIN chips \subseteq Policies /\ DOMAIN chosen \subseteq Policies
          /\ DOMAIN editor \subseteq Policies /\ t.id \subseteq Policies
      BY <1>0, <2>3 DEF StoreShape, Policies
    <3>4. \A x \in InFlight' : x.kind # "policies" /\ (x.kind = "switch" => x = u)
      BY <2>2, <2>6, <2>7, <2>12, <3>1 DEF Side
    <3>5. Side("switch", "policies", "editor")'
      BY <2>2, <2>3, <2>8, <3>3, <3>4 DEF Side, Agrees
    <3>6. Covered(chips, "switch", "editor")' /\ Covered(chosen, "switch", "editor")'
      BY <2>1, <2>2, <2>6, <2>7, <2>8, <2>12, <3>1, <3>2, <3>3 DEF Covered
    <3>7. Covered(editor, "edit", "panel")'
      BY <2>1, <2>2, <2>7, <2>8, <2>12, <3>1, <3>2, <3>3 DEF Covered
    <3>8. Side("edit", "all", "panel")'
      <4>1. ASSUME NEW x \in InFlight', x.kind \in {"edit", "all"}, x.step = "served"
            PROVE  \A p \in DOMAIN x.data \ changedIn'["panel"] : x.data[p] = inForce'[p]
        <5>1. x \in InFlight /\ Agrees(x.data, "panel") /\ DOMAIN x.data \subseteq Policies
          <6>1. x \in InFlight /\ Agrees(x.data, "panel") /\ StoreTask(x)
            BY <1>0, <2>2, <2>7, <2>12, <3>1, <4>1 DEF Side
          <6> QED  BY <4>1, <6>1, DataOfPolicies
        <5> QED  BY <2>8, <3>2, <5>1 DEF Agrees
      <4>2. \A x, y \in InFlight' : ~(x.kind = "edit" /\ y.kind = "all")
        BY <2>2, <2>7, <2>12, <3>1 DEF Side
      <4> QED  BY <4>1, <4>2 DEF Side, Agrees
    <3> QED  BY <3>5, <3>6, <3>7, <3>8
  <2>13. ASSUME ~crossed', t.kind = "edit"
         PROVE  /\ Side("switch", "policies", "editor")' /\ Side("edit", "all", "panel")'
                /\ Covered(chips, "switch", "editor")' /\ Covered(chosen, "switch", "editor")'
                /\ Covered(editor, "edit", "panel")'
    <3>1. /\ Side("switch", "policies", "editor") /\ Side("edit", "all", "panel")
          /\ Covered(chips, "switch", "editor") /\ Covered(chosen, "switch", "editor")
          /\ Covered(editor, "edit", "panel")
      BY <1>0, <2>1, <2>13 DEF ShownStored
    <3>2. changedIn'["editor"] = changedIn["editor"] \cup t.id /\ changedIn'["panel"] = changedIn["panel"]
      BY <2>9, <2>13 DEF PanelOf
    <3>3. /\ DOMAIN chips \subseteq Policies /\ DOMAIN chosen \subseteq Policies
          /\ DOMAIN editor \subseteq Policies /\ t.id \subseteq Policies
      BY <1>0, <2>3 DEF StoreShape, Policies
    <3>4. \A x \in InFlight' : x.kind # "all" /\ (x.kind = "edit" => x = u)
      BY <2>2, <2>6, <2>7, <2>13, <3>1 DEF Side
    <3>5. Side("edit", "all", "panel")'
      BY <2>2, <2>3, <2>8, <3>3, <3>4 DEF Side, Agrees
    <3>6. Covered(editor, "edit", "panel")'
      BY <2>1, <2>2, <2>6, <2>7, <2>8, <2>13, <3>1, <3>2, <3>3 DEF Covered
    <3>7. Covered(chips, "switch", "editor")' /\ Covered(chosen, "switch", "editor")'
      BY <2>1, <2>2, <2>7, <2>8, <2>13, <3>1, <3>2, <3>3 DEF Covered
    <3>8. Side("switch", "policies", "editor")'
      <4>1. ASSUME NEW x \in InFlight', x.kind \in {"switch", "policies"}, x.step = "served"
            PROVE  \A p \in DOMAIN x.data \ changedIn'["editor"] : x.data[p] = inForce'[p]
        <5>1. x \in InFlight /\ Agrees(x.data, "editor") /\ DOMAIN x.data \subseteq Policies
          <6>1. x \in InFlight /\ Agrees(x.data, "editor") /\ StoreTask(x)
            BY <1>0, <2>2, <2>7, <2>13, <3>1, <4>1 DEF Side
          <6> QED  BY <4>1, <6>1, DataOfPolicies
        <5> QED  BY <2>8, <3>2, <5>1 DEF Agrees
      <4>2. \A x, y \in InFlight' : ~(x.kind = "switch" /\ y.kind = "policies")
        BY <2>2, <2>7, <2>13, <3>1 DEF Side
      <4> QED  BY <4>1, <4>2 DEF Side, Agrees
    <3> QED  BY <3>5, <3>6, <3>7, <3>8
  <2>14. ShownStored'
    BY <2>1, <2>12, <2>13 DEF ShownStored
  <2> QED  BY <2>10, <2>11, <2>14 DEF StoreInv
<1>6. ASSUME NEW t \in InFlight, PolicyRead(t) PROVE StoreInv'
  <2> DEFINE data == [p \in Wanted(t) |-> inForce[p]]
             u == [t EXCEPT !.step = "served", !.data = data]
  <2>1. /\ t.kind \in {"policies", "all"} /\ GoesOn(t, u)
        /\ UNCHANGED <<inForce, chips, chosen, editor, savingIn, changedIn, crossed>>
    BY <1>6 DEF PolicyRead, policyVars
  <2>2. DOMAIN data = Wanted(t) /\ \A p \in DOMAIN data : data[p] = inForce[p]
    OBVIOUS
  <2> HIDE DEF data
  <2>3. u = PolicyTask(t.kind, "served", t.id, t.left, data)
    BY <1>0, PolicyExcept
  <2> HIDE DEF u
  <2>4. u.kind = t.kind /\ u.step = "served" /\ u.left = t.left /\ u.data = data
    BY <2>3
  <2>5. Wanted(u) = Wanted(t) /\ (t.kind = "policies" => Wanted(t) = Deliveries)
    BY <2>4 DEF Wanted
  <2>6. StoreTask(u)
    BY <1>0, <2>1, <2>2, <2>4, <2>5 DEF StoreTask
  <2>7. /\ InFlight' \subseteq InFlight \cup {u} /\ (InFlight \ {t}) \cup {u} \subseteq InFlight'
        /\ \A x \in InFlight' : x # t /\ x # u => tasks'[x] = tasks[x]
    BY <2>1, GoesOnBag
  <2>8. StoreShape'
    BY <1>0, <2>1, <2>6, <2>7, ShapeKept DEF StoreShape
  <2>9. ChangesOnce'
    <3>1. \A x \in InFlight' : x \in {u} \/ (x \in InFlight /\ (x.kind \in ChangeKinds => tasks'[x] = tasks[x]))
      BY <2>1, <2>7
    <3>2. u.kind \notin ChangeKinds
      BY <2>1, <2>4
    <3>3. \A x \in InFlight' \ {u} : x.kind \in ChangeKinds /\ PanelOf(x) \in savingIn => PanelOf(x) \in savingIn'
      BY <2>1
    <3> QED  BY <1>0, <3>1, <3>2, <3>3, OnceKept
  <2>10. Agrees(u.data, "editor") /\ Agrees(u.data, "panel")
    BY <2>2, <2>4 DEF Agrees
  <2>11. ASSUME ~crossed'
         PROVE  (t.kind = "policies" => ~Loading("switch")') /\ (t.kind = "all" => ~Loading("edit")')
    BY <1>0, <2>1, <2>4, <2>7, <2>11 DEF ShownStored, Side, Loading
  <2>12. \A x \in InFlight : x.kind \in {"switch", "edit"} => x \in InFlight'
    BY <2>1, <2>7
  <2>13. ShownStored'
    BY <1>0, <2>1, <2>4, <2>7, <2>10, <2>11, <2>12, StoredKept
  <2> QED  BY <2>8, <2>9, <2>13 DEF StoreInv
<1>7. ASSUME NEW t \in InFlight, PoliciesListed(t) PROVE StoreInv'
  <2>1. /\ t.kind = "policies" /\ t.step = "served" /\ chips' = t.data
        /\ UNCHANGED <<inForce, editor, savingIn, changedIn, crossed>>
        /\ \/ t.id # {} /\ Ended(t) /\ chosen' = chosen
           \/ \E d \in Deliveries : chosen' = Only(d, t.data[d]) /\ GoesOn(t, Listing({d}))
    BY <1>7 DEF PoliciesListed
  <2>2. DOMAIN t.data = Deliveries
    BY <1>0, <2>1 DEF StoreTask
  <2> DEFINE Now(N) == /\ \A u \in N : u.kind = "policies" /\ u.step = "asked" /\ StoreTask(u)
                       /\ InFlight' \subseteq InFlight \cup N /\ InFlight \ {t} \subseteq InFlight'
                       /\ \A x \in InFlight' : x \in N \/ (x \in InFlight /\ (x # t => tasks'[x] = tasks[x]))
  <2>3. \E N : Now(N)
    <3>1. CASE Ended(t)
      <4>1. Now({})
        BY <3>1, EndedBag
      <4> HIDE DEF Now
      <4> QED  BY <4>1
    <3>2. ASSUME NEW d \in Deliveries, GoesOn(t, Listing({d})) PROVE \E N : Now(N)
      <4> DEFINE u == Listing({d})
      <4>1. u.kind = "policies" /\ u.step = "asked" /\ GoesOn(t, u)
        BY <3>2 DEF Listing
      <4> HIDE DEF u
      <4>2. StoreTask(u)
        BY <4>1 DEF StoreTask
      <4>3. Now({u})
        BY <4>1, <4>2, GoesOnBag
      <4> HIDE DEF Now
      <4> QED  BY <4>3
    <3> HIDE DEF Now
    <3> QED  BY <2>1, <3>1, <3>2
  <2>4. PICK N : Now(N)
    BY <2>3
  <2>5. /\ DOMAIN chosen' \subseteq Deliveries
        /\ chosen' = chosen \/ \A p \in DOMAIN chosen' : p \in DOMAIN t.data /\ chosen'[p] = t.data[p]
    BY <1>0, <2>1, <2>2 DEF Only, StoreShape
  <2>6. StoreShape'
    BY <1>0, <2>1, <2>2, <2>4, <2>5, ShapeKept DEF StoreShape
  <2>7. ChangesOnce'
    BY <1>0, <2>1, <2>4, OnceKept
  <2>8. ASSUME ~crossed' PROVE ~Loading("switch")' /\ \A p \in DOMAIN t.data \ changedIn["editor"] : t.data[p] = inForce[p]
    BY <1>0, <2>1, <2>4, <2>8 DEF ShownStored, Side, Agrees, Loading
  <2>9. \A x \in InFlight : x.kind \in {"switch", "edit"} => x \in InFlight'
    BY <2>1, <2>4
  <2>10. ShownStored'
    BY <1>0, <2>1, <2>4, <2>5, <2>8, <2>9, StoredKept
  <2> QED  BY <2>6, <2>7, <2>10 DEF StoreInv
<1>8. ASSUME NEW t \in InFlight, Switched(t) PROVE StoreInv'
  <2> DEFINE u == Listing(t.id)
  <2>1. /\ t.kind = "switch" /\ t.step = "served" /\ chosen' = t.data /\ GoesOn(t, u)
        /\ chips' = Updated(chips, t.data) /\ savingIn' = savingIn \ {"panel"}
        /\ UNCHANGED <<inForce, editor, changedIn, crossed>>
    BY <1>8 DEF Switched
  <2>2. u.kind = "policies" /\ u.step = "asked"
    BY DEF Listing
  <2> HIDE DEF u
  <2>3. StoreTask(u)
    BY <2>2 DEF StoreTask
  <2>4. DOMAIN t.data = t.id /\ t.id \subseteq Deliveries
    BY <1>0, <2>1 DEF StoreTask
  <2>5. tasks[t] = 1 /\ \A x \in InFlight : x.kind = "switch" => x = t
    BY <1>0, <2>1 DEF ChangesOnce
  <2>6. /\ InFlight' \subseteq InFlight \cup {u} /\ InFlight \ {t} \subseteq InFlight'
        /\ \A x \in InFlight' : x # t /\ x # u => tasks'[x] = tasks[x]
        /\ t \notin InFlight'
    BY <2>1, <2>2, <2>5, GoesOnBag
  <2>7. \A x \in InFlight' : x.kind # "switch" /\ (x = u \/ (x \in InFlight /\ tasks'[x] = tasks[x]))
    <3>1. ASSUME NEW x \in InFlight', x # u PROVE x.kind # "switch" /\ x \in InFlight /\ tasks'[x] = tasks[x]
      <4>1. x \in InFlight /\ x # t
        BY <2>6, <3>1
      <4> QED  BY <2>5, <2>6, <3>1, <4>1
    <3> QED  BY <2>2, <3>1
  <2>8. \A p \in DOMAIN chips' : \/ p \in t.id /\ chips'[p] = t.data[p]
                                 \/ p \in DOMAIN chips /\ p \notin t.id /\ chips'[p] = chips[p]
    BY <2>1, <2>4, UpdatedAt
  <2>9. StoreShape'
    <3>1. DOMAIN chips' \subseteq Deliveries
      BY <1>0, <2>4, <2>8 DEF StoreShape
    <3> QED  BY <1>0, <2>1, <2>3, <2>4, <2>6, <3>1, ShapeKept DEF StoreShape
  <2>10. ChangesOnce'
    <3>1. u.kind \notin ChangeKinds
      BY <2>2
    <3>2. \A x \in InFlight' : x \in {u} \/ (x \in InFlight /\ (x.kind \in ChangeKinds => tasks'[x] = tasks[x]))
      BY <2>7
    <3>3. \A x \in InFlight' \ {u} : x.kind \in ChangeKinds /\ PanelOf(x) \in savingIn => PanelOf(x) \in savingIn'
      BY <2>1, <2>7 DEF PanelOf
    <3> QED  BY <1>0, <3>1, <3>2, <3>3, OnceKept
  <2>11. ASSUME ~crossed' PROVE \A p \in DOMAIN t.data \ changedIn["editor"] : t.data[p] = inForce[p]
    BY <1>0, <2>1, <2>11 DEF ShownStored, Side, Agrees
  <2>12. ~Loading("switch")'
    BY <2>7 DEF Loading
  <2>13. /\ \A x \in InFlight : x.kind = "edit" => x \in InFlight'
         /\ \A x \in InFlight : x.kind = "switch" => x.id = t.id
    BY <2>1, <2>5, <2>6
  <2>14. ASSUME ~crossed'
         PROVE  \A p \in DOMAIN chips' \ changedIn["editor"] :
                  \/ chips'[p] = inForce[p]
                  \/ /\ p \in DOMAIN chips /\ chips'[p] = chips[p]
                     /\ \A x \in InFlight : x.kind = "switch" /\ x.step = "served" /\ p \in x.id => x \in InFlight'
    BY <2>4, <2>8, <2>11, <2>13, <2>14
  <2>15. ShownStored'
    BY <1>0, <2>1, <2>2, <2>6, <2>11, <2>12, <2>13, <2>14, StoredKept
  <2> QED  BY <2>9, <2>10, <2>15 DEF StoreInv
<1>9. ASSUME NEW t \in InFlight, PolicyChecked(t) PROVE StoreInv'
  <2>1. /\ t.kind \in Checks /\ Ended(t)
        /\ UNCHANGED <<inForce, chips, chosen, editor, savingIn, changedIn, crossed>>
    BY <1>9 DEF PolicyChecked
  <2>2. /\ InFlight' \subseteq InFlight \cup {} /\ InFlight \ {t} \subseteq InFlight'
        /\ \A x \in InFlight' : x # t => tasks'[x] = tasks[x]
    BY <2>1, EndedBag
  <2>3. t.kind \notin {"switch", "edit"}
    BY <2>1 DEF Checks
  <2>4. StoreShape'
    BY <1>0, <2>1, <2>2, ShapeKept DEF StoreShape
  <2>5. ChangesOnce'
    <3>1. \A x \in InFlight' : x \in {} \/ (x \in InFlight /\ (x.kind \in ChangeKinds => tasks'[x] = tasks[x]))
      BY <2>2, <2>3
    <3> QED  BY <1>0, <2>1, <3>1, OnceKept
  <2>6. \A x \in InFlight : x.kind \in {"switch", "edit"} => x \in InFlight'
    BY <2>2, <2>3
  <2>7. ShownStored'
    BY <1>0, <2>1, <2>2, <2>6, StoredKept
  <2> QED  BY <2>4, <2>5, <2>7 DEF StoreInv
<1>10. ASSUME NEW t \in InFlight, TabLoaded(t) PROVE StoreInv'
  <2> DEFINE n == NextTab(t)
             rest == tasks (-) One(t)
             Asked(N) == \A x \in N : x.kind = "all" /\ x.step = "asked" /\ StoreTask(x)
             Now(N) == /\ Asked(N)
                       /\ InFlight' \subseteq InFlight \cup N /\ InFlight \ {t} \subseteq InFlight'
                       /\ \A x \in InFlight' : x \in N \/ (x \in InFlight /\ (x # t => tasks'[x] = tasks[x]))
  <2>1. /\ t.kind = "all" /\ t.step = "served"
        /\ UNCHANGED <<inForce, chips, chosen, savingIn, changedIn, crossed>>
        /\ \/ /\ Head(t.left) # "delivery" /\ editor' = Updated(editor, t.data) /\ tasks' = rest (+) n
           \/ /\ editor' = editor /\ tasks' = rest (+) n
           \/ /\ Head(t.left) = "delivery"
              /\ \E d \in Deliveries : /\ editor' = Updated(editor, Only(d, t.data[d]))
                                       /\ tasks' = rest (+) n (+) One(FetchAll({d}))
    BY <1>10 DEF TabLoaded
  <2>2. DOMAIN t.data = Wanted(t) /\ t.left \in Seq(TabKinds) /\ t.left # << >> /\ StoreTask(t)
    BY <1>0, <2>1 DEF StoreTask
  <2>3. DOMAIN t.data \subseteq Policies /\ (Head(t.left) = "delivery" => DOMAIN t.data = Deliveries)
    BY <2>1, <2>2, DataOfPolicies DEF Wanted
  <2>4. IsABag(n) /\ Asked(BagToSet(n))
    BY <1>0, <2>1, <2>2, NextTabAsks
  <2>5. /\ IsABag(rest) /\ BagToSet(rest) \subseteq InFlight /\ InFlight \ {t} \subseteq BagToSet(rest)
        /\ \A x \in InFlight \ {t} : rest[x] = tasks[x]
    BY OneBag, BagTake DEF InFlight
  <2> HIDE DEF n, rest
  <2>6. /\ IsABag(rest (+) n) /\ BagToSet(rest (+) n) = BagToSet(rest) \cup BagToSet(n)
        /\ \A x \in BagToSet(rest) \ BagToSet(n) : (rest (+) n)[x] = rest[x]
    BY <2>4, <2>5, BagAdd
  <2>7. \E N : Now(N)
    <3>1. CASE tasks' = rest (+) n
      <4>1. Now(BagToSet(n))
        BY <2>4, <2>5, <2>6, <3>1 DEF InFlight
      <4> HIDE DEF Now
      <4> QED  BY <4>1
    <3>2. ASSUME NEW d \in Deliveries, tasks' = rest (+) n (+) One(FetchAll({d})) PROVE \E N : Now(N)
      <4> DEFINE f == FetchAll({d})
      <4>1. f.kind = "all" /\ f.step = "asked" /\ f.left = Tabs
        BY DEF FetchAll
      <4>2. StoreTask(f)
        BY <4>1, PolicyAssumption DEF StoreTask
      <4> HIDE DEF f
      <4>3. /\ BagToSet(tasks') = BagToSet(rest (+) n) \cup {f}
            /\ \A x \in BagToSet(rest (+) n) \ {f} : tasks'[x] = (rest (+) n)[x]
        BY <2>6, <3>2, OneBag, BagAdd DEF f
      <4>4. Now(BagToSet(n) \cup {f})
        BY <2>4, <2>5, <2>6, <4>1, <4>2, <4>3 DEF InFlight
      <4> HIDE DEF Now
      <4> QED  BY <4>4
    <3> HIDE DEF Now
    <3> QED  BY <2>1, <3>1, <3>2
  <2>8. PICK N : Now(N)
    BY <2>7
  <2>9. \A p \in DOMAIN editor' : (p \in DOMAIN t.data /\ editor'[p] = t.data[p])
                                 \/ (p \in DOMAIN editor /\ editor'[p] = editor[p])
    <3>1. ASSUME NEW d \in Deliveries, Head(t.left) = "delivery", editor' = Updated(editor, Only(d, t.data[d]))
          PROVE  \A p \in DOMAIN editor' : (p \in DOMAIN t.data /\ editor'[p] = t.data[p])
                                 \/ (p \in DOMAIN editor /\ editor'[p] = editor[p])
      <4> DEFINE g == Only(d, t.data[d])
      <4>1. d \in DOMAIN t.data /\ \A p \in DOMAIN g : p = d /\ g[p] = t.data[d]
        BY <2>3, <3>1 DEF Only
      <4> HIDE DEF g
      <4>2. editor' = Updated(editor, g)
        BY <3>1 DEF g
      <4> QED  BY <4>1, <4>2, UpdatedAt
    <3>2. ASSUME editor' = Updated(editor, t.data)
          PROVE  \A p \in DOMAIN editor' : (p \in DOMAIN t.data /\ editor'[p] = t.data[p])
                                 \/ (p \in DOMAIN editor /\ editor'[p] = editor[p])
      BY <3>2, UpdatedAt
    <3> QED  BY <2>1, <3>1, <3>2
  <2>10. StoreShape'
    <3>1. DOMAIN editor' \subseteq Policies
      BY <1>0, <2>3, <2>9 DEF StoreShape
    <3> QED  BY <1>0, <2>1, <2>8, <3>1, ShapeKept DEF StoreShape
  <2>11. ChangesOnce'
    BY <1>0, <2>1, <2>8, OnceKept
  <2>12. ASSUME ~crossed' PROVE ~Loading("edit")' /\ \A p \in DOMAIN t.data \ changedIn["panel"] : t.data[p] = inForce[p]
    BY <1>0, <2>1, <2>8, <2>12 DEF ShownStored, Side, Agrees, Loading
  <2>13. \A x \in InFlight : x.kind \in {"switch", "edit"} => x \in InFlight'
    BY <2>1, <2>8
  <2>14. ShownStored'
    BY <1>0, <2>1, <2>8, <2>9, <2>12, <2>13, StoredKept
  <2> QED  BY <2>10, <2>11, <2>14 DEF StoreInv
<1>11. ASSUME NEW t \in InFlight, Edited(t) PROVE StoreInv'
  <2> DEFINE u == FetchAll(t.id)
             Now(N) == /\ \A x \in N : x.kind = "all" /\ x.step = "asked" /\ StoreTask(x)
                       /\ InFlight' \subseteq (InFlight \ {t}) \cup N /\ InFlight \ {t} \subseteq InFlight'
                       /\ \A x \in InFlight' : x \in N \/ (x \in InFlight /\ tasks'[x] = tasks[x])
  <2>1. /\ t.kind = "edit" /\ t.step = "served" /\ editor' = Updated(editor, t.data)
        /\ savingIn' = savingIn \ {"editor"}
        /\ Ended(t) \/ GoesOn(t, u)
        /\ UNCHANGED <<inForce, chips, chosen, changedIn, crossed>>
    BY <1>11 DEF Edited
  <2>2. u.kind = "all" /\ u.step = "asked" /\ u.left = Tabs
    BY DEF FetchAll
  <2> HIDE DEF u
  <2>3. StoreTask(u)
    BY <2>2, PolicyAssumption DEF StoreTask
  <2>4. DOMAIN t.data = t.id /\ t.id \subseteq Policies
    BY <1>0, <2>1 DEF StoreTask
  <2>5. tasks[t] = 1 /\ \A x \in InFlight : x.kind = "edit" => x = t
    BY <1>0, <2>1 DEF ChangesOnce
  <2>6. \E N : Now(N)
    <3>1. CASE Ended(t)
      <4>1. Now({})
        BY <2>5, <3>1, EndedBag
      <4> HIDE DEF Now
      <4> QED  BY <4>1
    <3>2. CASE GoesOn(t, u)
      <4>1. Now({u})
        BY <2>1, <2>2, <2>3, <2>5, <3>2, GoesOnBag
      <4> HIDE DEF Now
      <4> QED  BY <4>1
    <3> HIDE DEF Now
    <3> QED  BY <2>1, <3>1, <3>2
  <2>7. PICK N : Now(N)
    BY <2>6
  <2>8. \A p \in DOMAIN editor' : \/ p \in t.id /\ editor'[p] = t.data[p]
                                  \/ p \in DOMAIN editor /\ p \notin t.id /\ editor'[p] = editor[p]
    BY <2>1, <2>4, UpdatedAt
  <2>9. StoreShape'
    <3>1. DOMAIN editor' \subseteq Policies
      BY <1>0, <2>4, <2>8 DEF StoreShape
    <3> QED  BY <1>0, <2>1, <2>7, <3>1, ShapeKept DEF StoreShape
  <2>10. \A x \in InFlight' : x.kind # "edit"
    BY <2>1, <2>5, <2>7
  <2>11. ChangesOnce'
    <3>1. \A x \in InFlight' \ N : x.kind \in ChangeKinds /\ PanelOf(x) \in savingIn => PanelOf(x) \in savingIn'
      BY <2>1, <2>10 DEF PanelOf
    <3> QED  BY <1>0, <2>7, <3>1, OnceKept
  <2>12. ASSUME ~crossed' PROVE \A p \in DOMAIN t.data \ changedIn["panel"] : t.data[p] = inForce[p]
    BY <1>0, <2>1, <2>12 DEF ShownStored, Side, Agrees
  <2>13. ~Loading("edit")'
    BY <2>10 DEF Loading
  <2>14. /\ \A x \in InFlight : x.kind = "switch" => x \in InFlight'
         /\ \A x \in InFlight : x.kind = "edit" => x.id = t.id
    BY <2>1, <2>5, <2>7
  <2>15. ASSUME ~crossed'
         PROVE  \A p \in DOMAIN editor' \ changedIn["panel"] :
                  \/ editor'[p] = inForce[p]
                  \/ /\ p \in DOMAIN editor /\ editor'[p] = editor[p]
                     /\ \A x \in InFlight : x.kind = "edit" /\ x.step = "served" /\ p \in x.id => x \in InFlight'
    BY <2>4, <2>8, <2>12, <2>14, <2>15
  <2>16. ShownStored'
    BY <1>0, <2>1, <2>7, <2>13, <2>14, <2>15, StoredKept
  <2> QED  BY <2>9, <2>11, <2>16 DEF StoreInv
<1>12. ASSUME NEW t \in InFlight, PolicyRequestFails(t) PROVE StoreInv'
  <2>1. /\ Ended(t) /\ t.kind \notin Checks
        /\ savingIn' = IF t.kind \in {"switch", "edit"} THEN savingIn \ {PanelOf(t)} ELSE savingIn
        /\ crossed' = (crossed \/ (t.kind \in {"switch", "edit"} /\ t.step = "served"))
        /\ UNCHANGED <<inForce, chips, chosen, editor, changedIn>>
    BY <1>12 DEF PolicyRequestFails
  <2>2. /\ InFlight' \subseteq InFlight \cup {} /\ InFlight \ {t} \subseteq InFlight'
        /\ \A x \in InFlight' : x # t => tasks'[x] = tasks[x]
        /\ tasks[t] = 1 => t \notin InFlight'
    BY <2>1, EndedBag
  <2>3. StoreShape'
    BY <1>0, <2>1, <2>2, ShapeKept DEF StoreShape
  <2>4. t.kind \in ChangeKinds => t \notin InFlight' /\ \A x \in InFlight' : x.kind # t.kind
    BY <1>0, <2>2 DEF ChangesOnce
  <2>5. ChangesOnce'
    <3>1. \A x \in InFlight' : x \in {} \/ (x \in InFlight /\ (x.kind \in ChangeKinds => tasks'[x] = tasks[x]))
      BY <2>2, <2>4
    <3>2. \A x \in InFlight' \ {} : x.kind \in ChangeKinds /\ PanelOf(x) \in savingIn => PanelOf(x) \in savingIn'
      BY <2>1, <2>4 DEF PanelOf
    <3> QED  BY <1>0, <3>1, <3>2, OnceKept
  <2>6. ~crossed' => /\ ~crossed
                     /\ \A x \in InFlight : x.kind \in {"switch", "edit"} /\ x.step = "served" => x \in InFlight'
    BY <2>1, <2>2
  <2>7. ShownStored'
    BY <1>0, <2>1, <2>2, <2>6, StoredKept
  <2> QED  BY <2>3, <2>5, <2>7 DEF StoreInv
<1> QED
  BY <1>1, <1>2, <1>3, <1>4, <1>5, <1>6, <1>7, <1>8, <1>9, <1>10, <1>11, <1>12 DEF PoliciesNext


-----------------------------------------------------------------------------
(* The console *)

\* The page shown keeps its invariant; the others show nothing.
PagesInv ==
  /\ IsABag(tasks)
  /\ IF page = "cockpit" THEN CockpitInv ELSE CockpitIdle
  /\ IF page = "calls" THEN CallInv /\ BusyHeld ELSE CallsIdle
  /\ IF page = "devices" THEN DeviceInv /\ InvokeHeld ELSE DevicesIdle
  /\ IF page = "connectors" THEN SettingInv ELSE SettingsIdle
  /\ IF page = "policies" THEN CheckInv /\ SavingHeld /\ StoreInv ELSE PoliciesIdle
  /\ IF page = "gate" THEN FlowInv /\ ActInv ELSE SignIdle

LEMMA PagesInit == Init => PagesInv
<1> SUFFICES ASSUME Init PROVE PagesInv
  OBVIOUS
<1>1. CASE page = "cockpit" /\ CockpitInit /\ NoCalls /\ NoDevices /\ NoSettings /\ NoPolicies /\ SignIdle
  <2>1. IsABag(tasks) /\ InFlight = {Waiting("list", NoSession)} /\ CockpitIdle
    BY <1>1, OneBag DEF CockpitInit, InFlight
  <2>2. CockpitInv
    BY <2>1 DEF CockpitIdle, CockpitInv, TicketOfSession, WrittenAsReviewed, TimelineOfSession, Panels, Cleared
  <2> QED  BY <1>1, <2>1, <2>2 DEF PagesInv, NoCalls, NoDevices, NoSettings, NoPolicies
<1>2. CASE page = "calls" /\ CallsInit /\ NoCockpit /\ NoDevices /\ NoSettings /\ NoPolicies /\ SignIdle
  <2> DEFINE u == CallTask("calls", "asked", NoCall, NoSession, "none")
  <2>1. IsABag(tasks) /\ InFlight = {u} /\ CallsIdle
    BY <1>2, OneBag DEF CallsInit, InFlight
  <2>2. callRows \in [DOMAIN callRows -> CallRow] /\ DOMAIN callRows \subseteq Calls
    <3>1. PICK rung \in SUBSET Calls :
            callRows \in [rung -> {[status |-> "ringing", session |-> NoSession]}
                                  \cup [status : {"answered"}, session : Sessions]]
      BY <1>2 DEF CallsInit
    <3>2. [status |-> "ringing", session |-> NoSession] \in CallRow
          /\ [status : {"answered"}, session : Sessions] \subseteq CallRow
      BY DEF CallRow, Statuses
    <3> QED  BY <3>1, <3>2
  <2>3. /\ recent = << >> /\ call = NoCall /\ about.session = NoSession
        /\ about = [timeline |-> about.timeline, session |-> about.session, greeting |-> about.greeting,
              recordings |-> about.recordings, observations |-> about.observations,
              sharing |-> about.sharing]
    BY <2>1 DEF CallsIdle
  <2>4. recent \in [DOMAIN recent -> CallRow] /\ DOMAIN recent \subseteq DOMAIN callRows
    BY <2>3
  <2>5. CallInv
    BY <2>1, <2>2, <2>3, <2>4 DEF CallInv, CallShape, CallTaskOK, CallMatch, OneAnswer
  <2>6. BusyHeld
    BY <2>1 DEF CallsIdle, BusyHeld, Flag
  <2> QED  BY <1>2, <2>1, <2>5, <2>6 DEF PagesInv, NoCockpit, NoDevices, NoSettings, NoPolicies
<1>3. CASE page = "devices" /\ DevicesInit /\ NoCockpit /\ NoCalls /\ NoSettings /\ NoPolicies /\ SignIdle
  <2> DEFINE u == Refresh(NoDevice, NoDevice)
  <2>1. IsABag(tasks) /\ InFlight = {u} /\ tasks[u] = 1 /\ DevicesIdle /\ enrolled \subseteq Devices
    BY <1>3, OneBag DEF DevicesInit, InFlight
  <2>2. DeviceInv
    BY <2>1 DEF DevicesIdle, DeviceInv, DeviceTask, Refresh
  <2>3. InvokeHeld
    BY <2>1 DEF DevicesIdle, InvokeHeld
  <2> QED  BY <1>3, <2>1, <2>2, <2>3 DEF PagesInv, NoCockpit, NoCalls, NoSettings, NoPolicies
<1>4. CASE page = "connectors" /\ SettingsInit /\ NoCockpit /\ NoCalls /\ NoDevices /\ NoPolicies /\ SignIdle
  <2>1. IsABag(tasks) /\ InFlight = {List} /\ SettingsIdle
    BY <1>4, OneBag DEF SettingsInit, InFlight
  <2>2. List.kind = "list" /\ List.step = "asked" /\ SettingTaskOK(List)
    BY DEF List, SettingTaskOK, RowKinds
  <2>3. settings \in [Installations -> Row]
    BY <1>4 DEF SettingsInit, Row
  <2>4. /\ rows = << >> /\ editing = << >> /\ savingId = {} /\ linkingId = {}
        /\ results = [i \in Installations |-> [p \in Places |-> NoResult]]
    BY <2>1 DEF SettingsIdle
  <2>5. NoResult \in [check : DOMAIN Place \cup {"none"}, running : BOOLEAN] /\ NoResult.running = FALSE
    BY DEF NoResult
  <2>6. SettingShape
    BY <2>3, <2>4, <2>5 DEF SettingShape
  <2>8. SettingsHeld
    <3>1. \A i \in Installations : \A p \in Places : ~results[i][p].running
      BY <2>4, <2>5
    <3> QED  BY <2>4, <3>1 DEF SettingsHeld
  <2>9. SaveOnce /\ StoredShown
    BY <2>1, <2>2, <2>4 DEF SaveOnce, StoredShown, RowKinds
  <2>7. SettingInv
    BY <2>1, <2>2, <2>6, <2>8, <2>9 DEF SettingInv
  <2> QED  BY <1>4, <2>1, <2>7 DEF PagesInv, NoCockpit, NoCalls, NoDevices, NoPolicies
<1>5. CASE page = "policies" /\ PoliciesInit /\ NoCockpit /\ NoCalls /\ NoDevices /\ NoSettings /\ SignIdle
  <2> DEFINE u == Listing({})
             v == FetchAll({})
  <2>1. u.kind = "policies" /\ u.id = {} /\ PolicyShape(u) /\ v.kind = "all" /\ PolicyShape(v)
    BY DEF Listing, FetchAll, PolicyShape
  <2>2. tasks = One(u) (+) One(v) /\ PoliciesIdle
    BY <1>5 DEF PoliciesInit
  <2>7. u.step = "asked" /\ v.step = "asked" /\ v.left = Tabs
    BY DEF Listing, FetchAll
  <2> HIDE DEF u, v
  <2>3. u # v
    BY <2>1
  <2>4. IsABag(tasks) /\ InFlight = {u, v} /\ tasks[u] = 1
    BY <2>2, <2>3, OneBag, BagAdd DEF InFlight
  <2>5. CheckInv
    BY <2>1, <2>2, <2>4 DEF PoliciesIdle, CheckInv, PolicyTasks, ChecksOnce, FirstAlone, ForChosen,
                            FirstListing, Checks
  <2>6. SavingHeld
    BY <2>2 DEF PoliciesIdle, SavingHeld
  <2>8. StoreTask(u) /\ StoreTask(v)
    BY <2>1, <2>7, PolicyAssumption DEF StoreTask
  <2>9. StoreInv
    <3>1. /\ chips = << >> /\ chosen = << >> /\ editor = << >> /\ DOMAIN << >> = {}
          /\ DOMAIN changedIn = {"panel", "editor"} /\ DOMAIN inForce = Policies
      <4>1. chips = << >> /\ chosen = << >> /\ editor = << >> /\ changedIn = [panel |-> {}, editor |-> {}]
        BY <2>2 DEF PoliciesIdle
      <4>2. DOMAIN changedIn = {"panel", "editor"} /\ DOMAIN << >> = {}
        BY <4>1
      <4>3. inForce \in [Policies -> {FALSE}]
        BY <1>5 DEF PoliciesInit
      <4> QED  BY <4>1, <4>2, <4>3
    <3>2. StoreShape
      BY <2>4, <2>8, <3>1 DEF StoreShape
    <3>3. ChangesOnce
      BY <2>1, <2>4 DEF ChangesOnce
    <3>4. ShownStored
      BY <2>1, <2>4, <2>7, <3>1 DEF ShownStored, Side, Covered
    <3> QED  BY <3>2, <3>3, <3>4 DEF StoreInv
  <2> QED  BY <1>5, <2>4, <2>5, <2>6, <2>9 DEF PagesInv, NoCockpit, NoCalls, NoDevices, NoSettings
<1>6. CASE page = "gate" /\ SignInit /\ NoCockpit /\ NoCalls /\ NoDevices /\ NoSettings /\ NoPolicies
  <2>1. IsABag(tasks) /\ InFlight = {} /\ SignIdle
    BY <1>6, BagSet DEF SignInit, EmptyBag, InFlight
  <2>2. FlowInv
    BY <2>1 DEF SignIdle, FlowInv, FlowRows, FlowTasks, GrantOnce, OneSessionPerFlow
  <2>3. SignPages
    <3>1. /\ cookies = [local |-> 0, oidc |-> 0, state |-> 0] /\ logins = << >> /\ flows = 0 /\ overtaken = {}
          /\ identity = [b \in BrowserTabs |-> NoUser] /\ place = [b \in BrowserTabs |-> 0]
      BY <2>1 DEF SignIdle, NoCookies
    <3>2. Len(logins) = 0
      BY <3>1
    <3>3. cookies \in [local : Token, oidc : Token, state : 0 .. flows]
      BY <3>1, <3>2 DEF Token
    <3> QED  BY <2>1, <3>1, <3>3 DEF SignPages
  <2>4. ASSUME NEW b \in BrowserTabs PROVE Heard(b)
    BY <2>1 DEF SignIdle, NoCookies, Heard, Resolved, Live
  <2>5. ActInv
    BY <2>3, <2>4 DEF ActInv
  <2> QED  BY <1>6, <2>1, <2>2, <2>5 DEF PagesInv, NoCockpit, NoCalls, NoDevices, NoSettings, NoPolicies
<1> QED  BY <1>1, <1>2, <1>3, <1>4, <1>5, <1>6 DEF Init

\* A page that is not touched keeps what it has.
LEMMA IdleStays ==
  /\ CockpitIdle /\ UNCHANGED cockpitVars => CockpitIdle'
  /\ CallsIdle /\ UNCHANGED callVars => CallsIdle'
  /\ DevicesIdle /\ UNCHANGED deviceVars => DevicesIdle'
  /\ SettingsIdle /\ UNCHANGED settingVars => SettingsIdle'
  /\ PoliciesIdle /\ UNCHANGED policyVars => PoliciesIdle'
  /\ SignIdle /\ UNCHANGED signVars => SignIdle'
BY DEF CockpitIdle, cockpitVars, CallsIdle, callVars, DevicesIdle, deviceVars,
       SettingsIdle, settingVars, PoliciesIdle, policyVars, SignIdle, signVars

LEMMA PagesStutter ==
  ASSUME PagesInv, UNCHANGED vars PROVE PagesInv'
<1>1. UNCHANGED <<cockpitVars, callVars, deviceVars, settingVars, policyVars, signVars, tasks, crossed, page>>
  BY DEF vars
<1>2. InFlight' = InFlight
  BY <1>1 DEF InFlight
<1>3. CockpitInv => CockpitInv'
  BY <1>1, <1>2 DEF cockpitVars, CockpitInv, TicketOfSession, WrittenAsReviewed, TimelineOfSession, Loading
<1>4. CallInv => CallInv'
  BY <1>1, <1>2 DEF callVars, CallInv, CallShape, CallTaskOK, CallMatch, CallPanels, Pending
<1>5. DeviceInv => DeviceInv'
  BY <1>1, <1>2 DEF deviceVars, DeviceInv
<1>6. CheckInv => CheckInv'
  BY <1>1, <1>2 DEF policyVars, CheckInv, PolicyTasks, ChecksOnce, FirstAlone, ForChosen
<1>7. FlowInv => FlowInv'
  BY <1>1, <1>2 DEF signVars, FlowInv, FlowRows, FlowTasks, GrantOnce, OneSessionPerFlow
<1>8. SettingInv => SettingInv'
  <2>1. SettingShape => SettingShape'
    BY <1>1 DEF settingVars, SettingShape
  <2>2. \A t \in InFlight : SettingTaskOK(t) => SettingTaskOK(t)'
    BY <1>1 DEF settingVars, SettingTaskOK
  <2>3. SaveOnce /\ StoredShown /\ SettingsHeld => SaveOnce' /\ StoredShown' /\ SettingsHeld'
    BY <1>1, <1>2 DEF settingVars, SaveOnce, StoredShown, SettingsHeld, Loading
  <2> QED  BY <1>2, <2>1, <2>2, <2>3 DEF SettingInv
<1>9. /\ BusyHeld => BusyHeld'
      /\ InvokeHeld => InvokeHeld'
      /\ SavingHeld => SavingHeld'
  BY <1>1, <1>2 DEF callVars, deviceVars, policyVars, BusyHeld, InvokeHeld, SavingHeld, Loading
<1>10. StoreInv => StoreInv'
  <2>1. StoreShape => StoreShape'
    BY <1>1, <1>2 DEF policyVars, StoreShape, StoreTask
  <2>2. ChangesOnce => ChangesOnce'
    BY <1>1, <1>2 DEF policyVars, ChangesOnce
  <2>3. ShownStored => ShownStored'
    BY <1>1, <1>2 DEF policyVars, ShownStored, Side, Covered, Agrees
  <2> QED  BY <2>1, <2>2, <2>3 DEF StoreInv
<1>11. ActInv => ActInv'
  <2>1. \A t : SignData(t) => SignData(t)'
    BY <1>1 DEF signVars, SignData, Token
  <2>2. SignPages => SignPages'
    BY <1>1, <1>2, <2>1 DEF signVars, SignPages, Token, Alone
  <2>3. Resolved(cookies)' = Resolved(cookies) /\ \A t : HeardTask(t) => HeardTask(t)'
    BY <1>1 DEF signVars, HeardTask, Sent, Resolved, Live
  <2>4. \A b : Heard(b) => Heard(b)'
    BY <1>1, <1>2, <2>3 DEF signVars, Heard, TaskOf
  <2> QED  BY <1>1, <2>2, <2>4 DEF signVars, ActInv
<1> QED  BY <1>1, <1>3, <1>4, <1>5, <1>6, <1>7, <1>8, <1>9, <1>10, <1>11, IdleStays DEF PagesInv

LEMMA PagesStep ==
  ASSUME PagesInv, [Next]_vars PROVE PagesInv'
<1>1. CASE UNCHANGED vars
  BY <1>1, PagesStutter
<1>2. CASE Next
  <2>1. page' = page /\ IsABag(tasks)
    BY <1>2 DEF Next, PagesInv
  <2>2. CASE page = "cockpit" /\ CockpitNext /\ UNCHANGED <<callVars, deviceVars, settingVars, policyVars, signVars>>
    <3>1. IsABag(tasks)' /\ CockpitInv'
      BY <2>1, <2>2, CockpitStep DEF PagesInv
    <3> QED  BY <2>1, <2>2, <3>1, IdleStays DEF PagesInv
  <2>3. CASE page = "calls" /\ CallsNext /\ UNCHANGED <<cockpitVars, deviceVars, settingVars, policyVars, signVars>>
    <3>1. IsABag(tasks)' /\ CallInv' /\ BusyHeld'
      BY <2>1, <2>3, CallsStep, CallsHeld DEF PagesInv
    <3> QED  BY <2>1, <2>3, <3>1, IdleStays DEF PagesInv
  <2>4. CASE page = "devices" /\ DevicesNext /\ UNCHANGED <<cockpitVars, callVars, settingVars, policyVars, signVars>>
    <3>1. IsABag(tasks)' /\ DeviceInv' /\ InvokeHeld'
      BY <2>1, <2>4, DevicesStep, DevicesHeld DEF PagesInv
    <3> QED  BY <2>1, <2>4, <3>1, IdleStays DEF PagesInv
  <2>5. CASE page = "connectors" /\ SettingsNext /\ UNCHANGED <<cockpitVars, callVars, deviceVars, policyVars, signVars>>
    <3>1. IsABag(tasks)' /\ SettingInv'
      BY <2>1, <2>5, SettingsStep DEF PagesInv
    <3> QED  BY <2>1, <2>5, <3>1, IdleStays DEF PagesInv
  <2>6. CASE page = "policies" /\ PoliciesNext /\ UNCHANGED <<cockpitVars, callVars, deviceVars, settingVars, signVars>>
    <3>1. IsABag(tasks)' /\ CheckInv' /\ SavingHeld' /\ StoreInv'
      BY <2>1, <2>6, PoliciesStep, PoliciesHeld, StoreStep DEF PagesInv
    <3> QED  BY <2>1, <2>6, <3>1, IdleStays DEF PagesInv
  <2>7. CASE page = "gate" /\ SignNext /\ UNCHANGED <<cockpitVars, callVars, deviceVars, settingVars, policyVars>>
    <3>1. IsABag(tasks)' /\ FlowInv' /\ ActInv'
      BY <2>1, <2>7, SignStep, ActStep DEF PagesInv
    <3> QED  BY <2>1, <2>7, <3>1, IdleStays DEF PagesInv
  <2> QED  BY <1>2, <2>2, <2>3, <2>4, <2>5, <2>6, <2>7 DEF Next
<1> QED  BY <1>1, <1>2

LEMMA PagesAlways == Spec => []PagesInv
<1>1. Init => PagesInv
  BY PagesInit
<1>2. PagesInv /\ [Next]_vars => PagesInv'
  BY PagesStep
<1> QED  BY <1>1, <1>2, PTL DEF Spec

\* Support actions and support note drafts name a ticket of their own session,
\* and the ticket shown is of the session selected, whichever session is selected
\* while a ticket loads (page.tsx, handleSelectSession and handleLoadTicket).
THEOREM TicketsOfSession == Spec => []TicketOfSession
<1>1. CockpitIdle => TicketOfSession
  BY DEF CockpitIdle, TicketOfSession, Panels, Cleared
<1>2. PagesInv => TicketOfSession
  BY <1>1 DEF PagesInv, CockpitInv
<1> QED  BY <1>2, PagesAlways, PTL

\* A note is written back only in the wording that was ticked as reviewed, in
\* whatever order drafts arrive and the text is edited (DraftNotePanel.tsx).
THEOREM NotesAsReviewed == Spec => []WrittenAsReviewed
<1>1. PagesInv => WrittenAsReviewed
  BY DEF PagesInv, CockpitInv, CockpitIdle, WrittenAsReviewed
<1> QED  BY <1>1, PagesAlways, PTL

\* Each page shows panels that are about the session, call, device or policy
\* selected, as far as the property of the page promises it, for every number
\* of handlers under way and every order of their answers (page.tsx,
\* call-console/page.tsx, device-console/page.tsx, DeliveryPolicyPanel.tsx).
THEOREM PanelsHold == Spec => []PanelsOfSelected
<1>1. PagesInv => PanelsOfSession
  <2>1. CockpitInv => PanelsOfSession
    BY DEF CockpitInv, PanelsOfSession
  <2>2. CockpitIdle => PanelsOfSession
    BY DEF CockpitIdle, PanelsOfSession, TimelineOfSession, Panels, Cleared
  <2> QED  BY <2>1, <2>2 DEF PagesInv
<1>2. PagesInv => PanelsOfCall
  <2>1. CallsIdle => PanelsOfCall
    BY DEF CallsIdle, PanelsOfCall
  <2> QED  BY <2>1, PanelsOfCallHold DEF PagesInv
<1>3. PagesInv => DetailOfDevice
  <2>1. DevicesIdle => DetailOfDevice
    BY DEF DevicesIdle, DetailOfDevice
  <2> QED  BY <2>1, DetailOfDeviceHolds DEF PagesInv
<1>4. PagesInv => ChecksOfChosen
  <2>1. PoliciesIdle => ChecksOfChosen
    BY DEF PoliciesIdle, ChecksOfChosen
  <2> QED  BY <2>1, ChecksOfChosenHold DEF PagesInv
<1>5. PagesInv => PanelsOfSelected
  BY <1>1, <1>2, <1>3, <1>4 DEF PanelsOfSelected
<1> QED  BY <1>5, PagesAlways, PTL

\* A sign-in begun at the identity provider makes one session at most, however
\* often, late and in whichever tab its callback is loaded (oidc.service.ts).
THEOREM FlowsEndOnce == Spec => []OneSessionPerFlow
<1>1. SignIdle => OneSessionPerFlow
  BY DEF SignIdle, OneSessionPerFlow
<1>2. PagesInv => OneSessionPerFlow
  BY <1>1 DEF PagesInv, FlowInv, FlowRows
<1> QED  BY <1>2, PagesAlways, PTL

\* A tab that waits for nothing shows whoever its cookies stand for, or the user
\* of a session that has ended, through every order of answers, failure, expiry
\* and log-out, in any number of tabs, unless something overtook it that the page
\* cannot know of (AuthGate.tsx against current-identity.middleware.ts).
THEOREM ActsHold == Spec => []ActsAsShown
<1>1. ActInv => TabsActAsShown
  BY DEF ActInv, Heard, TabsActAsShown, TaskOf
<1>2. SignIdle => TabsActAsShown
  BY DEF SignIdle, NoCookies, TabsActAsShown, Resolved, Live
<1>3. PagesInv => ActsAsShown
  BY <1>1, <1>2 DEF PagesInv, ActsAsShown
<1> QED  BY <1>3, PagesAlways, PTL

\* Whatever saves, links, loads and failures do meanwhile, an edited field stays
\* in its form until Cancel or until the row shown has it, as long as saves do
\* not overlap and the field is not emptied (ConnectorPanel.tsx, handleSave).
THEOREM EditsHold == Spec => EditsKept
<1>1. ASSUME PagesInv, Next PROVE EditKept
  <2>1. CASE page = "connectors" /\ SettingsNext
    BY <1>1, <2>1, EditsStay DEF PagesInv
  <2>2. CASE UNCHANGED settingVars
    BY <2>2 DEF settingVars, EditKept
  <2> QED  BY <1>1, <2>1, <2>2 DEF Next
<1>2. UNCHANGED vars => UNCHANGED <<settingVars, tasks, requests, crossed>>
  BY DEF vars
<1>3. PagesInv /\ [Next]_vars => [EditKept]_<<settingVars, tasks, requests, crossed>>
  BY <1>1, <1>2
<1>4. Spec => [][EditKept]_<<settingVars, tasks, requests, crossed>>
  BY <1>3, PagesAlways, PTL DEF Spec
<1> QED  BY <1>4 DEF EditKept, EditsKept

\* A button that is disabled, or a check shown as running, has a handler under
\* way that will release it: with none, every button is released, in whichever
\* order handlers that share a flag have ended (the `finally` blocks of the pages).
THEOREM ButtonsHold == Spec => []ButtonsReleased
<1>1. ASSUME PagesInv, tasks = EmptyBag
      PROVE  /\ busy = {} /\ ~invoking
             /\ savingId = {} /\ linkingId = {} /\ savingIn = {} /\ checking = {}
             /\ \A i \in Installations : \A p \in Places : ~results[i][p].running
  <2>1. InFlight = {}
    BY <1>1, EmptyNothing DEF InFlight
  <2>2. busy = {}
    BY <1>1, <2>1 DEF PagesInv, BusyHeld, CallsIdle
  <2>3. ~invoking
    BY <1>1, <2>1 DEF PagesInv, InvokeHeld, Loading, DevicesIdle
  <2>4. savingIn = {} /\ checking = {}
    BY <1>1, <2>1 DEF PagesInv, SavingHeld, Loading, PoliciesIdle
  <2>5. SettingsHeld \/ SettingsIdle
    BY <1>1 DEF PagesInv, SettingInv
  <2>6. SettingsIdle => /\ savingId = {} /\ linkingId = {}
                        /\ \A i \in Installations : \A p \in Places : ~results[i][p].running
    BY DEF SettingsIdle, NoResult
  <2>7. SettingsHeld => /\ savingId = {} /\ linkingId = {}
                        /\ \A i \in Installations : \A p \in Places : ~results[i][p].running
    BY <2>1 DEF SettingsHeld, Loading
  <2> QED  BY <2>2, <2>3, <2>4, <2>5, <2>6, <2>7
<1>2. PagesInv => ButtonsReleased
  BY <1>1 DEF ButtonsReleased
<1> QED  BY <1>2, PagesAlways, PTL

\* With nothing under way, the connector panel shows each installation, and the
\* policy panels each policy, as it is stored: whatever loads, saves, links and
\* changes have come before, in whichever order they were answered or failed, as
\* far as RowsAsStored and PoliciesAsStored promise it (ConnectorPanel.tsx,
\* DeliveryPolicyPanel.tsx, AdminPolicyPanel.tsx).
THEOREM StoredHold == Spec => []ShownAsStored
<1>1. ASSUME PagesInv, tasks = EmptyBag PROVE InFlight = {}
  BY <1>1, EmptyNothing DEF InFlight
<1>2. PagesInv => RowsAsStored
  <2>1. SettingsIdle => RowsAsStored
    BY DEF SettingsIdle, RowsAsStored
  <2>2. ASSUME PagesInv, SettingInv PROVE RowsAsStored
    BY <1>1, <2>2 DEF SettingInv, StoredShown, RowsAsStored
  <2> QED  BY <2>1, <2>2 DEF PagesInv
<1>3. PagesInv => PoliciesAsStored
  <2>1. PoliciesIdle => PoliciesAsStored
    BY DEF PoliciesIdle, PoliciesAsStored
  <2>2. ASSUME PagesInv, StoreInv PROVE PoliciesAsStored
    BY <1>1, <2>2 DEF StoreInv, ShownStored, Covered, PoliciesAsStored
  <2> QED  BY <2>1, <2>2 DEF PagesInv
<1>4. PagesInv => ShownAsStored
  BY <1>2, <1>3 DEF ShownAsStored
<1> QED  BY <1>4, PagesAlways, PTL
-----------------------------------------------------------------------------
(* The types of the cockpit *)

\* A handler names a session the API has stored, except where none is needed.
CockpitTask(t) ==
  /\ t \in Task
  /\ t.session \in stored \cup {NoSession}
  /\ t.session = NoSession => t.kind \in {"list", "create"}

CockpitTypes ==
  /\ Opened \subseteq stored /\ stored \subseteq Sessions
  /\ known \subseteq stored
  /\ linked \in Sessions \cup {NoSession}
  /\ selected \in stored \cup {NoSession}
  /\ shown \in [Panels -> Sessions \cup {NoSession}]
  /\ timelineError \in BOOLEAN
  /\ note \in [text : Texts \cup {NoText}, reviewed : BOOLEAN]
  /\ ticked \in Texts \cup {NoText}
  /\ writes \subseteq [text : Texts, ticked : Texts \cup {NoText}]
  /\ filed \subseteq [session : Sessions, ticket : Sessions \cup {NoSession}]
  /\ \A t \in InFlight : CockpitTask(t)

LEMMA WaitingTask ==
  ASSUME NEW kind \in Kinds, NEW s \in stored \cup {NoSession}, stored \subseteq Sessions,
         s = NoSession => kind \in {"list", "create"}
  PROVE  CockpitTask(Waiting(kind, s))
BY DEF CockpitTask, Task

LEMMA AskTypes ==
  ASSUME IsABag(tasks), CockpitTypes, NEW t, Ask(t), CockpitTask(t),
         writes' \subseteq [text : Texts, ticked : Texts \cup {NoText}],
         filed' \subseteq [session : Sessions, ticket : Sessions \cup {NoSession}]
  PROVE  CockpitTypes'
<1>1. InFlight' = InFlight \cup {t}
  BY WaitsBag DEF Ask
<1>2. UNCHANGED <<stored, known, linked, selected, shown, timelineError, note, ticked>>
  BY DEF Ask
<1>3. \A x \in InFlight' : CockpitTask(x)'
  BY <1>1, <1>2 DEF CockpitTypes, CockpitTask
<1> QED  BY <1>2, <1>3 DEF CockpitTypes

LEMMA AnswerTypes ==
  ASSUME CockpitTypes, NEW t \in InFlight, NEW u, CockpitTask(u), InFlight' \subseteq InFlight \cup {u},
         UNCHANGED <<stored, known, linked, selected, ticked, writes, filed>>,
         timelineError' \in BOOLEAN,
         shown' = shown \/ \E p \in Panels : shown' = [shown EXCEPT ![p] = t.session],
         note' \in [text : Texts \cup {NoText}, reviewed : BOOLEAN]
  PROVE  CockpitTypes'
<1>1. \A x \in InFlight' : CockpitTask(x)'
  BY DEF CockpitTypes, CockpitTask
<1>2. t.session \in Sessions \cup {NoSession}
  BY DEF CockpitTypes, CockpitTask
<1>3. shown' \in [Panels -> Sessions \cup {NoSession}]
  BY <1>2 DEF CockpitTypes
<1> QED  BY <1>1, <1>3 DEF CockpitTypes

LEMMA TurnTypes ==
  ASSUME NEW s \in stored', stored \subseteq stored', stored' \subseteq Sessions,
         NEW rest, NEW newObject, IsABag(rest), \A t \in BagToSet(rest) : CockpitTask(t),
         timelineError \in BOOLEAN, Turn(s, rest, newObject)
  PROVE  /\ \A t \in InFlight' : CockpitTask(t)'
         /\ selected' = s /\ timelineError' \in BOOLEAN
<1>1. InFlight' \subseteq BagToSet(rest) \cup {Waiting("timeline", s), Waiting("refresh", s)}
  BY TurnBag
<1>2. /\ selected' = s /\ timelineError' \in BOOLEAN
  BY DEF Turn
<1>3. ASSUME NEW x \in BagToSet(rest) PROVE CockpitTask(x)'
  BY DEF CockpitTask
<1>4. s # NoSession /\ s \in Sessions
  BY TabAssumption
<1>5. CockpitTask(Waiting("timeline", s))' /\ CockpitTask(Waiting("refresh", s))'
  BY <1>4 DEF CockpitTask, Task, Kinds
<1> QED  BY <1>1, <1>2, <1>3, <1>5

LEMMA ChooseTypes ==
  ASSUME CockpitTypes, NEW s \in stored', stored \subseteq stored', stored' \subseteq Sessions,
         NEW rest, IsABag(rest), BagToSet(rest) \subseteq InFlight, Choose(s, rest),
         known' \subseteq stored', linked' \in Sessions \cup {NoSession},
         UNCHANGED <<note, ticked, writes, filed>>
  PROVE  CockpitTypes'
<1> DEFINE d == Waiting("details", s)
           all == rest (+) One(d)
<1>1. IsABag(all) /\ BagToSet(all) = BagToSet(rest) \cup {d}
  BY OneBag, BagAdd
<1>2. Turn(s, all, s # selected) /\ shown' = Clears
  BY DEF Choose
<1> HIDE DEF all
<1>3. s # NoSession /\ s \in Sessions
  BY TabAssumption
<1>4. \A t \in BagToSet(rest) : CockpitTask(t)
  BY DEF CockpitTypes
<1>5. Turn(s, all, s # selected) => \A t \in InFlight' : t \in BagToSet(rest) \/ t \in {d, Waiting("timeline", s), Waiting("refresh", s)}
  BY <1>1, TurnBag
<1>6. \A t \in InFlight' : CockpitTask(t)'
  <2>1. \A t \in BagToSet(rest) : CockpitTask(t)'
    BY <1>4 DEF CockpitTask
  <2>2. \A t \in {d, Waiting("timeline", s), Waiting("refresh", s)} : CockpitTask(t)'
    BY <1>3 DEF CockpitTask, Task, Kinds
  <2> QED  BY <1>2, <1>5, <2>1, <2>2
<1>7. selected' = s /\ timelineError' \in BOOLEAN
  BY <1>2 DEF Turn, CockpitTypes
<1>8. shown' \in [Panels -> Sessions \cup {NoSession}]
  BY <1>2 DEF Clears, CockpitTypes
<1> QED  BY <1>6, <1>7, <1>8 DEF CockpitTypes

LEMMA RestOf ==
  ASSUME IsABag(tasks), NEW t
  PROVE  IsABag(tasks (-) One(t)) /\ BagToSet(tasks (-) One(t)) \subseteq InFlight
BY OneBag, BagTake DEF InFlight

LEMMA TicketLoadedTypes ==
  ASSUME IsABag(tasks), CockpitTypes, NEW t \in InFlight, TicketLoaded(t)
  PROVE  CockpitTypes'
<1> DEFINE u == ThenDetails(t)
           all == (tasks (-) One(t)) (+) One(u)
<1>1. CockpitTask(t) /\ t.kind = "ticket"
  BY DEF CockpitTypes, TicketLoaded
<1>2. CockpitTask(u)
  BY <1>1 DEF CockpitTask, Task, ThenDetails
<1>3. IsABag(all) /\ BagToSet(all) \subseteq InFlight \cup {u}
  BY RestOf, OneBag, BagAdd
<1>4. /\ Turn(t.session, all, TRUE)
      /\ shown' = [shown EXCEPT !["ticket"] = t.session]
      /\ UNCHANGED <<stored, known, linked, note, ticked, writes, filed>>
  BY DEF TicketLoaded
<1> HIDE DEF all, u
<1>5. t.session \in stored /\ t.session \in Sessions /\ t.session \in stored' /\ stored' \subseteq Sessions
  BY <1>1, <1>4 DEF CockpitTask, CockpitTypes
<1>6. \A x \in BagToSet(all) : CockpitTask(x)
  BY <1>2, <1>3 DEF CockpitTypes
<1>7. (\A x \in InFlight' : CockpitTask(x)') /\ selected' = t.session /\ timelineError' \in BOOLEAN
  BY <1>3, <1>4, <1>5, <1>6, TurnTypes DEF CockpitTypes
<1>8. shown' \in [Panels -> Sessions \cup {NoSession}]
  BY <1>4, <1>5 DEF CockpitTypes
<1> QED  BY <1>4, <1>5, <1>7, <1>8 DEF CockpitTypes

LEMMA CockpitTypesStep ==
  ASSUME IsABag(tasks), CockpitTypes, CockpitNext
  PROVE  CockpitTypes'
<1>0. /\ stored \subseteq Sessions /\ known \subseteq stored /\ selected \in stored \cup {NoSession}
      /\ writes \subseteq [text : Texts, ticked : Texts \cup {NoText}]
      /\ filed \subseteq [session : Sessions, ticket : Sessions \cup {NoSession}]
      /\ shown["ticket"] \in Sessions \cup {NoSession}
      /\ note \in [text : Texts \cup {NoText}, reviewed : BOOLEAN] /\ ticked \in Texts \cup {NoText}
      /\ timelineError \in BOOLEAN
  BY DEF CockpitTypes, Panels, Cleared
<1>1. ASSUME NEW s \in Sessions, Select(s) PROVE CockpitTypes'
  BY <1>0, <1>1, ChooseTypes DEF Select, InFlight, CockpitTypes
<1>2. CASE CreateSession
  BY <1>0, <1>2, WaitingTask, AskTypes DEF CreateSession, Kinds
<1>3. ASSUME NEW kind \in Handlers, Fetch(kind) PROVE CockpitTypes'
  <2>1. kind \in Kinds
    BY CockpitAssumption DEF Kinds
  <2> QED  BY <1>0, <1>3, <2>1, WaitingTask, AskTypes DEF Fetch
<1>4. CASE AddManual
  BY <1>0, <1>4, WaitingTask, AskTypes DEF AddManual, Kinds
<1>5. CASE Writeback
  <2> DEFINE t == [Waiting("writeback", selected) EXCEPT !.text = note.text]
  <2>1. CockpitTask(t)
    BY <1>0, <1>5 DEF Writeback, CockpitTask, Task, Kinds
  <2>2. [text |-> note.text, ticked |-> ticked] \in [text : Texts, ticked : Texts \cup {NoText}]
    BY <1>0, <1>5 DEF Writeback
  <2>3. Ask(t) /\ writes' = writes \cup {[text |-> note.text, ticked |-> ticked]} /\ filed' = filed
    BY <1>5 DEF Writeback
  <2> HIDE DEF t
  <2> QED  BY <1>0, <2>1, <2>2, <2>3, AskTypes
<1>6. CASE CreateAction
  BY <1>0, <1>6, WaitingTask, AskTypes DEF CreateAction, Kinds
<1>7. CASE MoveAction
  BY <1>0, <1>7, WaitingTask, AskTypes DEF MoveAction, Kinds
<1>8. CASE DraftSupportNote
  BY <1>0, <1>8, WaitingTask, AskTypes DEF DraftSupportNote, Kinds
<1>9. ASSUME NEW x \in Texts, EditNote(x) PROVE CockpitTypes'
  BY <1>9 DEF EditNote, CockpitTypes, CockpitTask, InFlight
<1>10. CASE TickReviewed
  <2>1. /\ note' \in [text : Texts \cup {NoText}, reviewed : BOOLEAN] /\ ticked' \in Texts \cup {NoText}
        /\ UNCHANGED <<stored, known, linked, selected, shown, timelineError, tasks, writes, filed>>
    BY <1>0, <1>10 DEF TickReviewed
  <2> QED  BY <2>1 DEF CockpitTypes, CockpitTask, InFlight
<1>11. CASE ListArrives
  <2> DEFINE t == Waiting("list", NoSession)
  <2>1. /\ t \in InFlight /\ known' \subseteq stored' /\ stored' = stored
        /\ UNCHANGED <<note, ticked, writes, filed>>
    BY <1>11 DEF ListArrives
  <2>2. CASE linked \in known'
    BY <1>0, <1>11, <2>1, <2>2, RestOf, ChooseTypes DEF ListArrives
  <2>3. CASE linked \notin known'
    <3>1. /\ tasks' = tasks (-) One(t)
          /\ UNCHANGED <<linked, selected, shown, timelineError>>
      BY <1>11, <2>3 DEF ListArrives
    <3>2. InFlight' \subseteq InFlight
      BY <3>1, RestOf DEF InFlight
    <3> QED  BY <2>1, <3>1, <3>2 DEF CockpitTypes, CockpitTask
  <2> QED  BY <2>2, <2>3
<1>12. ASSUME NEW t \in InFlight, SessionCreated(t) PROVE CockpitTypes'
  <2>2. PICK s \in Sessions \ stored : stored' = stored \cup {s} /\ known' = known \cup {s} /\ Choose(s, tasks (-) One(t))
    BY <1>12 DEF SessionCreated
  <2>3. UNCHANGED <<linked, note, ticked, writes, filed>>
    BY <1>12 DEF SessionCreated
  <2>4. linked \in Sessions \cup {NoSession}
    BY DEF CockpitTypes
  <2> QED  BY <1>0, <2>2, <2>3, <2>4, RestOf, ChooseTypes
<1>13. ASSUME NEW t \in InFlight, TicketLoaded(t) PROVE CockpitTypes'
  BY <1>13, TicketLoadedTypes
<1>14. ASSUME NEW t \in InFlight, CockpitTask(t), ThenDetails(t) = [kind |-> t.kind, step |-> "details", session |-> t.session, text |-> t.text]
       PROVE  CockpitTask(ThenDetails(t))
  BY <1>14 DEF CockpitTask, Task
<1>15. \A t \in InFlight : CockpitTask(t) /\ CockpitTask(ThenDetails(t))
  <2> TAKE t \in InFlight
  <2>1. CockpitTask(t)
    BY DEF CockpitTypes
  <2>2. ThenDetails(t) = [kind |-> t.kind, step |-> "details", session |-> t.session, text |-> t.text]
    BY <2>1 DEF CockpitTask, Task, ThenDetails
  <2> QED  BY <2>1, <2>2, <1>14
<1>16. ASSUME NEW t \in InFlight, Fetched(t) PROVE CockpitTypes'
  <2>1. PICK x \in Texts \cup {NoText} : GoesOn(t, [ThenDetails(t) EXCEPT !.text = x])
    BY <1>16 DEF Fetched
  <2> DEFINE u == [ThenDetails(t) EXCEPT !.text = x]
  <2>2. CockpitTask(u)
    <3>1. CockpitTask(ThenDetails(t))
      BY <1>15
    <3> HIDE DEF ThenDetails
    <3> QED  BY <3>1 DEF CockpitTask, Task
  <2>3. /\ t.kind \in {"glpi", "evidence", "draft", "greeting"} /\ shown' = [shown EXCEPT ![Fills[t.kind]] = t.session]
        /\ UNCHANGED <<stored, known, linked, selected, timelineError, note, ticked, writes, filed>>
    BY <1>16 DEF Fetched
  <2>4. Fills[t.kind] \in Panels
    BY <2>3 DEF Fills, Panels, Cleared
  <2> HIDE DEF u
  <2>5. InFlight' \subseteq InFlight \cup {u}
    BY <2>1, GoesOnBag DEF u
  <2> QED  BY <1>0, <2>2, <2>3, <2>4, <2>5, AnswerTypes
<1>17. ASSUME NEW t \in InFlight, Proceeds(t) PROVE CockpitTypes'
  <2>1. UNCHANGED <<stored, known, linked, selected, shown, timelineError, note, ticked, writes, filed>>
    BY <1>17 DEF Proceeds
  <2>2. CockpitTask([t EXCEPT !.step = "drafted"]) /\ CockpitTask([t EXCEPT !.step = "listing"])
    BY <1>15 DEF CockpitTask, Task
  <2>3. PICK u : CockpitTask(u) /\ (Ended(t) \/ GoesOn(t, u))
    BY <1>15, <1>17, <2>2 DEF Proceeds, Ended
  <2>4. InFlight' \subseteq InFlight \cup {u}
    BY <2>3, GoesOnBag, EndedBag
  <2> QED  BY <1>0, <2>1, <2>3, <2>4, AnswerTypes
<1>18. ASSUME NEW t \in InFlight, WrittenBack(t) PROVE CockpitTypes'
  <2>1. /\ UNCHANGED <<stored, known, linked, selected, timelineError, note, ticked, writes, filed>>
        /\ shown' = [shown EXCEPT !["written"] = t.session] /\ GoesOn(t, ThenDetails(t))
    BY <1>18 DEF WrittenBack
  <2>2. InFlight' \subseteq InFlight \cup {ThenDetails(t)}
    BY <2>1, GoesOnBag
  <2>3. "written" \in Panels
    BY DEF Panels, Cleared
  <2> QED  BY <1>0, <1>15, <2>1, <2>2, <2>3, AnswerTypes
<1>19. ASSUME NEW t \in InFlight, Listed(t) PROVE CockpitTypes'
  <2>1. /\ UNCHANGED <<stored, known, linked, selected, timelineError, note, ticked, writes, filed>>
        /\ (shown' = [shown EXCEPT !["actions"] = t.session] \/ shown' = shown)
        /\ (Ended(t) \/ GoesOn(t, ThenDetails(t)))
    BY <1>19 DEF Listed, Ended
  <2>2. InFlight' \subseteq InFlight \cup {ThenDetails(t)}
    BY <2>1, GoesOnBag, EndedBag
  <2>3. "actions" \in Panels
    BY DEF Panels, Cleared
  <2> QED  BY <1>0, <1>15, <2>1, <2>2, <2>3, AnswerTypes
<1>20. ASSUME NEW t \in InFlight, DetailsEnd(t) PROVE CockpitTypes'
  <2>1. /\ UNCHANGED <<stored, known, linked, selected, timelineError, ticked, writes, filed>>
        /\ (shown' = [shown EXCEPT !["details"] = t.session] \/ shown' = shown)
        /\ (note' = note \/ note' = [text |-> t.text, reviewed |-> FALSE])
        /\ Ended(t)
    BY <1>20 DEF DetailsEnd, NoteAfter, Ended
  <2>2. InFlight' \subseteq InFlight \cup {t}
    BY <2>1, EndedBag
  <2>3. "details" \in Panels
    BY DEF Panels, Cleared
  <2>4. note' \in [text : Texts \cup {NoText}, reviewed : BOOLEAN]
    <3>1. t.text \in Texts \cup {NoText}
      BY <1>15 DEF CockpitTask, Task
    <3>2. [text |-> t.text, reviewed |-> FALSE] \in [text : Texts \cup {NoText}, reviewed : BOOLEAN]
      BY <3>1
    <3>3. note' \in {note, [text |-> t.text, reviewed |-> FALSE]}
      BY <2>1
    <3> HIDE DEF Waiting
    <3> QED  BY <1>0, <3>2, <3>3
  <2> QED  BY <1>0, <1>15, <2>1, <2>2, <2>3, <2>4, AnswerTypes
<1>21. ASSUME NEW t \in InFlight, TimelineEnds(t) PROVE CockpitTypes'
  <2>1. /\ UNCHANGED <<stored, known, linked, selected, note, ticked, writes, filed>>
        /\ (shown' = [shown EXCEPT !["timeline"] = t.session] \/ shown' = shown)
        /\ timelineError' \in BOOLEAN /\ Ended(t)
    BY <1>0, <1>21 DEF TimelineEnds, Ended
  <2>2. InFlight' \subseteq InFlight \cup {t}
    BY <2>1, EndedBag
  <2>3. "timeline" \in Panels
    BY DEF Panels
  <2> QED  BY <1>0, <1>15, <2>1, <2>2, <2>3, AnswerTypes
<1>22. ASSUME NEW t \in InFlight, Fails(t) PROVE CockpitTypes'
  <2>1. /\ UNCHANGED <<stored, known, linked, selected, timelineError, note, ticked, writes, filed>>
        /\ (shown' = [shown EXCEPT !["written"] = t.session] \/ shown' = shown)
        /\ Ended(t)
    BY <1>22 DEF Fails, Ended
  <2>2. InFlight' \subseteq InFlight \cup {t}
    BY <2>1, EndedBag
  <2>3. "written" \in Panels
    BY DEF Panels, Cleared
  <2> QED  BY <1>0, <1>15, <2>1, <2>2, <2>3, AnswerTypes
<1> QED
  BY <1>1, <1>2, <1>3, <1>4, <1>5, <1>6, <1>7, <1>8, <1>9, <1>10, <1>11, <1>12, <1>13,
     <1>16, <1>17, <1>18, <1>19, <1>20, <1>21, <1>22 DEF CockpitNext, Operator, Answers
-----------------------------------------------------------------------------
(* The types of the call console *)

Flags == UNION {Flag[k] : k \in DOMAIN Flag}

\* What a handler is about to show as a session is one.
CallTaskNames(t) ==
  /\ t.kind \in AboutKinds => t.session \in Sessions
  /\ t.step = "observations" => t.snap.session # NoSession

CallTypes ==
  /\ about.timeline \in Calls \cup {NoCall}
  /\ {about.session, about.greeting, about.sharing} \subseteq Sessions \cup {NoSession}
  /\ about.recordings \subseteq Calls
  /\ about.observations \subseteq Sessions
  /\ busy \subseteq Flags
  /\ \A t \in InFlight : CallTaskNames(t)

LEMMA FlagsOf == /\ \A k \in DOMAIN Flag : Flag[k] \subseteq Flags
                 /\ {"recordings", "observations"} \subseteq Flags
<1>1. \A k \in DOMAIN Flag : Flag[k] \subseteq Flags
  BY DEF Flags
<1>2. "recording" \in DOMAIN Flag /\ "recordings" \in Flag["recording"]
      /\ "capture" \in DOMAIN Flag /\ "observations" \in Flag["capture"]
  BY DEF Flag
<1> QED  BY <1>1, <1>2

LEMMA CallMoveTypes ==
  ASSUME IsABag(tasks), CallTypes, NEW t \in InFlight, NEW u, Ended(t) \/ (GoesOn(t, u) /\ CallTaskNames(u)),
         about'.timeline \in Calls \cup {NoCall},
         {about'.session, about'.greeting, about'.sharing} \subseteq Sessions \cup {NoSession},
         about'.recordings \subseteq Calls,
         about'.observations \subseteq Sessions,
         busy' \subseteq Flags
  PROVE  CallTypes'
<1>1. \A x \in InFlight' : x \in InFlight \/ CallTaskNames(x)
  BY GoesOnBag, EndedBag
<1> QED  BY <1>1 DEF CallTypes, CallTaskNames

\* A new handler starts, and shows nothing yet.
LEMMA CallStartTypes ==
  ASSUME IsABag(tasks), CallTypes, NEW u, Waits(u), CallTaskNames(u), about' = about, busy' \subseteq Flags
  PROVE  CallTypes'
<1>1. InFlight' = InFlight \cup {u}
  BY WaitsBag
<1> QED  BY <1>1 DEF CallTypes, CallTaskNames

LEMMA PressTypes ==
  ASSUME IsABag(tasks), CallTypes, NEW kind \in DOMAIN Flag, NEW s, NEW key, Press(kind, s, key),
         kind \in AboutKinds => s \in Sessions
  PROVE  CallTypes'
<1> DEFINE u == CallTask(kind, "asked", call, s, key)
<1>1. CallTaskNames(u)
  BY DEF CallTaskNames
<1>2. Waits(u) /\ about' = about /\ busy' = busy \cup Flag[kind]
  BY DEF Press
<1>3. busy' \subseteq Flags
  BY <1>2, FlagsOf DEF CallTypes
<1> HIDE DEF u
<1> QED  BY <1>1, <1>2, <1>3, CallStartTypes

LEMMA DetailsTypes ==
  ASSUME IsABag(tasks), CallInv, CallTypes, NEW t \in InFlight, Details(t)
  PROVE  CallTypes'
<1>1. t.step \in {"timeline", "session", "recordings", "observations", "sharing"}
  BY DEF Details, Timeline, LinkedSession, RecordingsListed, ObservationsListed, SharingKnown
<1>2. /\ CallTaskOK(t) /\ t.kind # "calls" /\ t.step # "listing"
      /\ t.snap \in Snapshot
  BY <1>1 DEF CallInv, CallShape, CallTaskOK, OneAnswer
<1>3. t = CallTask(t.kind, t.step, t.snap, t.session, t.key)
  BY <1>2 DEF CallTaskOK
<1>4. t.snap.id \in Calls /\ t.snap.session \in Sessions \cup {NoSession}
  BY <1>2 DEF Snapshot
<1>5. about = [timeline |-> about.timeline, session |-> about.session, greeting |-> about.greeting,
              recordings |-> about.recordings, observations |-> about.observations,
              sharing |-> about.sharing]
  BY DEF CallInv, CallShape
<1>6. /\ about.timeline \in Calls \cup {NoCall}
      /\ {about.session, about.greeting, about.sharing} \subseteq Sessions \cup {NoSession}
      /\ about.recordings \subseteq Calls
      /\ about.observations \subseteq Sessions
      /\ busy \subseteq Flags
      /\ CallTaskNames(t)
  BY DEF CallTypes
<1>7. t.kind = "greeting" => t.session \in Sessions
  BY <1>6 DEF CallTaskNames, AboutKinds
<1>8. ASSUME NEW step, step = "observations" => t.snap.session # NoSession
      PROVE  CallTaskNames([t EXCEPT !.step = step])
  <2>1. [t EXCEPT !.step = step] = CallTask(t.kind, step, t.snap, t.session, t.key)
    BY <1>3
  <2> QED  BY <1>6, <1>8, <2>1 DEF CallTaskNames
<1>12. CASE Timeline(t)
  <2>1. CASE t.snap.session # NoSession
    <3>1. /\ \E shownFor \in {t.snap.id, NoCall} : about' = [about EXCEPT !.timeline = shownFor]
          /\ GoesOn(t, [t EXCEPT !.step = "session"]) /\ busy' = busy
      BY <1>12, <2>1 DEF Timeline
    <3>2. CallTaskNames([t EXCEPT !.step = "session"])
      BY <1>8
    <3> QED  BY <1>4, <1>5, <1>6, <3>1, <3>2, CallMoveTypes
  <2>2. CASE t.snap.session = NoSession
    <3>1. /\ \E shownFor \in {t.snap.id, NoCall} :
               about' = [about EXCEPT !.timeline = shownFor, !.session = NoSession, !.greeting = NoSession]
          /\ GoesOn(t, [t EXCEPT !.step = "recordings"]) /\ busy' = busy \cup {"recordings"}
      BY <1>12, <2>2 DEF Timeline
    <3>2. CallTaskNames([t EXCEPT !.step = "recordings"])
      BY <1>8
    <3>3. busy' \subseteq Flags
      BY <1>6, <3>1, FlagsOf
    <3> QED  BY <1>4, <1>5, <1>6, <3>1, <3>2, <3>3, CallMoveTypes
  <2> QED  BY <2>1, <2>2
<1>13. CASE LinkedSession(t)
  <2>1. /\ GoesOn(t, [t EXCEPT !.step = "recordings"]) /\ busy' = busy \cup {"recordings"}
        /\ \E s \in {t.snap.session, NoSession} :
               about' = [about EXCEPT !.session = s, !.greeting = NoSession]
    BY <1>13 DEF LinkedSession
  <2>2. CallTaskNames([t EXCEPT !.step = "recordings"])
    BY <1>8
  <2>3. busy' \subseteq Flags
    BY <1>6, <2>1, FlagsOf
  <2> QED  BY <1>4, <1>5, <1>6, <2>1, <2>2, <2>3, CallMoveTypes
<1>14. CASE RecordingsListed(t)
  <2>1. CASE t.snap.session # NoSession
    <3>1. /\ \E found \in {{t.snap.id}, {}} : about' = [about EXCEPT !.recordings = found]
          /\ GoesOn(t, [t EXCEPT !.step = "observations"])
          /\ busy' = (busy \ {"recordings"}) \cup {"observations"}
      BY <1>14, <2>1 DEF RecordingsListed
    <3>2. CallTaskNames([t EXCEPT !.step = "observations"])
      BY <1>8, <2>1
    <3>3. busy' \subseteq Flags
      BY <1>6, <3>1, FlagsOf
    <3> QED  BY <1>4, <1>5, <1>6, <3>1, <3>2, <3>3, CallMoveTypes
  <2>2. CASE t.snap.session = NoSession
    <3>1. /\ \E found \in {{t.snap.id}, {}} :
               about' = AfterDetails(t, [[about EXCEPT !.recordings = found]
                                           EXCEPT !.observations = {}, !.sharing = NoSession])
          /\ Ended(t) /\ busy' \subseteq busy
      BY <1>14, <2>2 DEF RecordingsListed, Over
    <3>2. PICK found \in {{t.snap.id}, {}} :
               about' = AfterDetails(t, [[about EXCEPT !.recordings = found]
                                           EXCEPT !.observations = {}, !.sharing = NoSession])
      BY <3>1
    <3> DEFINE listed == [[about EXCEPT !.recordings = found] EXCEPT !.observations = {}, !.sharing = NoSession]
    <3>3. listed = [about EXCEPT !.recordings = found, !.observations = {}, !.sharing = NoSession]
      BY <1>5
    <3>4. about' = IF t.kind = "greeting" THEN [listed EXCEPT !.greeting = t.session] ELSE listed
      BY <3>2 DEF AfterDetails
    <3>5. \/ about' = [about EXCEPT !.recordings = found, !.observations = {}, !.sharing = NoSession]
          \/ /\ t.kind = "greeting"
             /\ about' = [about EXCEPT !.recordings = found, !.observations = {}, !.sharing = NoSession,
                                       !.greeting = t.session]
      BY <1>5, <3>3, <3>4
    <3> HIDE DEF listed
    <3>6. /\ about'.timeline \in Calls \cup {NoCall}
          /\ {about'.session, about'.greeting, about'.sharing} \subseteq Sessions \cup {NoSession}
          /\ about'.recordings \subseteq Calls
          /\ about'.observations \subseteq Sessions
      BY <1>4, <1>5, <1>6, <1>7, <3>5
    <3> QED  BY <1>6, <3>1, <3>6, CallMoveTypes
  <2> QED  BY <2>1, <2>2
<1>15. CASE ObservationsListed(t)
  <2>1. /\ t.step = "observations" /\ GoesOn(t, [t EXCEPT !.step = "sharing"]) /\ busy' \subseteq busy
        /\ \E found \in {{t.snap.session}, {}} :
               about' = [about EXCEPT !.observations = found, !.sharing = NoSession]
    BY <1>15 DEF ObservationsListed
  <2>2. CallTaskNames([t EXCEPT !.step = "sharing"])
    BY <1>8
  <2>3. t.snap.session \in Sessions
    BY <1>4, <1>6, <2>1 DEF CallTaskNames
  <2>4. /\ about'.timeline \in Calls \cup {NoCall}
        /\ {about'.session, about'.greeting, about'.sharing} \subseteq Sessions \cup {NoSession}
        /\ about'.recordings \subseteq Calls
        /\ about'.observations \subseteq Sessions
    BY <1>5, <1>6, <2>1, <2>3
  <2> QED  BY <1>6, <2>1, <2>2, <2>4, CallMoveTypes
<1>16. CASE SharingKnown(t)
  <2>1. /\ Ended(t) /\ busy' \subseteq busy
        /\ \E s \in {t.snap.session, NoSession} : about' = AfterDetails(t, [about EXCEPT !.sharing = s])
    BY <1>16 DEF SharingKnown, Over
  <2>2. PICK s \in {t.snap.session, NoSession} :
             \/ about' = [about EXCEPT !.sharing = s]
             \/ /\ t.kind = "greeting"
                /\ about' = [about EXCEPT !.sharing = s, !.greeting = t.session]
    BY <1>5, <2>1 DEF AfterDetails
  <2>3. /\ about'.timeline \in Calls \cup {NoCall}
        /\ {about'.session, about'.greeting, about'.sharing} \subseteq Sessions \cup {NoSession}
        /\ about'.recordings \subseteq Calls
        /\ about'.observations \subseteq Sessions
    BY <1>4, <1>5, <1>6, <1>7, <2>2
  <2> QED  BY <1>6, <2>1, <2>3, CallMoveTypes
<1> QED  BY <1>12, <1>13, <1>14, <1>15, <1>16 DEF Details

LEMMA CallsTypesStep ==
  ASSUME IsABag(tasks), CallInv, CallTypes, CallsNext
  PROVE  CallTypes'
<1>0. /\ about.timeline \in Calls \cup {NoCall}
      /\ {about.session, about.greeting, about.sharing} \subseteq Sessions \cup {NoSession}
      /\ about.recordings \subseteq Calls
      /\ about.observations \subseteq Sessions
      /\ busy \subseteq Flags
      /\ about = [timeline |-> about.timeline, session |-> about.session, greeting |-> about.greeting,
              recordings |-> about.recordings, observations |-> about.observations,
              sharing |-> about.sharing]
  BY DEF CallTypes, CallInv, CallShape
<1>1. \A t \in InFlight : /\ CallTaskNames(t) /\ t = CallTask(t.kind, t.step, t.snap, t.session, t.key)
                          /\ t.kind # "calls" => t.snap \in Snapshot
  BY DEF CallTypes, CallInv, CallShape, CallTaskOK
<1>2. ASSUME NEW c \in Calls, SelectCall(c) PROVE CallTypes'
  <2> DEFINE u == CallTask("select", "timeline", Copy(c, recent[c]), NoSession, "none")
  <2>1. Waits(u) /\ about' = about /\ busy' = busy
    BY <1>2 DEF SelectCall
  <2>2. CallTaskNames(u)
    BY DEF CallTaskNames, AboutKinds
  <2> HIDE DEF u
  <2> QED  BY <1>0, <2>1, <2>2, CallStartTypes
<1>3. ASSUME NEW c \in Calls, Elsewhere(c) PROVE CallTypes'
  BY <1>3 DEF Elsewhere, CallTypes, CallTaskNames, InFlight
<1>4. ASSUME NEW key \in Statuses, Control(key) PROVE CallTypes'
  <2>1. Press("control", NoSession, key) /\ "control" \in DOMAIN Flag /\ "control" \notin AboutKinds
    BY <1>4 DEF Control, Flag, AboutKinds
  <2> QED  BY <2>1, PressTypes
<1>5. CASE Bridge
  <2>1. PICK kind \in {"bridge", "webhook"} : Press(kind, NoSession, "none")
    BY <1>5 DEF Bridge
  <2>2. kind \in DOMAIN Flag /\ kind \notin AboutKinds
    BY DEF Flag, AboutKinds
  <2> QED  BY <2>1, <2>2, PressTypes
<1>6. CASE Recordings
  <2>1. PICK kind \in {"attach", "recording"} : Press(kind, NoSession, "none")
    BY <1>6 DEF Recordings
  <2>2. kind \in DOMAIN Flag /\ kind \notin AboutKinds
    BY DEF Flag, AboutKinds
  <2> QED  BY <2>1, <2>2, PressTypes
<1>7. CASE Greeting \/ Sharing \/ Capture \/ Observation
  <2>1. PICK kind \in AboutKinds : AboutSession(kind)
    BY <1>7 DEF Greeting, Sharing, Capture, Observation, AboutKinds
  <2>2. Press(kind, about.session, "none") /\ about.session # NoSession
    BY <2>1 DEF AboutSession
  <2>3. kind \in DOMAIN Flag
    BY DEF Flag, AboutKinds
  <2> QED  BY <1>0, <2>2, <2>3, PressTypes
<1>8. ASSUME NEW t \in InFlight, Details(t) PROVE CallTypes'
  BY <1>8, DetailsTypes
<1>9. ASSUME NEW t \in InFlight, NEW step \in {"timeline", "listing"}, NEW snap
      PROVE  CallTaskNames([t EXCEPT !.step = step, !.snap = snap])
  <2>1. t = CallTask(t.kind, t.step, t.snap, t.session, t.key) /\ CallTaskNames(t)
    BY <1>1
  <2>2. [t EXCEPT !.step = step, !.snap = snap] = CallTask(t.kind, step, snap, t.session, t.key)
    <3> HIDE DEF CallTask
    <3> QED  BY <2>1, CallTaskExcept
  <2> QED  BY <2>1, <2>2 DEF CallTaskNames
<1>10. ASSUME NEW t \in InFlight, Controlled(t) PROVE CallTypes'
  <2>1. PICK snap : GoesOn(t, FetchDetails(t, snap))
    BY <1>10 DEF Controlled
  <2>2. UNCHANGED <<about, busy>>
    BY <1>10 DEF Controlled
  <2>3. CallTaskNames(FetchDetails(t, snap))
    BY <1>9 DEF FetchDetails
  <2> QED  BY <1>0, <2>1, <2>2, <2>3, CallMoveTypes
<1>11. ASSUME NEW t \in InFlight, WebhookTaken(t) PROVE CallTypes'
  <2>1. PICK snap : GoesOn(t, [t EXCEPT !.step = "listing", !.snap = snap])
    BY <1>11 DEF WebhookTaken
  <2>2. UNCHANGED <<about, busy>>
    BY <1>11 DEF WebhookTaken
  <2>3. CallTaskNames([t EXCEPT !.step = "listing", !.snap = snap])
    BY <1>9
  <2> QED  BY <1>0, <2>1, <2>2, <2>3, CallMoveTypes
<1>12. ASSUME NEW t \in InFlight, CallsListed(t) PROVE CallTypes'
  <2>1. UNCHANGED <<about, busy>> /\ (Ended(t) \/ GoesOn(t, [t EXCEPT !.step = "timeline"]))
    BY <1>12 DEF CallsListed
  <2>2. CallTaskNames([t EXCEPT !.step = "timeline"])
    <3>1. [t EXCEPT !.step = "timeline"] = CallTask(t.kind, "timeline", t.snap, t.session, t.key)
      BY <1>1
    <3> QED  BY <1>1, <3>1 DEF CallTaskNames
  <2> QED  BY <1>0, <2>1, <2>2, CallMoveTypes
<1>13. ASSUME NEW t \in InFlight, DetailsNext(t) PROVE CallTypes'
  <2>1. t.kind \in {"greeting", "attach"} /\ busy' = busy /\ GoesOn(t, FetchDetails(t, t.snap))
        /\ (about' = about \/ about' = [about EXCEPT !.recordings = @ \cup {t.snap.id}])
    BY <1>13 DEF DetailsNext
  <2>2. CallTaskNames(FetchDetails(t, t.snap))
    BY <1>9 DEF FetchDetails
  <2>3. t.snap.id \in Calls
    BY <1>1, <2>1 DEF Snapshot
  <2>4. /\ about'.timeline \in Calls \cup {NoCall}
        /\ {about'.session, about'.greeting, about'.sharing} \subseteq Sessions \cup {NoSession}
        /\ about'.recordings \subseteq Calls
        /\ about'.observations \subseteq Sessions
    BY <1>0, <2>1, <2>3
  <2> QED  BY <1>0, <2>1, <2>2, <2>4, CallMoveTypes
<1>14. ASSUME NEW t \in InFlight, Captured(t) \/ Done(t) \/ Refused(t) PROVE CallTypes'
  <2>1. Ended(t) /\ busy' \subseteq busy
    BY <1>14 DEF Captured, Done, Refused, Over
  <2>2. \/ about' = about
        \/ t.kind = "capture" /\ about' = [about EXCEPT !.observations = @ \cup {t.session}]
        \/ t.kind = "sharing" /\ about' = [about EXCEPT !.sharing = t.session]
    BY <1>14 DEF Captured, Done, Refused
  <2>3. t.kind \in {"capture", "sharing"} => t.session \in Sessions
    BY <1>1 DEF CallTaskNames, AboutKinds
  <2>4. /\ about'.timeline \in Calls \cup {NoCall}
        /\ {about'.session, about'.greeting, about'.sharing} \subseteq Sessions \cup {NoSession}
        /\ about'.recordings \subseteq Calls
        /\ about'.observations \subseteq Sessions
    BY <1>0, <2>2, <2>3
  <2> QED  BY <1>0, <2>1, <2>4, CallMoveTypes
<1> QED
  BY <1>2, <1>3, <1>4, <1>5, <1>6, <1>7, <1>8, <1>10, <1>11, <1>12, <1>13, <1>14 DEF CallsNext
-----------------------------------------------------------------------------
(* The types of the device console *)

DeviceNames(t) == {t.target, t.closure} \subseteq enrolled \cup {NoDevice}

DeviceTypes ==
  /\ devices \subseteq enrolled /\ enrolled \subseteq Devices
  /\ {selectedId, detail, picked} \subseteq enrolled \cup {NoDevice}
  /\ invoking \in BOOLEAN /\ failed \in BOOLEAN
  /\ \A t \in InFlight : DeviceNames(t)

LEMMA DevicesTypesStep ==
  ASSUME IsABag(tasks), DeviceInv, DeviceTypes, DevicesNext
  PROVE  DeviceTypes'
<1>0. /\ devices \subseteq enrolled /\ enrolled \subseteq Devices
      /\ {selectedId, detail, picked} \subseteq enrolled \cup {NoDevice}
      /\ invoking \in BOOLEAN /\ failed \in BOOLEAN
      /\ \A t \in InFlight : DeviceNames(t)
      /\ \A t \in InFlight : t = DeviceTask(t.kind, t.step, t.target, t.closure)
  BY DEF DeviceTypes, DeviceInv
<1>1. ASSUME NEW N, InFlight' \subseteq InFlight \cup N, \A u \in N : DeviceNames(u),
             enrolled' = enrolled, devices' \subseteq enrolled,
             {selectedId', detail', picked'} \subseteq enrolled \cup {NoDevice},
             invoking' \in BOOLEAN, failed' \in BOOLEAN
      PROVE  DeviceTypes'
  BY <1>0, <1>1 DEF DeviceTypes, DeviceNames
<1>2. ASSUME NEW d \in Devices, OpenDevice(d) PROVE DeviceTypes'
  <2> DEFINE u == DeviceTask("open", "detail", d, selectedId)
             w == tasks (+) One(u)
             r == Refresh(NoDevice, d)
  <2>1. /\ d \in enrolled /\ Selects(d, w) /\ picked' = d
        /\ UNCHANGED <<enrolled, devices, detail, invoking, failed>>
    BY <1>0, <1>2 DEF OpenDevice
  <2>2. IsABag(w) /\ BagToSet(w) = InFlight \cup {u}
    BY OneBag, BagAdd DEF InFlight
  <2>3. DeviceNames(u) /\ DeviceNames(r)
    BY <1>0, <2>1 DEF DeviceNames, DeviceTask, Refresh
  <2> HIDE DEF w, u
  <2>4. selectedId' = d /\ InFlight' \subseteq InFlight \cup {u, r}
    BY <2>1, <2>2, SelectsBag
  <2> HIDE DEF r
  <2>5. \A x \in {u, r} : DeviceNames(x)
    BY <2>3
  <2> QED  BY <1>0, <1>1, <2>1, <2>4, <2>5
<1>3. ASSUME NEW d \in Devices, Enroll(d) PROVE DeviceTypes'
  BY <1>0, <1>3 DEF Enroll, DeviceTypes, DeviceNames, InFlight
<1>4. CASE PressRefresh
  <2> DEFINE u == Refresh(NoDevice, selectedId)
  <2>1. Waits(u) /\ UNCHANGED <<enrolled, devices, selectedId, detail, invoking, picked, failed>>
    BY <1>4 DEF PressRefresh
  <2>2. DeviceNames(u)
    BY <1>0 DEF DeviceNames, DeviceTask, Refresh
  <2> HIDE DEF u
  <2>3. InFlight' = InFlight \cup {u} /\ \A x \in {u} : DeviceNames(x)
    BY <2>1, <2>2, WaitsBag
  <2> QED  BY <1>0, <1>1, <2>1, <2>3
<1>5. CASE InvokeTool
  <2> DEFINE u == DeviceTask("invoke", "asked", SelectedDevice, selectedId)
  <2>1. /\ Waits(u) /\ invoking' = TRUE
        /\ UNCHANGED <<enrolled, devices, selectedId, detail, picked, failed>>
    BY <1>5 DEF InvokeTool
  <2>2. SelectedDevice \in enrolled \cup {NoDevice}
    BY <1>0 DEF SelectedDevice
  <2>3. DeviceNames(u)
    BY <1>0, <2>2 DEF DeviceNames, DeviceTask
  <2> HIDE DEF u
  <2>4. InFlight' = InFlight \cup {u} /\ \A x \in {u} : DeviceNames(x)
    BY <2>1, <2>3, WaitsBag
  <2> QED  BY <1>0, <1>1, <2>1, <2>4
<1>6. ASSUME NEW t \in InFlight, Invoked(t) PROVE DeviceTypes'
  <2> DEFINE u == [t EXCEPT !.step = "lists"]
  <2>1. GoesOn(t, u) /\ UNCHANGED <<enrolled, devices, selectedId, detail, invoking, picked, failed>>
    BY <1>6 DEF Invoked
  <2>2. DeviceNames(u)
    BY <1>0 DEF DeviceNames, DeviceTask
  <2> HIDE DEF u
  <2>3. InFlight' \subseteq InFlight \cup {u} /\ \A x \in {u} : DeviceNames(x)
    BY <2>1, <2>2, GoesOnBag
  <2> QED  BY <1>0, <1>1, <2>1, <2>3
<1>7. ASSUME NEW t \in InFlight, ListsArrive(t) PROVE DeviceTypes'
  <2>1. devices' = enrolled /\ UNCHANGED <<enrolled, failed>>
    BY <1>7 DEF ListsArrive
  <2>2. CASE TargetOf(t) = {}
    <3>1. detail' = NoDevice /\ Ended(t) /\ UNCHANGED <<selectedId, picked>> /\ invoking' \in BOOLEAN
      BY <1>0, <1>7, <2>2 DEF ListsArrive
    <3>2. InFlight' \subseteq InFlight \cup {t} /\ \A x \in {t} : DeviceNames(x)
      BY <1>0, <3>1, EndedBag
    <3> QED  BY <1>0, <1>1, <2>1, <3>1, <3>2
  <2>3. CASE TargetOf(t) # {}
    <3>1. PICK d \in TargetOf(t) :
               /\ Selects(d, (tasks (-) One(t)) (+) One([t EXCEPT !.step = "detail", !.target = d]))
               /\ picked' = IF picked = NoDevice THEN d ELSE picked
      BY <1>7, <2>3 DEF ListsArrive
    <3>2. UNCHANGED <<detail, invoking>>
      BY <1>7, <2>3 DEF ListsArrive
    <3> DEFINE u == [t EXCEPT !.step = "detail", !.target = d]
               rest == tasks (-) One(t)
               w == rest (+) One(u)
               r == Refresh(NoDevice, d)
    <3>3. u = DeviceTask(t.kind, "detail", d, t.closure)
      <4> DEFINE q == [t EXCEPT !.step = "detail"]
      <4>1. q = DeviceTask(t.kind, "detail", t.target, t.closure)
        BY <1>0 DEF DeviceTask
      <4>2. u = [q EXCEPT !.target = d]
        OBVIOUS
      <4> HIDE DEF q, u
      <4> QED  BY <4>1, <4>2 DEF DeviceTask
    <3>4. Selects(d, w)
      BY <3>1
    <3> HIDE DEF u
    <3>5. d \in enrolled \cup {NoDevice}
      BY <1>0, <3>1 DEF TargetOf, DeviceNames
    <3>6. DeviceNames(u) /\ DeviceNames(r)
      BY <1>0, <3>3, <3>5 DEF DeviceNames, DeviceTask, Refresh
    <3>7. IsABag(rest) /\ BagToSet(rest) \subseteq InFlight
      BY OneBag, BagTake DEF InFlight
    <3>8. IsABag(w) /\ BagToSet(w) = BagToSet(rest) \cup {u}
      BY <3>7, OneBag, BagAdd
    <3> HIDE DEF w, rest
    <3>9. selectedId' = d /\ InFlight' \subseteq InFlight \cup {u, r}
      BY <3>4, <3>7, <3>8, SelectsBag
    <3> HIDE DEF r
    <3>10. \A x \in {u, r} : DeviceNames(x)
      BY <3>6
    <3> QED  BY <1>0, <1>1, <2>1, <3>1, <3>2, <3>5, <3>9, <3>10
  <2> QED  BY <2>2, <2>3
<1>8. ASSUME NEW t \in InFlight, DetailArrives(t) \/ DeviceRequestFails(t) PROVE DeviceTypes'
  <2>1. /\ detail' \in {t.target, detail} /\ Ended(t) /\ invoking' \in BOOLEAN /\ failed' \in BOOLEAN
        /\ UNCHANGED <<enrolled, devices, selectedId, picked>>
    BY <1>0, <1>8 DEF DetailArrives, DeviceRequestFails
  <2>2. InFlight' \subseteq InFlight \cup {t} /\ \A x \in {t} : DeviceNames(x)
    BY <1>0, <2>1, EndedBag
  <2>3. detail' \in enrolled \cup {NoDevice}
    BY <1>0, <2>1 DEF DeviceNames
  <2> QED  BY <1>0, <1>1, <2>1, <2>2, <2>3
<1> QED  BY <1>2, <1>3, <1>4, <1>5, <1>6, <1>7, <1>8 DEF DevicesNext
-----------------------------------------------------------------------------
(* The types of the connector panel: what is disabled is shown *)

SettingTypes ==
  /\ savingId \subseteq DOMAIN rows /\ linkingId \subseteq DOMAIN rows
  /\ overlapped \in BOOLEAN

LEMMA SettingsTypesStep ==
  ASSUME SettingInv, SettingTypes, SettingsNext
  PROVE  SettingTypes'
<1>1. /\ rows = << >> \/ rows \in [Installations -> Row]
      /\ DOMAIN editing \subseteq DOMAIN rows
      /\ DOMAIN << >> = {}
      /\ \A t \in InFlight : t.kind = "list" => t.step = "asked" \/ t.data \in [Installations -> Row]
  BY DEF SettingInv, SettingShape, SettingTaskOK
<1>2. DOMAIN rows \subseteq Installations
  BY <1>1
<1>3. ASSUME rows' = rows, savingId' \subseteq DOMAIN rows, linkingId' \subseteq DOMAIN rows, overlapped' \in BOOLEAN
      PROVE  SettingTypes'
  BY <1>3 DEF SettingTypes
<1>4. CASE RefreshRows
  BY <1>3, <1>4 DEF RefreshRows, SettingTypes
<1>5. ASSUME NEW i, NEW f, NEW x, Type(i, f, x) PROVE SettingTypes'
  BY <1>3, <1>5 DEF Type, SettingTypes
<1>6. ASSUME NEW i, Cancel(i) PROVE SettingTypes'
  BY <1>3, <1>6 DEF Cancel, SettingTypes
<1>7. ASSUME NEW i, Save(i) PROVE SettingTypes'
  BY <1>1, <1>3, <1>7 DEF Save, SettingTypes
<1>8. ASSUME NEW i, NEW c, Link(i, c) PROVE SettingTypes'
  BY <1>3, <1>8 DEF Link, SettingTypes
<1>9. ASSUME NEW i, NEW check, Check(i, check) PROVE SettingTypes'
  BY <1>3, <1>9 DEF Check, SettingTypes
<1>10. ASSUME NEW t \in InFlight, ServiceReads(t) \/ Checked(t) PROVE SettingTypes'
  BY <1>3, <1>10 DEF ServiceReads, Checked, settingVars, SettingTypes
<1>11. ASSUME NEW t \in InFlight, Saved(t) PROVE SettingTypes'
  <2>1. DOMAIN rows' = DOMAIN rows /\ overlapped' = overlapped
        /\ savingId' \in {{}, savingId} /\ linkingId' \in {{}, linkingId}
    BY <1>11 DEF Saved, Settles
  <2> QED  BY <2>1 DEF SettingTypes
<1>12. ASSUME NEW t \in InFlight, RowsArrive(t) PROVE SettingTypes'
  <2>1. rows' = t.data /\ UNCHANGED <<savingId, linkingId, overlapped>> /\ t.step = "read" /\ t.kind = "list"
    BY <1>12 DEF RowsArrive
  <2>2. DOMAIN rows' = Installations
    BY <1>1, <2>1
  <2> QED  BY <1>2, <2>1, <2>2 DEF SettingTypes
<1>13. ASSUME NEW t \in InFlight, SettingFails(t) PROVE SettingTypes'
  <2>1. savingId' \in {{}, savingId} /\ linkingId' \in {{}, linkingId} /\ UNCHANGED <<rows, overlapped>>
    BY <1>13 DEF SettingFails, Settles
  <2> QED  BY <1>3, <2>1 DEF SettingTypes
<1> QED
  BY <1>4, <1>5, <1>6, <1>7, <1>8, <1>9, <1>10, <1>11, <1>12, <1>13 DEF SettingsNext
-----------------------------------------------------------------------------
(* The types of the policy panels *)

\* What a handler carries are switches of policies; a change is asked for in a
\* list that is there.
PolicyData(t) ==
  /\ t.data \in [DOMAIN t.data -> BOOLEAN]
  /\ t.id \subseteq Policies
  /\ t.kind \in Checks => t.id \subseteq Deliveries
  /\ t.kind = "switch" => chips \in [Deliveries -> BOOLEAN]

PolicyTypes ==
  /\ inForce \in [Policies -> BOOLEAN]
  /\ chips = << >> \/ chips \in [Deliveries -> BOOLEAN]
  /\ chosen = << >> \/ (/\ chips \in [Deliveries -> BOOLEAN]
                        /\ \E d \in Deliveries : chosen \in [{d} -> BOOLEAN])
  /\ checks \in [Checks -> SUBSET Deliveries] /\ checking \subseteq Checks
  /\ editor \in [DOMAIN editor -> BOOLEAN]
  /\ savingIn \subseteq {"panel", "editor"}
  /\ changedIn \in [{"panel", "editor"} -> SUBSET Policies]
  /\ \A t \in InFlight : PolicyData(t)

LEMMA OnlySwitch == ASSUME NEW x, NEW on \in BOOLEAN PROVE Only(x, on) \in [{x} -> BOOLEAN] /\ DOMAIN Only(x, on) = {x}
BY DEF Only

LEMMA UpdatedSwitches ==
  ASSUME NEW f, NEW g, f \in [DOMAIN f -> BOOLEAN], g \in [DOMAIN g -> BOOLEAN]
  PROVE  Updated(f, g) \in [DOMAIN f \cup DOMAIN g -> BOOLEAN]
BY DEF Updated

LEMMA PolicyMoveTypes ==
  ASSUME PolicyTypes, NEW N, InFlight' \subseteq InFlight \cup N, \A u \in N : PolicyData(u),
         inForce' \in [Policies -> BOOLEAN],
         chips' \in [Deliveries -> BOOLEAN] \/ chips' = chips,
         chosen' = chosen \/ (/\ chips' \in [Deliveries -> BOOLEAN]
                              /\ \E d \in Deliveries : chosen' \in [{d} -> BOOLEAN]),
         checks' \in [Checks -> SUBSET Deliveries], checking' \subseteq Checks,
         editor' \in [DOMAIN editor' -> BOOLEAN],
         savingIn' \subseteq {"panel", "editor"},
         changedIn' \in [{"panel", "editor"} -> SUBSET Policies]
  PROVE  PolicyTypes'
<1>1. \A t \in InFlight' : PolicyData(t)'
  BY DEF PolicyTypes, PolicyData
<1> QED  BY <1>1 DEF PolicyTypes

LEMMA PoliciesTypesStep ==
  ASSUME IsABag(tasks), CheckInv, StoreInv, PolicyTypes, PoliciesNext
  PROVE  PolicyTypes'
<1>0. /\ inForce \in [Policies -> BOOLEAN]
      /\ checks \in [Checks -> SUBSET Deliveries] /\ checking \subseteq Checks
      /\ editor \in [DOMAIN editor -> BOOLEAN]
      /\ savingIn \subseteq {"panel", "editor"}
      /\ changedIn \in [{"panel", "editor"} -> SUBSET Policies]
      /\ DOMAIN << >> = {} /\ << >> \in [{} -> BOOLEAN] /\ Deliveries \subseteq Policies
  BY DEF PolicyTypes, Policies
<1>1. /\ chips = << >> \/ chips \in [Deliveries -> BOOLEAN]
      /\ chosen = << >> \/ (/\ chips \in [Deliveries -> BOOLEAN]
                            /\ \E d \in Deliveries : chosen \in [{d} -> BOOLEAN])
      /\ \A t \in InFlight : PolicyData(t) /\ PolicyShape(t) /\ StoreTask(t)
      /\ DOMAIN editor \subseteq Policies
  BY DEF PolicyTypes, CheckInv, PolicyTasks, StoreInv, StoreShape
<1>2. ASSUME NEW u, u.data = << >>, u.id \subseteq Policies, u.kind \in {"policies", "all"} PROVE PolicyData(u)
  BY <1>0, <1>2 DEF PolicyData, Checks
<1>3. ASSUME NEW S, S \subseteq Policies PROVE PolicyData(Listing(S)) /\ PolicyData(FetchAll(S))
  BY <1>2, <1>3 DEF Listing, FetchAll
<1>4. ASSUME NEW d \in Deliveries, ChoosePolicy(d) PROVE PolicyTypes'
  <2> DEFINE u == Listing({d})
  <2>1. /\ d \in DOMAIN chips /\ chosen' = Only(d, chips[d]) /\ checks' = [c \in Checks |-> {}]
        /\ Waits(u) /\ UNCHANGED <<inForce, chips, checking, editor, savingIn, changedIn>>
    BY <1>4 DEF ChoosePolicy
  <2>2. chips \in [Deliveries -> BOOLEAN] /\ chips[d] \in BOOLEAN
    BY <1>0, <1>1, <2>1
  <2>3. PolicyData(u)
    BY <1>0, <1>3
  <2>4. InFlight' \subseteq InFlight \cup {u}
    BY <2>1, WaitsBag
  <2>5. chosen' \in [{d} -> BOOLEAN]
    BY <2>1, <2>2, OnlySwitch
  <2>6. checks' \in [Checks -> SUBSET Deliveries]
    BY <2>1
  <2> HIDE DEF u
  <2>7. \A x \in {u} : PolicyData(x)
    BY <2>3
  <2> QED  BY <1>0, <2>1, <2>2, <2>4, <2>5, <2>6, <2>7, PolicyMoveTypes
<1>5. ASSUME NEW d \in Deliveries, SwitchPolicy(d) PROVE PolicyTypes'
  <2> DEFINE u == PolicyTask("switch", "asked", {d}, << >>, Only(d, ~chosen[d]))
  <2>1. /\ d \in DOMAIN chosen /\ savingIn' = savingIn \cup {"panel"}
        /\ Waits(u) /\ UNCHANGED <<inForce, chips, chosen, checks, checking, editor, changedIn>>
    BY <1>5 DEF SwitchPolicy
  <2>2. chips \in [Deliveries -> BOOLEAN]
    BY <1>0, <1>1, <2>1
  <2>3. Only(d, ~chosen[d]) \in [{d} -> BOOLEAN] /\ DOMAIN Only(d, ~chosen[d]) = {d}
    BY OnlySwitch
  <2>4. PolicyData(u)
    BY <1>0, <2>2, <2>3 DEF PolicyData, Checks
  <2> HIDE DEF u
  <2>5. InFlight' \subseteq InFlight \cup {u} /\ \A x \in {u} : PolicyData(x)
    BY <2>1, <2>4, WaitsBag
  <2> QED  BY <1>0, <2>1, <2>5, PolicyMoveTypes
<1>6. ASSUME NEW c \in Checks, CheckPolicy(c) PROVE PolicyTypes'
  <2> DEFINE u == PolicyTask(c, "asked", DOMAIN chosen, << >>, << >>)
  <2>1. /\ checking' = checking \cup {c}
        /\ Waits(u) /\ UNCHANGED <<inForce, chips, chosen, checks, editor, savingIn, changedIn>>
    BY <1>6 DEF CheckPolicy
  <2>2. DOMAIN chosen \subseteq Deliveries
    BY <1>0, <1>1
  <2>3. PolicyData(u)
    BY <1>0, <2>2 DEF PolicyData, Checks
  <2> HIDE DEF u
  <2>4. InFlight' \subseteq InFlight \cup {u} /\ \A x \in {u} : PolicyData(x)
    BY <2>1, <2>3, WaitsBag
  <2> QED  BY <1>0, <2>1, <2>4, PolicyMoveTypes
<1>7. ASSUME NEW p \in Policies, EditPolicy(p) PROVE PolicyTypes'
  <2> DEFINE u == PolicyTask("edit", "asked", {p}, << >>, Only(p, ~editor[p]))
  <2>1. /\ savingIn' = savingIn \cup {"editor"}
        /\ Waits(u) /\ UNCHANGED <<inForce, chips, chosen, checks, checking, editor, changedIn>>
    BY <1>7 DEF EditPolicy
  <2>2. Only(p, ~editor[p]) \in [{p} -> BOOLEAN] /\ DOMAIN Only(p, ~editor[p]) = {p}
    BY OnlySwitch
  <2>3. PolicyData(u)
    BY <2>2 DEF PolicyData, Checks
  <2> HIDE DEF u
  <2>4. InFlight' \subseteq InFlight \cup {u} /\ \A x \in {u} : PolicyData(x)
    BY <2>1, <2>3, WaitsBag
  <2> QED  BY <1>0, <2>1, <2>4, PolicyMoveTypes
<1>8. ASSUME NEW t \in InFlight, NEW step PROVE PolicyData([t EXCEPT !.step = step])
  <2>1. [t EXCEPT !.step = step] = PolicyTask(t.kind, step, t.id, t.left, t.data)
    BY <1>1 DEF PolicyShape
  <2> QED  BY <1>1, <2>1 DEF PolicyData
<1>9. ASSUME NEW t \in InFlight, PolicyChanged(t) PROVE PolicyTypes'
  <2> DEFINE u == [t EXCEPT !.step = "served"]
  <2>1. /\ t.kind \in {"switch", "edit"} /\ inForce' = Updated(inForce, t.data)
        /\ changedIn' = [changedIn EXCEPT ![PanelOf(t)] = @ \cup t.id]
        /\ GoesOn(t, u) /\ UNCHANGED <<chips, chosen, checks, checking, editor, savingIn>>
    BY <1>9 DEF PolicyChanged
  <2>2. PolicyData(u) /\ PolicyData(t) /\ StoreTask(t)
    BY <1>1, <1>8
  <2> HIDE DEF u
  <2>3. DOMAIN t.data \subseteq Policies
    BY <2>1, <2>2 DEF StoreTask
  <2>4. inForce' \in [Policies -> BOOLEAN]
    <3>1. Updated(inForce, t.data) \in [DOMAIN inForce \cup DOMAIN t.data -> BOOLEAN]
      BY <1>0, <2>2, UpdatedSwitches DEF PolicyData
    <3>2. DOMAIN inForce \cup DOMAIN t.data = Policies
      BY <1>0, <2>3
    <3> QED  BY <2>1, <3>1, <3>2
  <2>5. changedIn' \in [{"panel", "editor"} -> SUBSET Policies]
    BY <1>0, <2>1, <2>2 DEF PanelOf, PolicyData
  <2>6. InFlight' \subseteq InFlight \cup {u} /\ \A x \in {u} : PolicyData(x)
    BY <2>1, <2>2, GoesOnBag
  <2> QED  BY <1>0, <2>1, <2>4, <2>5, <2>6, PolicyMoveTypes
<1>10. ASSUME NEW t \in InFlight, PolicyRead(t) PROVE PolicyTypes'
  <2> DEFINE read == [p \in Wanted(t) |-> inForce[p]]
             u == [t EXCEPT !.step = "served", !.data = read]
  <2>1. t.kind \in {"policies", "all"} /\ GoesOn(t, u) /\ UNCHANGED policyVars
    BY <1>10 DEF PolicyRead
  <2>2. Wanted(t) \subseteq Policies
    <3>1. CASE t.kind = "policies"
      BY <1>0, <3>1 DEF Wanted
    <3>2. CASE t.kind = "all"
      <4>1. Head(t.left) \in TabKinds
        BY <1>1, <3>2 DEF StoreTask
      <4> QED  BY <1>0, <4>1 DEF Wanted, Policies, Switches
    <3> QED  BY <2>1, <3>1, <3>2
  <2>3. read \in [DOMAIN read -> BOOLEAN]
    BY <1>0, <2>2
  <2> HIDE DEF read
  <2>4. u = PolicyTask(t.kind, "served", t.id, t.left, read)
    <3> HIDE DEF PolicyTask
    <3> QED  BY <1>1, PolicyExcept
  <2> HIDE DEF u
  <2>5. PolicyData(u)
    BY <1>1, <2>1, <2>3, <2>4 DEF PolicyData, Checks
  <2>6. InFlight' \subseteq InFlight \cup {u} /\ \A x \in {u} : PolicyData(x)
    BY <2>1, <2>5, GoesOnBag
  <2> QED  BY <1>0, <2>1, <2>6, PolicyMoveTypes DEF policyVars
<1>11. ASSUME NEW t \in InFlight, PoliciesListed(t) PROVE PolicyTypes'
  <2>1. /\ t.kind = "policies" /\ t.step = "served" /\ chips' = t.data
        /\ UNCHANGED <<inForce, checks, checking, editor, savingIn, changedIn>>
    BY <1>11 DEF PoliciesListed
  <2>2. chips' \in [Deliveries -> BOOLEAN]
    BY <1>1, <2>1 DEF StoreTask, PolicyData
  <2>3. CASE t.id = {}
    <3>1. PICK d \in Deliveries : chosen' = Only(d, t.data[d]) /\ GoesOn(t, Listing({d}))
      BY <1>11, <2>3 DEF PoliciesListed
    <3>2. chosen' \in [{d} -> BOOLEAN]
      BY <2>1, <2>2, <3>1, OnlySwitch
    <3>3. PolicyData(Listing({d}))
      BY <1>0, <1>3
    <3>4. InFlight' \subseteq InFlight \cup {Listing({d})} /\ \A x \in {Listing({d})} : PolicyData(x)
      BY <3>1, <3>3, GoesOnBag
    <3> QED  BY <1>0, <2>1, <2>2, <3>2, <3>4, PolicyMoveTypes
  <2>4. CASE t.id # {}
    <3>1. Ended(t) /\ chosen' = chosen
      BY <1>11, <2>4 DEF PoliciesListed
    <3>2. InFlight' \subseteq InFlight \cup {}
      BY <3>1, EndedBag
    <3> QED  BY <1>0, <2>1, <2>2, <3>1, <3>2, PolicyMoveTypes
  <2> QED  BY <2>3, <2>4
<1>12. ASSUME NEW t \in InFlight, Switched(t) PROVE PolicyTypes'
  <2>1. /\ t.kind = "switch" /\ chosen' = t.data /\ chips' = Updated(chips, t.data)
        /\ savingIn' = savingIn \ {"panel"} /\ GoesOn(t, Listing(t.id))
        /\ UNCHANGED <<inForce, checks, checking, editor, changedIn>>
    BY <1>12 DEF Switched
  <2>2. PICK d \in Deliveries : DOMAIN t.data = {d}
    BY <1>1, <2>1 DEF StoreTask
  <2>3. /\ t.data \in [DOMAIN t.data -> BOOLEAN] /\ t.id \subseteq Policies
        /\ chips \in [Deliveries -> BOOLEAN]
    BY <1>1, <2>1 DEF PolicyData
  <2>4. chosen' \in [{d} -> BOOLEAN]
    BY <2>1, <2>2, <2>3
  <2>5. chips' \in [Deliveries -> BOOLEAN]
    <3>1. Updated(chips, t.data) \in [DOMAIN chips \cup DOMAIN t.data -> BOOLEAN]
      BY <2>3, UpdatedSwitches
    <3>2. DOMAIN chips \cup DOMAIN t.data = Deliveries
      BY <2>2, <2>3
    <3> QED  BY <2>1, <3>1, <3>2
  <2>6. PolicyData(Listing(t.id))
    BY <1>3, <2>3
  <2>7. InFlight' \subseteq InFlight \cup {Listing(t.id)} /\ \A x \in {Listing(t.id)} : PolicyData(x)
    BY <2>1, <2>6, GoesOnBag
  <2> QED  BY <1>0, <2>1, <2>4, <2>5, <2>7, PolicyMoveTypes
<1>13. ASSUME NEW t \in InFlight, PolicyChecked(t) PROVE PolicyTypes'
  <2>1. /\ t.kind \in Checks /\ checks' \in {checks, [checks EXCEPT ![t.kind] = t.id]}
        /\ checking' = checking \ {t.kind} /\ Ended(t)
        /\ UNCHANGED <<inForce, chips, chosen, editor, savingIn, changedIn>>
    BY <1>13 DEF PolicyChecked
  <2>2. checks' \in [Checks -> SUBSET Deliveries]
    BY <1>0, <1>1, <2>1 DEF PolicyData
  <2>3. InFlight' \subseteq InFlight \cup {}
    BY <2>1, EndedBag
  <2> QED  BY <1>0, <2>1, <2>2, <2>3, PolicyMoveTypes
<1>14. ASSUME NEW t \in InFlight, TabLoaded(t) PROVE PolicyTypes'
  <2>1. /\ t.kind = "all" /\ t.step = "served"
        /\ UNCHANGED <<inForce, chips, chosen, checks, checking, savingIn, changedIn>>
    BY <1>14 DEF TabLoaded
  <2>2. /\ PolicyData(t) /\ PolicyShape(t) /\ StoreTask(t)
        /\ t.data \in [DOMAIN t.data -> BOOLEAN] /\ t.id \subseteq Policies
    BY <1>1 DEF PolicyData
  <2> DEFINE next == NextTab(t)
             rest == tasks (-) One(t)
  <2>3. IsABag(next) /\ \A x \in BagToSet(next) : PolicyData(x)
    <3>1. IsABag(next) /\ \A x \in BagToSet(next) : x.kind = "all" /\ x.data = << >> /\ x.id = t.id
      <4> DEFINE left == Tail(t.left)
                 u == [t EXCEPT !.step = "asked", !.left = left, !.data = << >>]
      <4>1. next = IF Len(t.left) = 1 THEN EmptyBag ELSE One(u)
        BY DEF NextTab
      <4> HIDE DEF left
      <4>2. u = PolicyTask("all", "asked", t.id, left, << >>)
        <5> DEFINE r == [t EXCEPT !.step = "asked"]
                   q == [r EXCEPT !.left = left]
        <5>1. r = PolicyTask("all", "asked", t.id, t.left, t.data)
          BY <2>1, <2>2 DEF PolicyShape
        <5>2. u = [q EXCEPT !.data = << >>]
          OBVIOUS
        <5> HIDE DEF r, u
        <5>3. q = PolicyTask("all", "asked", t.id, left, t.data)
          BY <5>1
        <5> HIDE DEF q
        <5> QED  BY <5>2, <5>3
      <4> HIDE DEF u
      <4>3. u.kind = "all" /\ u.data = << >> /\ u.id = t.id
        BY <4>2
      <4>4. IsABag(EmptyBag) /\ BagToSet(EmptyBag) = {}
        BY BagSet DEF EmptyBag
      <4> HIDE DEF next
      <4> QED  BY <4>1, <4>3, <4>4, OneBag
    <3> QED  BY <1>2, <2>2, <3>1
  <2>4. IsABag(rest) /\ BagToSet(rest) \subseteq InFlight
    BY OneBag, BagTake DEF InFlight
  <2> HIDE DEF next, rest
  <2>5. IsABag(rest (+) next) /\ BagToSet(rest (+) next) \subseteq InFlight \cup BagToSet(next)
    BY <2>3, <2>4, BagAdd
  <2>6. CASE Head(t.left) # "delivery" \/ t.id # {}
    <3>1. tasks' = rest (+) next /\ (editor' = editor \/ editor' = Updated(editor, t.data))
      BY <1>14, <2>6 DEF TabLoaded, next, rest
    <3>2. editor' \in [DOMAIN editor' -> BOOLEAN]
      <4>1. CASE editor' = editor
        BY <1>0, <4>1
      <4>2. CASE editor' = Updated(editor, t.data)
        <5>1. Updated(editor, t.data) \in [DOMAIN editor \cup DOMAIN t.data -> BOOLEAN]
          BY <1>0, <2>2, UpdatedSwitches
        <5> QED  BY <4>2, <5>1
      <4> QED  BY <3>1, <4>1, <4>2
    <3>3. InFlight' \subseteq InFlight \cup BagToSet(next)
      BY <2>5, <3>1 DEF InFlight
    <3> QED  BY <1>0, <2>1, <2>3, <3>2, <3>3, PolicyMoveTypes
  <2>7. CASE Head(t.left) = "delivery" /\ t.id = {}
    <3>1. PICK d \in Deliveries : /\ editor' = Updated(editor, Only(d, t.data[d]))
                                  /\ tasks' = (rest (+) next) (+) One(FetchAll({d}))
      BY <1>14, <2>7 DEF TabLoaded, next, rest
    <3> DEFINE N == BagToSet(next) \cup {FetchAll({d})}
    <3>2. InFlight' \subseteq InFlight \cup N
      BY <2>5, <3>1, OneBag, BagAdd DEF InFlight
    <3>3. PolicyData(FetchAll({d}))
      BY <1>0, <1>3
    <3>4. \A x \in N : PolicyData(x)
      BY <2>3, <3>3
    <3> HIDE DEF N
    <3>5. t.data[d] \in BOOLEAN
      BY <2>1, <2>2, <2>7 DEF StoreTask, Wanted
    <3>6. Only(d, t.data[d]) \in [DOMAIN Only(d, t.data[d]) -> BOOLEAN]
      BY <3>5, OnlySwitch
    <3>7. editor' \in [DOMAIN editor' -> BOOLEAN]
      BY <1>0, <3>1, <3>6, UpdatedSwitches
    <3> QED  BY <1>0, <2>1, <3>2, <3>4, <3>7, PolicyMoveTypes
  <2> QED  BY <2>6, <2>7
<1>15. ASSUME NEW t \in InFlight, Edited(t) PROVE PolicyTypes'
  <2>1. /\ editor' = Updated(editor, t.data) /\ savingIn' = savingIn \ {"editor"}
        /\ Ended(t) \/ GoesOn(t, FetchAll(t.id))
        /\ UNCHANGED <<inForce, chips, chosen, checks, checking, changedIn>>
    BY <1>15 DEF Edited
  <2>2. t.data \in [DOMAIN t.data -> BOOLEAN] /\ t.id \subseteq Policies
    BY <1>1 DEF PolicyData
  <2>3. editor' \in [DOMAIN editor' -> BOOLEAN]
    BY <1>0, <2>1, <2>2, UpdatedSwitches
  <2>4. PolicyData(FetchAll(t.id))
    BY <1>3, <2>2
  <2>5. InFlight' \subseteq InFlight \cup {FetchAll(t.id)} /\ \A x \in {FetchAll(t.id)} : PolicyData(x)
    BY <2>1, <2>4, EndedBag, GoesOnBag
  <2> QED  BY <1>0, <2>1, <2>3, <2>5, PolicyMoveTypes
<1>16. ASSUME NEW t \in InFlight, PolicyRequestFails(t) PROVE PolicyTypes'
  <2>1. /\ savingIn' \subseteq savingIn /\ Ended(t)
        /\ UNCHANGED <<inForce, chips, chosen, checks, checking, editor, changedIn>>
    BY <1>16 DEF PolicyRequestFails
  <2>2. InFlight' \subseteq InFlight \cup {}
    BY <2>1, EndedBag
  <2> QED  BY <1>0, <2>1, <2>2, PolicyMoveTypes
<1> QED
  BY <1>4, <1>5, <1>6, <1>7, <1>9, <1>10, <1>11, <1>12, <1>13, <1>14, <1>15, <1>16 DEF PoliciesNext
-----------------------------------------------------------------------------
(* What every page counts *)

\* The bound on what the operator starts, and whether the selection has changed
\* while something waited.
Counted == requests \in 0 .. MaxRequests /\ crossed \in BOOLEAN

LEMMA CountsOn ==
  ASSUME Counted, requests' = requests \/ Started, crossed' \in BOOLEAN
  PROVE  Counted'
BY TabAssumption DEF Counted, Started

LEMMA CockpitCounted == ASSUME Counted, CockpitNext PROVE Counted'
<1>1. ASSUME NEW s \in Sessions, Select(s) PROVE Counted'
  BY <1>1, CountsOn DEF Select, Choose
<1>2. ASSUME NEW t, Ask(t) PROVE Counted'
  BY <1>2, CountsOn DEF Ask, Counted
<1>3. ASSUME CreateSession \/ (\E kind \in Handlers : Fetch(kind)) \/ AddManual \/ Writeback
             \/ CreateAction \/ MoveAction \/ DraftSupportNote
      PROVE  Counted'
  BY <1>2, <1>3 DEF CreateSession, Fetch, AddManual, Writeback, CreateAction, MoveAction, DraftSupportNote
<1>4. ASSUME (\E x \in Texts : EditNote(x)) \/ TickReviewed PROVE Counted'
  BY <1>4 DEF EditNote, TickReviewed, Counted
<1>5. Operator => Counted'
  BY <1>1, <1>3, <1>4 DEF Operator
<1>6. ASSUME ListArrives PROVE Counted'
  <2>1. requests' = requests /\ crossed' \in BOOLEAN
    BY <1>6 DEF ListArrives, Choose, Counted
  <2> QED  BY <2>1, CountsOn
<1>7. ASSUME NEW t \in InFlight, SessionCreated(t) PROVE Counted'
  BY <1>7, CountsOn DEF SessionCreated, Choose
<1>8. ASSUME NEW t \in InFlight,
             TicketLoaded(t) \/ Fetched(t) \/ Proceeds(t) \/ WrittenBack(t) \/ Listed(t)
             \/ DetailsEnd(t) \/ TimelineEnds(t) \/ Fails(t)
      PROVE  Counted'
  BY <1>8 DEF Counted, TicketLoaded, Fetched, Proceeds, WrittenBack, Listed, DetailsEnd, TimelineEnds, Fails
<1>9. Answers => Counted'
  BY <1>6, <1>7, <1>8 DEF Answers
<1> QED  BY <1>5, <1>9 DEF CockpitNext

LEMMA CallsCounted == ASSUME Counted, CallsNext PROVE Counted'
<1>1. ASSUME NEW c \in Calls, SelectCall(c) PROVE Counted'
  BY <1>1, CountsOn DEF SelectCall, Shows
<1>2. ASSUME NEW c \in Calls, Elsewhere(c) PROVE Counted'
  BY <1>2, TabAssumption DEF Elsewhere, Counted
<1>3. ASSUME NEW kind, NEW s, NEW key, Press(kind, s, key), crossed' \in BOOLEAN PROVE Counted'
  BY <1>3, CountsOn DEF Press
<1>4. ASSUME NEW key \in Statuses, Control(key) PROVE Counted'
  BY <1>3, <1>4 DEF Control, Counted
<1>5. ASSUME Bridge \/ Recordings PROVE Counted'
  BY <1>3, <1>5 DEF Bridge, Recordings, Counted
<1>6. ASSUME NEW kind, AboutSession(kind) PROVE Counted'
  BY <1>3, <1>6 DEF AboutSession
<1>7. ASSUME Greeting \/ Sharing \/ Capture \/ Observation PROVE Counted'
  BY <1>6, <1>7 DEF Greeting, Sharing, Capture, Observation
<1>8. ASSUME requests' = requests, NEW t \in InFlight, Controlled(t) \/ CallsListed(t) PROVE Counted'
  <2>1. crossed' \in BOOLEAN
    BY <1>8 DEF Controlled, CallsListed, Shows, Counted
  <2> QED  BY <1>8, <2>1, CountsOn
<1>9. ASSUME requests' = requests, NEW t \in InFlight,
             Details(t) \/ WebhookTaken(t) \/ DetailsNext(t) \/ Captured(t) \/ Done(t) \/ Refused(t)
      PROVE  Counted'
  BY <1>9 DEF Counted, Details, Timeline, LinkedSession, RecordingsListed, ObservationsListed,
              SharingKnown, WebhookTaken, DetailsNext, Captured, Done, Refused
<1> QED  BY <1>1, <1>2, <1>4, <1>5, <1>7, <1>8, <1>9 DEF CallsNext

LEMMA DevicesCounted == ASSUME Counted, DevicesNext PROVE Counted'
<1>1. ASSUME (\E d \in Devices : OpenDevice(d)) \/ PressRefresh \/ InvokeTool PROVE Counted'
  BY <1>1, CountsOn DEF OpenDevice, PressRefresh, InvokeTool
<1>2. ASSUME (\E d \in Devices : Enroll(d))
             \/ \E t \in InFlight : Invoked(t) \/ ListsArrive(t) \/ DetailArrives(t) \/ DeviceRequestFails(t)
      PROVE  Counted'
  BY <1>2 DEF Counted, Enroll, Invoked, ListsArrive, DetailArrives, DeviceRequestFails
<1> QED  BY <1>1, <1>2 DEF DevicesNext

LEMMA SettingsCounted == ASSUME Counted, SettingsNext PROVE Counted'
<1>1. ASSUME NEW i \in Installations,
             Save(i) \/ (\E c \in Credentials : Link(i, c)) \/ RefreshRows
      PROVE  Counted'
  BY <1>1, CountsOn DEF Save, Link, RefreshRows
<1>2. ASSUME NEW i \in Installations, NEW check \in DOMAIN Place, Check(i, check) PROVE Counted'
  BY <1>2, CountsOn DEF Check, Counted
<1>3. ASSUME RefreshRows PROVE Counted'
  BY <1>3, CountsOn DEF RefreshRows
<1>4. ASSUME NEW i \in Installations,
             (\E f \in DOMAIN Values : \E x \in Values[f] : Type(i, f, x)) \/ Cancel(i)
      PROVE  Counted'
  BY <1>4 DEF Counted, Type, Cancel
<1>5. ASSUME requests' = requests, NEW t \in InFlight,
             ServiceReads(t) \/ Saved(t) \/ RowsArrive(t) \/ Checked(t) \/ SettingFails(t)
      PROVE  Counted'
  BY <1>5 DEF Counted, ServiceReads, Saved, RowsArrive, Checked, SettingFails
<1> QED  BY <1>1, <1>2, <1>3, <1>4, <1>5 DEF SettingsNext

LEMMA PoliciesCounted == ASSUME Counted, PoliciesNext PROVE Counted'
<1>1. ASSUME (\E d \in Deliveries : ChoosePolicy(d) \/ SwitchPolicy(d)) \/ (\E c \in Checks : CheckPolicy(c))
             \/ \E p \in Policies : EditPolicy(p)
      PROVE  Counted'
  BY <1>1, CountsOn DEF ChoosePolicy, SwitchPolicy, CheckPolicy, EditPolicy
<1>2. ASSUME requests' = requests, NEW t \in InFlight, PolicyRequestFails(t) PROVE Counted'
  BY <1>2, CountsOn DEF PolicyRequestFails
<1>3. ASSUME requests' = requests, NEW t \in InFlight,
             PolicyChanged(t) \/ PolicyRead(t) \/ PoliciesListed(t) \/ Switched(t) \/ PolicyChecked(t)
             \/ TabLoaded(t) \/ Edited(t)
      PROVE  Counted'
  BY <1>3 DEF Counted, PolicyChanged, PolicyRead, PoliciesListed, Switched, PolicyChecked, TabLoaded, Edited
<1> QED  BY <1>1, <1>2, <1>3 DEF PoliciesNext

LEMMA SignCounted == ASSUME Counted, SignNext PROVE Counted'
<1>1. ASSUME NEW b \in BrowserTabs,
             OpenPage(b) \/ StartOidcLogin(b) \/ ReturnFromProvider(b) \/ LogOut(b)
             \/ \E u \in Users : SubmitForm(b, u)
      PROVE  Counted'
  <2>1. Started /\ crossed' = crossed
    BY <1>1 DEF OpenPage, StartOidcLogin, ReturnFromProvider, LogOut, SubmitForm
  <2> QED  BY <2>1, CountsOn DEF Counted
<1>2. ASSUME (\E k \in DOMAIN logins : Expire(k)) \/ \E f \in states : Forget(f) PROVE Counted'
  BY <1>2 DEF Counted, Expire, Forget
<1>3. ASSUME requests' = requests, NEW t \in InFlight,
             LoggedIn(t) \/ StateKept(t) \/ StateUsed(t) \/ Identified(t) \/ (\E u \in Users : Granted(t, u))
             \/ RevokedLocal(t) \/ RevokedOidc(t) \/ LoginAnswered(t) \/ ProviderOpened(t)
             \/ CallbackAnswered(t) \/ MeAnswered(t) \/ LogoutAnswered(t) \/ SignFails(t)
      PROVE  Counted'
  BY <1>3 DEF Counted, LoggedIn, StateKept, StateUsed, Identified, Granted, RevokedLocal, RevokedOidc,
              LoginAnswered, ProviderOpened, CallbackAnswered, MeAnswered, LogoutAnswered, SignFails
<1> QED  BY <1>1, <1>2, <1>3 DEF SignNext
-----------------------------------------------------------------------------
(* The types of the console *)

TypesInv ==
  /\ page \in {"cockpit", "calls", "devices", "connectors", "policies", "gate"}
  /\ Counted
  /\ page = "cockpit" => CockpitTypes
  /\ page = "calls" => CallTypes
  /\ page = "devices" => DeviceTypes
  /\ page = "connectors" => SettingTypes
  /\ page = "policies" => PolicyTypes

LEMMA TypesInit == Init => TypesInv
<1> SUFFICES ASSUME Init PROVE TypesInv
  OBVIOUS
<1>0. Counted
  <2>1. requests = 0 /\ crossed = FALSE
    BY DEF Init
  <2>2. 0 \in 0 .. MaxRequests
    BY TabAssumption
  <2> QED  BY <2>1, <2>2 DEF Counted
<1>1. CASE page = "cockpit" /\ CockpitInit
  <2> DEFINE u == Waiting("list", NoSession)
  <2>1. InFlight = {u} /\ CockpitIdle /\ linked \in Opened \cup {NoSession}
    BY <1>1, OneBag DEF CockpitInit, InFlight
  <2>2. CockpitTask(u)
    BY DEF CockpitTask, Task, Kinds
  <2> HIDE DEF u
  <2>3. CockpitTypes
    BY <2>1, <2>2, CockpitAssumption DEF CockpitIdle, CockpitTypes, Panels, Cleared
  <2> QED  BY <1>0, <1>1, <2>3 DEF TypesInv
<1>2. CASE page = "calls" /\ CallsInit
  <2> DEFINE u == CallTask("calls", "asked", NoCall, NoSession, "none")
  <2>1. InFlight = {u} /\ CallsIdle
    BY <1>2, OneBag DEF CallsInit, InFlight
  <2>2. CallTaskNames(u)
    BY DEF CallTaskNames, AboutKinds
  <2> HIDE DEF u
  <2>3. CallTypes
    BY <2>1, <2>2 DEF CallsIdle, CallTypes
  <2> QED  BY <1>0, <1>2, <2>3 DEF TypesInv
<1>3. CASE page = "devices" /\ DevicesInit
  <2> DEFINE u == Refresh(NoDevice, NoDevice)
  <2>1. InFlight = {u} /\ DevicesIdle /\ enrolled \subseteq Devices
    BY <1>3, OneBag DEF DevicesInit, InFlight
  <2>2. DeviceNames(u)
    BY DEF DeviceNames, Refresh, DeviceTask
  <2> HIDE DEF u
  <2>3. DeviceTypes
    BY <2>1, <2>2 DEF DevicesIdle, DeviceTypes
  <2> QED  BY <1>0, <1>3, <2>3 DEF TypesInv
<1>4. CASE page = "connectors" /\ SettingsInit
  <2>1. SettingTypes
    BY <1>4 DEF SettingsInit, SettingsIdle, SettingTypes
  <2> QED  BY <1>0, <1>4, <2>1 DEF TypesInv
<1>5. CASE page = "policies" /\ PoliciesInit
  <2> DEFINE u == Listing({})
             v == FetchAll({})
  <2>1. u.kind = "policies" /\ v.kind = "all" /\ PolicyData(u) /\ PolicyData(v)
    <3>1. << >> \in [{} -> BOOLEAN] /\ DOMAIN << >> = {}
      OBVIOUS
    <3> QED  BY <3>1 DEF Listing, FetchAll, PolicyData, Checks
  <2>2. tasks = One(u) (+) One(v) /\ PoliciesIdle /\ inForce \in [Policies -> {FALSE}]
    BY <1>5 DEF PoliciesInit
  <2> HIDE DEF u, v
  <2>3. InFlight \subseteq {u, v}
    BY <2>2, OneBag, BagAdd DEF InFlight
  <2>4. \A t \in InFlight : PolicyData(t)
    BY <2>1, <2>3
  <2>5. /\ chips = << >> /\ chosen = << >> /\ editor = << >> /\ checks = [c \in Checks |-> {}]
        /\ checking = {} /\ savingIn = {} /\ changedIn = [panel |-> {}, editor |-> {}]
    BY <2>2 DEF PoliciesIdle
  <2>6. editor \in [DOMAIN editor -> BOOLEAN] /\ changedIn \in [{"panel", "editor"} -> SUBSET Policies]
    BY <2>5
  <2>7. inForce \in [Policies -> BOOLEAN]
    BY <2>2
  <2>8. PolicyTypes
    BY <2>4, <2>5, <2>6, <2>7 DEF PolicyTypes
  <2> QED  BY <1>0, <1>5, <2>8 DEF TypesInv
<1>6. CASE page = "gate" /\ SignInit
  BY <1>0, <1>6 DEF TypesInv
<1> QED  BY <1>1, <1>2, <1>3, <1>4, <1>5, <1>6 DEF Init

LEMMA TypesStutter == ASSUME TypesInv, UNCHANGED vars PROVE TypesInv'
<1>1. /\ UNCHANGED <<cockpitVars, callVars, deviceVars, settingVars, policyVars, signVars, page>>
      /\ UNCHANGED <<tasks, requests, crossed>> /\ InFlight' = InFlight
  BY DEF vars, InFlight
<1>2. Counted' /\ page' = page
  BY <1>1 DEF TypesInv, Counted
<1>3. CockpitTypes => CockpitTypes'
  BY <1>1 DEF cockpitVars, CockpitTypes, CockpitTask
<1>4. CallTypes => CallTypes'
  BY <1>1 DEF callVars, CallTypes, CallTaskNames
<1>5. DeviceTypes => DeviceTypes'
  BY <1>1 DEF deviceVars, DeviceTypes, DeviceNames
<1>6. SettingTypes => SettingTypes'
  BY <1>1 DEF settingVars, SettingTypes
<1>7. PolicyTypes => PolicyTypes'
  BY <1>1 DEF policyVars, PolicyTypes, PolicyData
<1> QED  BY <1>2, <1>3, <1>4, <1>5, <1>6, <1>7 DEF TypesInv

LEMMA TypesStep ==
  ASSUME PagesInv, TypesInv, [Next]_vars PROVE TypesInv'
<1>1. CASE UNCHANGED vars
  BY <1>1, TypesStutter
<1>2. CASE Next
  <2>1. page' = page /\ IsABag(tasks) /\ Counted
    BY <1>2 DEF Next, PagesInv, TypesInv
  <2>2. CASE page = "cockpit" /\ CockpitNext
    BY <2>1, <2>2, CockpitTypesStep, CockpitCounted DEF PagesInv, TypesInv
  <2>3. CASE page = "calls" /\ CallsNext
    BY <2>1, <2>3, CallsTypesStep, CallsCounted DEF PagesInv, TypesInv
  <2>4. CASE page = "devices" /\ DevicesNext
    BY <2>1, <2>4, DevicesTypesStep, DevicesCounted DEF PagesInv, TypesInv
  <2>5. CASE page = "connectors" /\ SettingsNext
    BY <2>1, <2>5, SettingsTypesStep, SettingsCounted DEF PagesInv, TypesInv
  <2>6. CASE page = "policies" /\ PoliciesNext
    BY <2>1, <2>6, PoliciesTypesStep, PoliciesCounted DEF PagesInv, TypesInv
  <2>7. CASE page = "gate" /\ SignNext
    BY <2>1, <2>7, SignCounted DEF TypesInv
  <2> QED  BY <1>2, <2>2, <2>3, <2>4, <2>5, <2>6, <2>7 DEF Next
<1> QED  BY <1>1, <1>2

\* The state of the page shown has its types, whatever the handlers under way
\* leave in it and in whichever order (the pages of the web console).
THEOREM ConsoleTypes == Spec => []TypeOK
<1>1. PagesInv /\ TypesInv => TypeOK
  <2> SUFFICES ASSUME PagesInv, TypesInv PROVE TypeOK
    OBVIOUS
  <2>1. TabTypeOK
    BY DEF PagesInv, TypesInv, Counted, TabTypeOK
  <2>2. CASE page = "cockpit"
    BY <2>1, <2>2 DEF TypesInv, CockpitTypes, CockpitTask, CockpitTypeOK, TypeOK
  <2>3. CASE page = "calls"
    <3>1. /\ callRows \in [DOMAIN callRows -> CallRow] /\ DOMAIN callRows \subseteq Calls
          /\ DOMAIN recent \subseteq DOMAIN callRows /\ call \in Snapshot \cup {NoCall}
      BY <2>3 DEF PagesInv, CallInv, CallShape
    <3>2. about \in [timeline : Calls \cup {NoCall}, session : Sessions \cup {NoSession},
                     greeting : Sessions \cup {NoSession}, recordings : SUBSET Calls,
                     observations : SUBSET Sessions, sharing : Sessions \cup {NoSession}]
      <4>1. about = [timeline |-> about.timeline, session |-> about.session, greeting |-> about.greeting,
                     recordings |-> about.recordings, observations |-> about.observations,
                     sharing |-> about.sharing]
        BY <2>3 DEF PagesInv, CallInv, CallShape
      <4> QED  BY <2>3, <4>1 DEF TypesInv, CallTypes
    <3>3. busy \subseteq UNION {Flag[k] : k \in DOMAIN Flag}
      BY <2>3 DEF TypesInv, CallTypes, Flags
    <3> QED  BY <2>1, <2>3, <3>1, <3>2, <3>3 DEF CallsTypeOK, TypeOK
  <2>4. CASE page = "devices"
    BY <2>1, <2>4 DEF TypesInv, DeviceTypes, DevicesTypeOK, TypeOK
  <2>5. CASE page = "connectors"
    <3>1. /\ settings \in [Installations -> Row]
          /\ rows = << >> \/ rows \in [Installations -> Row]
          /\ DOMAIN editing \subseteq DOMAIN rows
          /\ results \in [Installations -> [Places -> [check : DOMAIN Place \cup {"none"}, running : BOOLEAN]]]
          /\ \A i \in DOMAIN editing : Edit(editing[i])
      BY <2>5 DEF PagesInv, SettingInv, SettingShape
    <3>2. \A i \in DOMAIN editing : \A f \in DOMAIN editing[i] : editing[i][f] \in Values[f]
      BY <3>1 DEF Edit
    <3> QED  BY <2>1, <2>5, <3>1, <3>2 DEF TypesInv, SettingTypes, SettingsTypeOK, TypeOK
  <2>6. CASE page = "policies"
    <3>1. DOMAIN editor \subseteq Policies
      BY <2>6 DEF PagesInv, StoreInv, StoreShape
    <3> QED  BY <2>1, <2>6, <3>1 DEF TypesInv, PolicyTypes, PoliciesTypeOK, TypeOK
  <2>7. CASE page = "gate"
    <3>1. FlowRows /\ SignPages
      BY <2>7 DEF PagesInv, FlowInv, ActInv
    <3>2. \A k \in DOMAIN logins : logins[k] \in [user : Users, flow : 0 .. flows, live : BOOLEAN]
      <4>1. ASSUME NEW k \in DOMAIN logins
            PROVE  /\ logins[k] \in Login /\ logins[k].flow \in 0 .. flows
                   /\ logins[k] = [user |-> logins[k].user, flow |-> logins[k].flow, live |-> logins[k].live]
        <5>1. logins[k] \in Login /\ logins[k].flow <= flows
          BY <3>1 DEF FlowRows
        <5>2. logins[k].flow \in Nat /\ flows \in Nat
          BY <3>1, <5>1 DEF FlowRows, Login
        <5>3. logins[k].flow \in 0 .. flows
          BY <5>1, <5>2
        <5>4. logins[k] = [user |-> logins[k].user, flow |-> logins[k].flow, live |-> logins[k].live]
          BY <5>1 DEF Login
        <5> QED  BY <5>1, <5>3, <5>4
      <4> QED  BY <4>1 DEF Login
    <3> QED  BY <2>1, <2>7, <3>1, <3>2 DEF FlowRows, SignPages, Token, SignTypeOK, TypeOK
  <2> QED  BY <2>2, <2>3, <2>4, <2>5, <2>6, <2>7 DEF TypesInv
<1>2. Init => TypesInv
  BY TypesInit
<1>3. PagesInv /\ TypesInv /\ [Next]_vars => TypesInv'
  BY TypesStep
<1>4. Spec => []TypesInv
  BY <1>2, <1>3, PagesAlways, PTL DEF Spec
<1> QED  BY <1>1, <1>4, PagesAlways, PTL
=============================================================================
