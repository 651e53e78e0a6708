--------------------------- MODULE CaseworkProofs ---------------------------
(***************************************************************************)
(* Theorems of Casework, for every set of sessions, calls, observations,   *)
(* packets, tickets and requests: rows keep their types, a session lists   *)
(* what has been saved, a linked call stays linked and is listed, calls    *)
(* keep their lifecycle, packets are made of approved observations.        *)
(*                                                                         *)
(* None of these is inductive: a request may have planned, long ago, to    *)
(* write a row over the one that is there.  CaseInv says of each save      *)
(* still planned that what it lists exists already or is written earlier   *)
(* in the same plan; rows are never removed, so it stays true whatever the *)
(* other requests do.  OrderInv says what each save still planned relies   *)
(* on: the status its request read is the one the row has, a link and the  *)
(* list that goes with it are in the same plan, or done.  A save of        *)
(* another request may break that, and takes the row out of clean.         *)
(***************************************************************************)
EXTENDS Casework, SequenceTheorems, TLAPS

-----------------------------------------------------------------------------
(* Rows *)

LEMMA RowOfTable ==
  /\ \A id \in Sessions : RowOf(id) = SessionRow /\ Blank(id) = [status |-> "absent", listed |-> {}]
  /\ \A id \in Calls :
       /\ RowOf(id) = CallRow
       /\ Blank(id) = [status |-> "absent", session |-> Nothing, ended |-> FALSE, listed |-> {}]
  /\ \A id \in Observations :
       /\ RowOf(id) = ObservationRow
       /\ Blank(id) = [status |-> "absent", session |-> Nothing, sharing |-> "inactive",
                       packet |-> Nothing]
  /\ \A id \in Packets :
       RowOf(id) = PacketRow /\ Blank(id) = [status |-> "absent", session |-> Nothing, from |-> Nothing]
  /\ \A id \in Tickets : RowOf(id) = TicketRow /\ Blank(id) = [status |-> "absent"]
  /\ \A id \in Recordings :
       RowOf(id) = RecordingRow /\ Blank(id) = [status |-> "absent", call |-> Nothing, session |-> Nothing]
  /\ \A id \in Drafts : RowOf(id) = DraftRow /\ Blank(id) = [status |-> "absent", session |-> Nothing]
  /\ \A id \in SharingRows : RowOf(id) = SharingRow /\ Blank(id) = [status |-> "inactive"]
<1> DEFINE SH == SharingRows
<1> HIDE DEF SH
<1> USE CaseAssumption DEF RowOf, Blank
<1> QED  OBVIOUS

LEMMA BlankTyped == \A id \in Ids : Blank(id) \in RowOf(id)
<1>1. \A id \in Sessions : Blank(id) \in RowOf(id)  BY RowOfTable DEF SessionRow
<1>2. \A id \in Calls : Blank(id) \in RowOf(id)  BY RowOfTable DEF CallRow
<1>3. \A id \in Observations : Blank(id) \in RowOf(id)  BY RowOfTable DEF ObservationRow
<1>4. \A id \in Packets : Blank(id) \in RowOf(id)  BY RowOfTable DEF PacketRow
<1>5. \A id \in Tickets : Blank(id) \in RowOf(id)  BY RowOfTable DEF TicketRow
<1>6. \A id \in Recordings : Blank(id) \in RowOf(id)  BY RowOfTable DEF RecordingRow
<1>7. \A id \in Drafts : Blank(id) \in RowOf(id)  BY RowOfTable DEF DraftRow
<1>8. \A id \in SharingRows : Blank(id) \in RowOf(id)  BY RowOfTable DEF SharingRow
<1> QED  BY <1>1, <1>2, <1>3, <1>4, <1>5, <1>6, <1>7, <1>8 DEF Ids

\* The saves a plan may hold.
Saves == UNION {[id : {id}, row : RowOf(id)] : id \in Ids}

LEMMA SaveTyped ==
  ASSUME NEW id \in Ids, NEW row \in RowOf(id)
  PROVE  Save(id, row) \in Saves /\ Save(id, row).id = id /\ Save(id, row).row = row
BY DEF Save, Saves

LEMMA SaveParts ==
  ASSUME NEW a \in Saves
  PROVE  a.id \in Ids /\ a.row \in RowOf(a.id)
BY DEF Saves

-----------------------------------------------------------------------------
(* The inductive invariant *)

RowsTyped == db = [id \in Ids |-> db[id]] /\ \A id \in Ids : db[id] \in RowOf(id)

\* What the saves of a plan list exists or is written earlier in the plan.
Covers(plan) ==
  \A i \in DOMAIN plan :
    /\ plan[i].row.status # "absent"
    /\ plan[i].id \in Sessions
         => \A x \in plan[i].row.listed \ Tickets : Exists(x) \/ \E j \in 1 .. i - 1 : plan[j].id = x

CaseInv ==
  /\ RowsTyped
  /\ todo \in [Requests -> Seq(Saves)]
  /\ clean \subseteq Ids
  /\ ListedRowsExist
  /\ \A p \in Requests : Covers(todo[p])

LEMMA InitInv == Init => CaseInv
<1> SUFFICES ASSUME Init PROVE CaseInv
  OBVIOUS
<1>1. RowsTyped
  BY BlankTyped DEF Init, RowsTyped
<1>2. todo \in [Requests -> Seq(Saves)] /\ clean \subseteq Ids
  BY DEF Init
<1>3. ListedRowsExist
  BY RowOfTable DEF Init, ListedRowsExist, Ids
<1>4. \A p \in Requests : Covers(todo[p])
  BY DEF Init, Covers
<1> QED  BY <1>1, <1>2, <1>3, <1>4 DEF CaseInv

LEMMA InvTypes == CaseInv => TypeOK
<1> SUFFICES ASSUME CaseInv PROVE TypeOK
  OBVIOUS
<1>1. DOMAIN db = Ids /\ \A id \in Ids : db[id] \in RowOf(id)
  BY DEF CaseInv, RowsTyped
<1>2. DOMAIN todo = Requests /\ clean \subseteq Ids
  BY DEF CaseInv
<1>3. ASSUME NEW p \in Requests, NEW i \in DOMAIN todo[p]
      PROVE  todo[p][i].row \in RowOf(todo[p][i].id)
  <2>1. todo[p][i] \in Saves
    BY <1>3 DEF CaseInv
  <2> QED  BY <2>1, SaveParts
<1> QED  BY <1>1, <1>2, <1>3 DEF TypeOK

\* A request that begins with a plan of typed, covered saves.
LEMMA BeginStep ==
  ASSUME CaseInv, NEW p \in Requests, NEW plan \in Seq(Saves), Covers(plan), Begin(p, plan)
  PROVE  CaseInv'
<1>1. db' = db /\ clean' = clean /\ todo' = [todo EXCEPT ![p] = plan]
  BY DEF Begin
<1>2. RowsTyped' /\ ListedRowsExist' /\ clean' \subseteq Ids
  BY <1>1 DEF CaseInv, RowsTyped, ListedRowsExist, Exists
<1>3. todo' \in [Requests -> Seq(Saves)]
  BY <1>1 DEF CaseInv
<1>4. \A q \in Requests : Covers(todo[q])'
  BY <1>1 DEF CaseInv, Covers, Exists
<1> QED  BY <1>2, <1>3, <1>4 DEF CaseInv

\* The plan is cut short.
LEMMA AbortStep ==
  ASSUME CaseInv, NEW p \in Requests, Abort(p)
  PROVE  CaseInv'
<1>1. db' = db /\ clean' \subseteq clean /\ todo' = [todo EXCEPT ![p] = <<>>]
  BY DEF Abort
<1>2. RowsTyped' /\ ListedRowsExist' /\ clean' \subseteq Ids
  BY <1>1 DEF CaseInv, RowsTyped, ListedRowsExist, Exists
<1>3. todo' \in [Requests -> Seq(Saves)]
  BY <1>1 DEF CaseInv
<1>4. \A q \in Requests : Covers(todo[q])'
  BY <1>1 DEF CaseInv, Covers, Exists
<1> QED  BY <1>2, <1>3, <1>4 DEF CaseInv

\* What a save leaves in its row: the planned row, but for the link of a call.
LEMMA StoredTyped ==
  ASSUME NEW id \in Ids, NEW old \in RowOf(id), NEW row \in RowOf(id)
  PROVE  /\ Stored(id, old, row) \in RowOf(id)
         /\ Stored(id, old, row).status = row.status
         /\ id \in Sessions => Stored(id, old, row) = row
<1>1. CASE id \in Calls
  <2>1. RowOf(id) = CallRow /\ id \notin Sessions
    BY <1>1, RowOfTable, CaseAssumption
  <2> QED  BY <1>1, <2>1 DEF Stored, CallRow
<1>2. CASE id \notin Calls
  BY <1>2 DEF Stored
<1> QED  BY <1>1, <1>2

\* The next save of a plan: its row lists what exists by now, and what it adds
\* is there for the saves after it.
LEMMA CommitStep ==
  ASSUME CaseInv, NEW p \in Requests, Commit(p)
  PROVE  CaseInv'
<1> DEFINE a == Head(todo[p])
           id == a.id
           new == Stored(id, db[id], a.row)
<1>1. todo[p] \in Seq(Saves) /\ todo[p] # <<>> /\ a = todo[p][1] /\ 1 \in DOMAIN todo[p]
  BY DEF CaseInv, Commit
<1>2. id \in Ids /\ a.row \in RowOf(id) /\ db[id] \in RowOf(id)
  <2>1. a \in Saves  BY <1>1
  <2> QED  BY <2>1, SaveParts DEF CaseInv, RowsTyped
<1>3. /\ db' = [db EXCEPT ![id] = new]
      /\ todo' = [todo EXCEPT ![p] = Tail(@)]
      /\ clean' \subseteq clean
  BY DEF Commit
<1>4. /\ new \in RowOf(id)
      /\ new.status = a.row.status
      /\ id \in Sessions => new = a.row
  BY <1>2, StoredTyped
<1>5. db' = [x \in Ids |-> IF x = id THEN new ELSE db[x]]
  BY <1>2, <1>3 DEF CaseInv, RowsTyped
<1>6. a.row.status # "absent"
      /\ (id \in Sessions => \A x \in a.row.listed \ Tickets : Exists(x))
  <2>1. Covers(todo[p])  BY DEF CaseInv
  <2>2. \A j \in 1 .. 1 - 1 : FALSE  OBVIOUS
  <2> QED  BY <1>1, <2>1, <2>2 DEF Covers
<1> HIDE DEF a, id, new
<1>7. \A x \in Ids : (Exists(x) => Exists(x)') /\ (x = id => Exists(x)')
  BY <1>4, <1>5, <1>6 DEF Exists
<1>8. RowsTyped'
  BY <1>2, <1>4, <1>5 DEF CaseInv, RowsTyped
<1>9. todo' \in [Requests -> Seq(Saves)]
  <2>1. Tail(todo[p]) \in Seq(Saves)  BY <1>1
  <2> QED  BY <1>3, <2>1 DEF CaseInv
<1>10. \A s \in Sessions : s \in Ids /\ db[s].listed \subseteq Ids
  <2>1. TAKE s \in Sessions
  <2>2. s \in Ids  BY DEF Ids
  <2>3. db[s] \in SessionRow  BY <2>2, RowOfTable DEF CaseInv, RowsTyped
  <2> QED  BY <2>2, <2>3 DEF SessionRow
<1>11. ListedRowsExist'
  <2> SUFFICES ASSUME NEW s \in Sessions, NEW x \in db'[s].listed \ Tickets PROVE Exists(x)'
    BY DEF ListedRowsExist
  <2>1. CASE s = id
    <3>1. db'[s] = a.row  BY <2>1, <1>4, <1>5, <1>2
    <3>2. a.row \in SessionRow  BY <2>1, <1>2, RowOfTable
    <3>3. x \in Ids  BY <3>1, <3>2 DEF SessionRow
    <3> QED  BY <2>1, <3>1, <3>3, <1>6, <1>7
  <2>2. CASE s # id
    <3>1. db'[s] = db[s]  BY <2>2, <1>5, <1>10
    <3> QED  BY <3>1, <1>7, <1>10 DEF CaseInv, ListedRowsExist
  <2> QED  BY <2>1, <2>2
<1>12. ASSUME NEW q \in Requests PROVE Covers(todo[q])'
  <2>1. Covers(todo[q])  BY DEF CaseInv
  <2>2. todo[q] \in Seq(Saves)  BY DEF CaseInv
  <2>3. \A i \in DOMAIN todo[q] :
           todo[q][i].id \in Sessions => todo[q][i].row.listed \subseteq Ids
    <3> TAKE i \in DOMAIN todo[q]
    <3> HAVE todo[q][i].id \in Sessions
    <3>1. todo[q][i] \in Saves  BY <2>2
    <3>2. todo[q][i].row \in SessionRow  BY <3>1, SaveParts, RowOfTable
    <3> QED  BY <3>2 DEF SessionRow
  <2>4. CASE q # p
    <3>1. todo'[q] = todo[q]  BY <2>4, <1>3
    <3> SUFFICES ASSUME NEW i \in DOMAIN todo[q]
                 PROVE  /\ todo[q][i].row.status # "absent"
                        /\ todo[q][i].id \in Sessions
                             => \A x \in todo[q][i].row.listed \ Tickets :
                                  Exists(x)' \/ \E j \in 1 .. i - 1 : todo[q][j].id = x
      BY <3>1 DEF Covers
    <3> QED  BY <2>1, <2>3, <1>7 DEF Covers
  <2>5. CASE q = p
    <3> DEFINE t == Tail(todo[p])
    <3>1. todo'[q] = t  BY <2>5, <1>3 DEF CaseInv
    <3>2. /\ DOMAIN t = 1 .. Len(todo[p]) - 1
          /\ DOMAIN todo[p] = 1 .. Len(todo[p])
          /\ Len(todo[p]) \in Nat
          /\ \A i \in DOMAIN t : t[i] = todo[p][i + 1]
      BY <1>1
    <3> SUFFICES ASSUME NEW i \in DOMAIN t
                 PROVE  /\ t[i].row.status # "absent"
                        /\ t[i].id \in Sessions
                             => \A x \in t[i].row.listed \ Tickets :
                                  Exists(x)' \/ \E j \in 1 .. i - 1 : t[j].id = x
      BY <3>1 DEF Covers
    <3> HIDE DEF t
    <3>3. i + 1 \in DOMAIN todo[p] /\ t[i] = todo[p][i + 1] /\ i \in Nat
      BY <3>2
    <3>4. ASSUME t[i].id \in Sessions, NEW x \in t[i].row.listed \ Tickets
          PROVE  Exists(x)' \/ \E j \in 1 .. i - 1 : t[j].id = x
      <4>1. x \in Ids  BY <2>3, <2>5, <3>3, <3>4
      <4>2. CASE Exists(x)  BY <4>1, <4>2, <1>7
      <4>3. ASSUME NEW j \in 1 .. (i + 1) - 1, todo[p][j].id = x
            PROVE  Exists(x)' \/ \E k \in 1 .. i - 1 : t[k].id = x
        <5>1. CASE j = 1
          BY <5>1, <4>1, <4>3, <1>1, <1>7 DEF id
        <5>2. CASE j # 1
          <6>1. j - 1 \in 1 .. i - 1 /\ j - 1 \in DOMAIN t /\ (j - 1) + 1 = j
            BY <5>2, <3>2, <3>3
          <6>2. t[j - 1] = todo[p][j]  BY <6>1, <3>2
          <6> QED  BY <6>1, <6>2, <4>3
        <5> QED  BY <5>1, <5>2
      <4> QED  BY <2>1, <2>5, <3>3, <3>4, <4>2, <4>3 DEF Covers
    <3> QED  BY <2>1, <2>5, <3>3, <3>4 DEF Covers
  <2> QED  BY <2>4, <2>5
<1>13. clean' \subseteq Ids  BY <1>3 DEF CaseInv
<1> QED  BY <1>8, <1>9, <1>11, <1>12, <1>13 DEF CaseInv

-----------------------------------------------------------------------------
(* Plans *)

\* Ids of one table are ids, and no sessions unless they are.
LEMMA TableIds ==
  /\ Sessions \cup Calls \cup Observations \cup Packets \cup Tickets \cup Recordings \cup Drafts
       \cup SharingRows \subseteq Ids
  /\ Sessions \cap (Calls \cup Observations \cup Packets \cup Tickets \cup Recordings \cup Drafts
       \cup SharingRows) = {}
  /\ Nothing \notin Ids
BY CaseAssumption DEF Ids

\* One save, of no session.
LEMMA SinglePlan ==
  ASSUME NEW id \in Ids \ Sessions, NEW row \in RowOf(id), row.status # "absent"
  PROVE  <<Save(id, row)>> \in Seq(Saves) /\ Covers(<<Save(id, row)>>)
<1>1. /\ Save(id, row) \in Saves
      /\ Save(id, row).id = id
      /\ Save(id, row).row = row
  BY SaveTyped
<1> DEFINE a == Save(id, row)
<1> HIDE DEF a
<1>2. <<a>> \in Seq(Saves) /\ DOMAIN <<a>> = {1} /\ <<a>>[1] = a
  BY <1>1 DEF a
<1>3. Covers(<<a>>)
  BY <1>1, <1>2 DEF Covers, a
<1> QED  BY <1>2, <1>3 DEF a

\* A row of the session that lists only what is there.
ListsPresent(row, more) ==
  row \in SessionRow /\ row.status # "absent" /\ \A x \in row.listed \ Tickets : Exists(x) \/ x \in more

LEMMA SessionPlan ==
  ASSUME NEW s \in Sessions, NEW row, ListsPresent(row, {})
  PROVE  <<Save(s, row)>> \in Seq(Saves) /\ Covers(<<Save(s, row)>>)
<1>1. s \in Ids /\ row \in RowOf(s)
  BY TableIds, RowOfTable DEF ListsPresent
<1>2. /\ Save(s, row) \in Saves
      /\ Save(s, row).id = s
      /\ Save(s, row).row = row
  BY <1>1, SaveTyped
<1> DEFINE a == Save(s, row)
<1> HIDE DEF a
<1>3. <<a>> \in Seq(Saves) /\ DOMAIN <<a>> = {1} /\ <<a>>[1] = a
  BY <1>2 DEF a
<1>4. Covers(<<a>>)
  BY <1>2, <1>3 DEF Covers, ListsPresent, a
<1> QED  BY <1>3, <1>4 DEF a

\* A save, then the session that lists it.
LEMMA ListedPlan ==
  ASSUME NEW id \in Ids \ Sessions, NEW new \in RowOf(id), new.status # "absent",
         NEW s \in Sessions, NEW row, ListsPresent(row, {id})
  PROVE  <<Save(id, new), Save(s, row)>> \in Seq(Saves) /\ Covers(<<Save(id, new), Save(s, row)>>)
<1>1. s \in Ids /\ row \in RowOf(s)
  BY TableIds, RowOfTable DEF ListsPresent
<1> DEFINE a == Save(id, new)
           b == Save(s, row)
<1>2. a \in Saves /\ a.id = id /\ a.row = new /\ b \in Saves /\ b.id = s /\ b.row = row
  BY <1>1, SaveTyped
<1> HIDE DEF a, b
<1>3. <<a, b>> \in Seq(Saves) /\ DOMAIN <<a, b>> = {1, 2} /\ <<a, b>>[1] = a /\ <<a, b>>[2] = b
  BY <1>2
<1>4. 1 \in 1 .. 2 - 1
  OBVIOUS
<1>5. Covers(<<a, b>>)
  BY <1>2, <1>3, <1>4 DEF Covers, ListsPresent
<1> QED  BY <1>3, <1>5 DEF a, b

\* The same, with a last save of something else.
LEMMA ListedThenPlan ==
  ASSUME NEW id \in Ids \ Sessions, NEW new \in RowOf(id), new.status # "absent",
         NEW s \in Sessions, NEW row, ListsPresent(row, {id}),
         NEW last \in Ids \ Sessions, NEW after \in RowOf(last), after.status # "absent"
  PROVE  /\ <<Save(id, new), Save(s, row), Save(last, after)>> \in Seq(Saves)
         /\ Covers(<<Save(id, new), Save(s, row), Save(last, after)>>)
<1>1. s \in Ids /\ row \in RowOf(s)
  BY TableIds, RowOfTable DEF ListsPresent
<1> DEFINE a == Save(id, new)
           b == Save(s, row)
           c == Save(last, after)
<1>2. /\ a \in Saves /\ a.id = id /\ a.row = new
      /\ b \in Saves /\ b.id = s /\ b.row = row
      /\ c \in Saves /\ c.id = last /\ c.row = after
  BY <1>1, SaveTyped
<1> HIDE DEF a, b, c
<1>3. /\ <<a, b, c>> \in Seq(Saves) /\ DOMAIN <<a, b, c>> = {1, 2, 3}
      /\ <<a, b, c>>[1] = a /\ <<a, b, c>>[2] = b /\ <<a, b, c>>[3] = c
  BY <1>2
<1>4. 1 \in 1 .. 2 - 1
  OBVIOUS
<1>5. Covers(<<a, b, c>>)
  BY <1>2, <1>3, <1>4 DEF Covers, ListsPresent
<1> QED  BY <1>3, <1>5 DEF a, b, c

\* The list of a session that exists, with a row saved earlier in the plan.
LEMMA ListingPresent ==
  ASSUME CaseInv, NEW s \in Sessions, Exists(s), NEW more \in SUBSET Ids, NEW rest
  PROVE  /\ (\A x \in more \ Tickets : Exists(x) \/ x \in rest) => ListsPresent(Listing(s, more), rest)
         /\ ListsPresent([db[s] EXCEPT !.listed = @ \ more], {})
<1>1. db[s] \in SessionRow /\ db[s].status # "absent"
  BY TableIds, RowOfTable DEF CaseInv, RowsTyped, Exists
<1>2. \A x \in db[s].listed \ Tickets : Exists(x)
  BY DEF CaseInv, ListedRowsExist
<1>3. /\ Listing(s, more) \in SessionRow
      /\ Listing(s, more).status = db[s].status
      /\ Listing(s, more).listed = db[s].listed \cup more
  BY <1>1 DEF Listing, SessionRow
<1>4. /\ [db[s] EXCEPT !.listed = @ \ more] \in SessionRow
      /\ [db[s] EXCEPT !.listed = @ \ more].status = db[s].status
      /\ [db[s] EXCEPT !.listed = @ \ more].listed = db[s].listed \ more
  BY <1>1 DEF SessionRow
<1> QED  BY <1>1, <1>2, <1>3, <1>4 DEF ListsPresent

-----------------------------------------------------------------------------
(* Requests on sessions *)

LEMMA CreateSessionStep ==
  ASSUME CaseInv, NEW p \in Requests, NEW s \in Sessions, CreateSession(p, s)
  PROVE  CaseInv'
<1> DEFINE row == [status |-> "open", listed |-> {}]
<1>1. ListsPresent(row, {})
  BY DEF ListsPresent, SessionRow
<1> HIDE DEF row
<1>2. <<Save(s, row)>> \in Seq(Saves) /\ Covers(<<Save(s, row)>>)
  BY <1>1, SessionPlan
<1>3. Begin(p, <<Save(s, row)>>)
  BY DEF CreateSession, row
<1> QED  BY <1>2, <1>3, BeginStep

\* The ticket, then its reference, then the packet made of it.
LEMMA TicketPlanStep ==
  ASSUME CaseInv, NEW p \in Requests, NEW s \in Sessions, NEW t \in Tickets, NEW k \in Packets,
         Exists(s), Begin(p, TicketPlan(s, t, k))
  PROVE  CaseInv'
<1>1. /\ s \in Ids /\ t \in Ids /\ k \in Ids /\ t \notin Sessions /\ k \notin Sessions
  BY TableIds
<1> DEFINE a == Save(s, Listing(s, {t}))
           b == Save(t, [status |-> "saved"])
           c == Save(k, NewPacket(s, Nothing))
           d == Save(s, Listing(s, {t, k}))
<1>2. /\ Listing(s, {t}) \in SessionRow /\ Listing(s, {t}).status # "absent"
      /\ \A x \in Listing(s, {t}).listed \ Tickets : Exists(x)
  BY <1>1, ListingPresent DEF ListsPresent
<1>3. /\ Listing(s, {t, k}) \in SessionRow /\ Listing(s, {t, k}).status # "absent"
      /\ \A x \in Listing(s, {t, k}).listed \ Tickets : Exists(x) \/ x = k
  <2>1. ListsPresent(Listing(s, {t, k}), {k})
    BY <1>1, ListingPresent
  <2> QED  BY <2>1 DEF ListsPresent
<1>4. NewPacket(s, Nothing) \in RowOf(k) /\ NewPacket(s, Nothing).status # "absent"
  BY RowOfTable DEF NewPacket, PacketRow
<1>5. [status |-> "saved"] \in RowOf(t)
  BY RowOfTable DEF TicketRow
<1>6. RowOf(s) = SessionRow
  BY RowOfTable
<1>7. /\ a \in Saves /\ a.id = s /\ a.row = Listing(s, {t})
      /\ b \in Saves /\ b.id = t /\ b.row = [status |-> "saved"]
      /\ c \in Saves /\ c.id = k /\ c.row = NewPacket(s, Nothing)
      /\ d \in Saves /\ d.id = s /\ d.row = Listing(s, {t, k})
  BY <1>1, <1>2, <1>3, <1>4, <1>5, <1>6, SaveTyped
<1>8. Begin(p, <<a, b, c, d>>)
  BY DEF TicketPlan
<1> HIDE DEF a, b, c, d
<1>9. /\ <<a, b, c, d>> \in Seq(Saves) /\ DOMAIN <<a, b, c, d>> = {1, 2, 3, 4}
      /\ <<a, b, c, d>>[1] = a /\ <<a, b, c, d>>[2] = b
      /\ <<a, b, c, d>>[3] = c /\ <<a, b, c, d>>[4] = d
  BY <1>7
<1>10. 3 \in 1 .. 4 - 1
  OBVIOUS
<1>11. Covers(<<a, b, c, d>>)
  <2> DEFINE plan == <<a, b, c, d>>
  <2>1. /\ DOMAIN plan = {1, 2, 3, 4}
        /\ plan[1] = a /\ plan[2] = b /\ plan[3] = c /\ plan[4] = d
    BY <1>9
  <2> HIDE DEF plan
  <2>2. /\ a.row.status # "absent" /\ \A x \in a.row.listed \ Tickets : Exists(x)
        /\ b.row.status # "absent" /\ b.id \notin Sessions
        /\ c.row.status # "absent" /\ c.id \notin Sessions
        /\ d.row.status # "absent" /\ \A x \in d.row.listed \ Tickets : Exists(x) \/ x = plan[3].id
    BY <1>1, <1>2, <1>3, <1>4, <1>7, <2>1
  <2>3. Covers(plan)
    BY <1>10, <2>1, <2>2 DEF Covers
  <2> QED  BY <2>3 DEF plan
<1> QED  BY <1>8, <1>9, <1>11, BeginStep

LEMMA CreateContextPacketStep ==
  ASSUME CaseInv, NEW p \in Requests, NEW s \in Sessions, NEW k \in Packets,
         CreateContextPacket(p, s, k)
  PROVE  CaseInv'
<1>1. Exists(s) /\ k \in Ids \ Sessions /\ {k} \in SUBSET Ids
  BY TableIds DEF CreateContextPacket
<1>2. NewPacket(s, Nothing) \in RowOf(k) /\ NewPacket(s, Nothing).status # "absent"
  BY RowOfTable DEF NewPacket, PacketRow
<1>3. ListsPresent(Listing(s, {k}), {k})
  BY <1>1, ListingPresent
<1> DEFINE plan == <<Save(k, NewPacket(s, Nothing)), Save(s, Listing(s, {k}))>>
<1>4. plan \in Seq(Saves) /\ Covers(plan)
  BY <1>1, <1>2, <1>3, ListedPlan
<1>5. Begin(p, plan)
  BY DEF CreateContextPacket
<1> HIDE DEF plan
<1> QED  BY <1>4, <1>5, BeginStep

LEMMA LinkStep ==
  ASSUME CaseInv, NEW p \in Requests, NEW s \in Sessions, NEW t \in Tickets,
         LinkTicketToSession(p, s, t) \/ UnlinkTicketFromSession(p, s, t)
  PROVE  CaseInv'
<1>1. Exists(s) /\ {t} \in SUBSET Ids /\ \A x \in {t} \ Tickets : FALSE
  BY TableIds DEF LinkTicketToSession, UnlinkTicketFromSession
<1>2. /\ ListsPresent(Listing(s, {t}), {})
      /\ ListsPresent([db[s] EXCEPT !.listed = @ \ {t}], {})
  BY <1>1, ListingPresent
<1>3. PICK row : ListsPresent(row, {}) /\ Begin(p, <<Save(s, row)>>)
  BY <1>2 DEF LinkTicketToSession, UnlinkTicketFromSession
<1>4. <<Save(s, row)>> \in Seq(Saves) /\ Covers(<<Save(s, row)>>)
  BY <1>3, SessionPlan
<1> QED  BY <1>3, <1>4, BeginStep

LEMMA DraftStep ==
  ASSUME CaseInv, NEW p \in Requests, NEW s \in Sessions, NEW d \in Drafts,
         CreateInternalNoteDraft(p, s, d)
  PROVE  CaseInv'
<1> DEFINE row == [status |-> "saved", session |-> s]
<1>1. d \in Ids \ Sessions /\ row \in RowOf(d) /\ row.status # "absent"
  BY TableIds, RowOfTable DEF DraftRow
<1>2. Begin(p, <<Save(d, row)>>)
  BY DEF CreateInternalNoteDraft
<1> HIDE DEF row
<1>3. <<Save(d, row)>> \in Seq(Saves) /\ Covers(<<Save(d, row)>>)
  BY <1>1, SinglePlan
<1> QED  BY <1>2, <1>3, BeginStep

LEMMA CaptureStep ==
  ASSUME CaseInv, NEW p \in Requests, NEW s \in Sessions, NEW o \in Observations,
         NEW sharing \in {"inactive", "active", "paused"}, Capture(p, s, o, sharing)
  PROVE  CaseInv'
<1> DEFINE row == [status |-> "review_required", session |-> s, sharing |-> sharing,
                   packet |-> Nothing]
<1>1. Exists(s) /\ o \in Ids \ Sessions /\ {o} \in SUBSET Ids
  BY TableIds DEF Capture
<1>2. row \in RowOf(o) /\ row.status # "absent"
  BY RowOfTable DEF ObservationRow
<1>3. ListsPresent(Listing(s, {o}), {o})
  BY <1>1, ListingPresent
<1>4. Begin(p, <<Save(o, row), Save(s, Listing(s, {o}))>>)
  BY DEF Capture
<1> HIDE DEF row
<1> DEFINE plan == <<Save(o, row), Save(s, Listing(s, {o}))>>
<1>5. plan \in Seq(Saves) /\ Covers(plan)
  BY <1>1, <1>2, <1>3, ListedPlan
<1> HIDE DEF plan
<1> QED  BY <1>4, <1>5, BeginStep DEF plan

\* Any of the four ways to capture an observation.
LEMMA CapturesStep ==
  ASSUME CaseInv, NEW p \in Requests, NEW s \in Sessions, NEW o \in Observations,
         \/ CaptureMockScreenObservation(p, s, o)
         \/ CaptureActiveWindowMockMetadata(p, s, o)
         \/ AttachManualScreenshotMetadata(p, s, o)
         \/ UploadStructuredScreenObservation(p, s, o)
  PROVE  CaseInv'
<1>1. Sharing(s) \in SharingRows /\ Sharing(s) \in Ids
  BY TableIds DEF SharingRows
<1>2. db[Sharing(s)].status \in {"inactive", "active", "paused"}
  <2>1. db[Sharing(s)] \in SharingRow
    BY <1>1, RowOfTable DEF CaseInv, RowsTyped
  <2> QED  BY <2>1 DEF SharingRow
<1>3. PICK sharing \in {"inactive", "active", "paused"} : Capture(p, s, o, sharing)
  BY <1>2 DEF CaptureMockScreenObservation, CaptureActiveWindowMockMetadata,
              AttachManualScreenshotMetadata, UploadStructuredScreenObservation
<1> QED  BY <1>3, CaptureStep

LEMMA ReviewStep ==
  ASSUME CaseInv, NEW p \in Requests, NEW s \in Sessions, NEW o \in Observations,
         NEW decision \in {"approved", "discarded"}, ReviewScreenObservation(p, s, o, decision)
  PROVE  CaseInv'
<1> DEFINE row == [db[o] EXCEPT !.status = decision]
<1>1. o \in Ids \ Sessions /\ db[o] \in ObservationRow /\ RowOf(o) = ObservationRow
  BY TableIds, RowOfTable DEF CaseInv, RowsTyped
<1>2. row \in RowOf(o) /\ row.status # "absent"
  BY <1>1 DEF ObservationRow
<1>3. Begin(p, <<Save(o, row)>>)
  BY DEF ReviewScreenObservation
<1> HIDE DEF row
<1>4. <<Save(o, row)>> \in Seq(Saves) /\ Covers(<<Save(o, row)>>)
  BY <1>1, <1>2, SinglePlan
<1> QED  BY <1>3, <1>4, BeginStep

LEMMA PacketFromObservationStep ==
  ASSUME CaseInv, NEW p \in Requests, NEW s \in Sessions, NEW o \in Observations, NEW k \in Packets,
         CreateContextPacketFromObservation(p, s, o, k)
  PROVE  CaseInv'
<1> DEFINE after == [db[o] EXCEPT !.packet = k]
<1>1. Exists(s) /\ k \in Ids \ Sessions /\ {k} \in SUBSET Ids
  BY TableIds DEF CreateContextPacketFromObservation
<1>2. NewPacket(s, o) \in RowOf(k) /\ NewPacket(s, o).status # "absent"
  BY RowOfTable DEF NewPacket, PacketRow
<1>3. ListsPresent(Listing(s, {k}), {k})
  BY <1>1, ListingPresent
<1>4. o \in Ids \ Sessions /\ db[o] \in ObservationRow /\ RowOf(o) = ObservationRow
      /\ db[o].status = "approved"
  BY TableIds, RowOfTable DEF CaseInv, RowsTyped, CreateContextPacketFromObservation
<1>5. after \in RowOf(o) /\ after.status # "absent"
  BY <1>4 DEF ObservationRow
<1>6. Begin(p, <<Save(k, NewPacket(s, o)), Save(s, Listing(s, {k})), Save(o, after)>>)
  BY DEF CreateContextPacketFromObservation, PacketFromObservationPlan
<1> HIDE DEF after
<1> DEFINE plan == <<Save(k, NewPacket(s, o)), Save(s, Listing(s, {k})), Save(o, after)>>
<1>7. plan \in Seq(Saves) /\ Covers(plan)
  BY <1>1, <1>2, <1>3, <1>4, <1>5, ListedThenPlan
<1> HIDE DEF plan
<1> QED  BY <1>6, <1>7, BeginStep DEF plan

LEMMA SharingStep ==
  ASSUME CaseInv, NEW p \in Requests, NEW s \in Sessions,
         NEW state \in {"inactive", "active", "paused"}, UpdateSharingState(p, s, state)
  PROVE  CaseInv'
<1> DEFINE row == [status |-> state]
<1>1. Sharing(s) \in SharingRows
  BY DEF SharingRows
<1>2. Sharing(s) \in Ids \ Sessions
  BY <1>1, TableIds
<1>3. row \in RowOf(Sharing(s)) /\ row.status # "absent"
  BY <1>1, RowOfTable DEF SharingRow
<1>4. Begin(p, <<Save(Sharing(s), row)>>)
  BY DEF UpdateSharingState
<1> HIDE DEF row
<1>5. <<Save(Sharing(s), row)>> \in Seq(Saves) /\ Covers(<<Save(Sharing(s), row)>>)
  BY <1>2, <1>3, SinglePlan
<1> QED  BY <1>4, <1>5, BeginStep

LEMMA SessionStep ==
  ASSUME CaseInv, NEW p \in Requests, SessionRequest(p)
  PROVE  CaseInv'
<1> PICK s \in Sessions :
    \/ CreateSession(p, s)
    \/ \E k \in Packets, t \in Tickets :
         LoadTicketContext(p, s, t, k) \/ LoadGlpiTicketContext(p, s, t, k)
    \/ \E k \in Packets : CreateContextPacket(p, s, k)
    \/ \E d \in Drafts : CreateInternalNoteDraft(p, s, d) \/ CreateSupportNoteDraft(p, s, d)
    \/ \E t \in Tickets : LinkTicketToSession(p, s, t) \/ UnlinkTicketFromSession(p, s, t)
    \/ \E o \in Observations :
         \/ CaptureMockScreenObservation(p, s, o)
         \/ CaptureActiveWindowMockMetadata(p, s, o)
         \/ AttachManualScreenshotMetadata(p, s, o)
         \/ UploadStructuredScreenObservation(p, s, o)
         \/ \E decision \in {"approved", "discarded"} : ReviewScreenObservation(p, s, o, decision)
         \/ \E k \in Packets : CreateContextPacketFromObservation(p, s, o, k)
    \/ \E state \in {"inactive", "active", "paused"} : UpdateSharingState(p, s, state)
  BY DEF SessionRequest
<1>1. CASE CreateSession(p, s)
  BY <1>1, CreateSessionStep
<1>2. ASSUME NEW k \in Packets, NEW t \in Tickets,
             LoadTicketContext(p, s, t, k) \/ LoadGlpiTicketContext(p, s, t, k)
      PROVE  CaseInv'
  BY <1>2, TicketPlanStep DEF LoadTicketContext, LoadGlpiTicketContext
<1>3. ASSUME NEW k \in Packets, CreateContextPacket(p, s, k) PROVE CaseInv'
  BY <1>3, CreateContextPacketStep
<1>4. ASSUME NEW d \in Drafts,
             CreateInternalNoteDraft(p, s, d) \/ CreateSupportNoteDraft(p, s, d)
      PROVE  CaseInv'
  BY <1>4, DraftStep DEF CreateSupportNoteDraft
<1>5. ASSUME NEW t \in Tickets, LinkTicketToSession(p, s, t) \/ UnlinkTicketFromSession(p, s, t)
      PROVE  CaseInv'
  BY <1>5, LinkStep
<1>6. ASSUME NEW o \in Observations,
             \/ CaptureMockScreenObservation(p, s, o)
             \/ CaptureActiveWindowMockMetadata(p, s, o)
             \/ AttachManualScreenshotMetadata(p, s, o)
             \/ UploadStructuredScreenObservation(p, s, o)
      PROVE  CaseInv'
  BY <1>6, CapturesStep
<1>7. ASSUME NEW o \in Observations, NEW decision \in {"approved", "discarded"},
             ReviewScreenObservation(p, s, o, decision)
      PROVE  CaseInv'
  BY <1>7, ReviewStep
<1>8. ASSUME NEW o \in Observations, NEW k \in Packets,
             CreateContextPacketFromObservation(p, s, o, k)
      PROVE  CaseInv'
  BY <1>8, PacketFromObservationStep
<1>9. ASSUME NEW state \in {"inactive", "active", "paused"}, UpdateSharingState(p, s, state)
      PROVE  CaseInv'
  BY <1>9, SharingStep
<1> QED  BY <1>1, <1>2, <1>3, <1>4, <1>5, <1>6, <1>7, <1>8, <1>9

-----------------------------------------------------------------------------
(* Requests on calls *)

CallStatuses == {"ringing", "answered", "on_hold", "missed", "ended"}

LEMMA NewCallTyped ==
  ASSUME NEW c \in Calls, NEW status \in CallStatuses
  PROVE  /\ c \in Ids \ Sessions
         /\ NewCall(status) \in RowOf(c) /\ NewCall(status).status # "absent"
         /\ \A s \in Sessions :
              Linked(NewCall(status), s) \in RowOf(c) /\ Linked(NewCall(status), s).status # "absent"
<1>1. c \in Ids \ Sessions /\ RowOf(c) = CallRow
  BY TableIds, RowOfTable
<1>2. NewCall(status) \in CallRow /\ NewCall(status).status # "absent"
  BY DEF NewCall, CallRow, CallStatuses
<1>3. ASSUME NEW s \in Sessions
      PROVE  Linked(NewCall(status), s) \in CallRow /\ Linked(NewCall(status), s).status # "absent"
  BY <1>2 DEF Linked, CallRow
<1> QED  BY <1>1, <1>2, <1>3

LEMMA NewCallStep ==
  ASSUME CaseInv, NEW p \in Requests, NEW c \in Calls, NEW status \in CallStatuses,
         Begin(p, <<Save(c, NewCall(status))>>)
  PROVE  CaseInv'
<1>1. <<Save(c, NewCall(status))>> \in Seq(Saves) /\ Covers(<<Save(c, NewCall(status))>>)
  BY NewCallTyped, SinglePlan
<1> QED  BY <1>1, BeginStep

LEMMA AutoCreateStep ==
  ASSUME CaseInv, NEW p \in Requests, NEW c \in Calls, NEW s \in Sessions,
         NEW tickets \in SUBSET Tickets, Begin(p, AutoCreatePlan(c, s, tickets))
  PROVE  CaseInv'
<1> DEFINE new == NewCall("ringing")
           row == [status |-> "open", listed |-> {c} \cup tickets]
           after == Linked(NewCall("ringing"), s)
<1>1. /\ c \in Ids \ Sessions
      /\ new \in RowOf(c) /\ new.status # "absent"
      /\ after \in RowOf(c) /\ after.status # "absent"
  BY NewCallTyped DEF CallStatuses
<1>2. {c} \cup tickets \subseteq Ids
  BY TableIds
<1>3. ListsPresent(row, {c})
  BY <1>2 DEF ListsPresent, SessionRow
<1>4. Begin(p, <<Save(c, new), Save(s, row), Save(c, after)>>)
  BY DEF AutoCreatePlan
<1> HIDE DEF new, row, after
<1> DEFINE plan == <<Save(c, new), Save(s, row), Save(c, after)>>
<1>5. plan \in Seq(Saves) /\ Covers(plan)
  BY <1>1, <1>3, ListedThenPlan
<1> HIDE DEF plan
<1> QED  BY <1>4, <1>5, BeginStep DEF plan

\* A call that exists.
LEMMA CallPresent ==
  ASSUME CaseInv, NEW c \in Calls
  PROVE  c \in Ids \ Sessions /\ RowOf(c) = CallRow /\ db[c] \in CallRow
BY TableIds, RowOfTable DEF CaseInv, RowsTyped

LEMMA LinkCallStep ==
  ASSUME CaseInv, NEW p \in Requests, NEW c \in Calls, NEW s \in Sessions,
         LinkCallToSession(p, c, s)
  PROVE  CaseInv'
<1> DEFINE row == Linked(db[c], s)
<1>1. c \in Ids \ Sessions /\ RowOf(c) = CallRow /\ db[c] \in CallRow
  BY CallPresent
<1>2. row \in RowOf(c) /\ row.status # "absent"
  BY <1>1 DEF Linked, CallRow
<1>3. Exists(s) /\ {c} \in SUBSET Ids
  BY <1>1 DEF LinkCallToSession
<1>4. ListsPresent(Listing(s, {c}), {c})
  BY <1>3, ListingPresent
<1>5. Begin(p, <<Save(c, row), Save(s, Listing(s, {c}))>>)
  BY DEF LinkCallToSession
<1> HIDE DEF row
<1> DEFINE plan == <<Save(c, row), Save(s, Listing(s, {c}))>>
<1>6. plan \in Seq(Saves) /\ Covers(plan)
  BY <1>1, <1>2, <1>4, ListedPlan
<1> HIDE DEF plan
<1> QED  BY <1>5, <1>6, BeginStep DEF plan

LEMMA CallStatusStep ==
  ASSUME CaseInv, NEW p \in Requests, NEW c \in Calls, NEW status \in CallStatuses,
         UpdateCallStatus(p, c, status)
  PROVE  CaseInv'
<1> DEFINE row == [db[c] EXCEPT !.status = status, !.ended = @ \/ status \in {"ended", "missed"}]
<1>1. c \in Ids \ Sessions /\ RowOf(c) = CallRow /\ db[c] \in CallRow
  BY CallPresent
<1>2. (db[c].ended \/ status \in {"ended", "missed"}) \in BOOLEAN
  OBVIOUS
<1>3. row \in RowOf(c) /\ row.status # "absent"
  BY <1>1, <1>2 DEF CallRow, CallStatuses
<1>4. Begin(p, <<Save(c, row)>>)
  BY DEF UpdateCallStatus
<1> HIDE DEF row
<1>5. <<Save(c, row)>> \in Seq(Saves) /\ Covers(<<Save(c, row)>>)
  BY <1>1, <1>3, SinglePlan
<1> QED  BY <1>4, <1>5, BeginStep

LEMMA CallTicketStep ==
  ASSUME CaseInv, NEW p \in Requests, NEW c \in Calls, NEW t \in Tickets,
         LinkTicketToCall(p, c, t) \/ UnlinkTicketFromCall(p, c, t)
  PROVE  CaseInv'
<1>1. c \in Ids \ Sessions /\ RowOf(c) = CallRow /\ db[c] \in CallRow /\ db[c].status # "absent"
  BY CallPresent DEF LinkTicketToCall, UnlinkTicketFromCall, Exists
<1>2. Listing(c, {t}) \in RowOf(c) /\ Listing(c, {t}).status # "absent"
  BY <1>1 DEF Listing, CallRow
<1>3. /\ [db[c] EXCEPT !.listed = @ \ {t}] \in RowOf(c)
      /\ [db[c] EXCEPT !.listed = @ \ {t}].status # "absent"
  BY <1>1 DEF CallRow
<1>4. PICK row \in RowOf(c) : row.status # "absent" /\ Begin(p, <<Save(c, row)>>)
  BY <1>2, <1>3 DEF LinkTicketToCall, UnlinkTicketFromCall
<1>5. <<Save(c, row)>> \in Seq(Saves) /\ Covers(<<Save(c, row)>>)
  BY <1>1, <1>4, SinglePlan
<1> QED  BY <1>4, <1>5, BeginStep

LEMMA RecordingStep ==
  ASSUME CaseInv, NEW p \in Requests, NEW c \in Calls, NEW r \in Recordings,
         AttachMockRecording(p, c, r) \/ ReviewCallRecording(p, c, r)
  PROVE  CaseInv'
<1>1. r \in Ids \ Sessions /\ RowOf(r) = RecordingRow /\ db[r] \in RecordingRow
  BY TableIds, RowOfTable DEF CaseInv, RowsTyped
<1>2. db[c].session \in Sessions \cup {Nothing}
  BY CallPresent DEF CallRow
<1>3. /\ [status |-> "available", call |-> c, session |-> db[c].session] \in RowOf(r)
      /\ [db[r] EXCEPT !.status = "mock_only"] \in RowOf(r)
      /\ [db[r] EXCEPT !.status = "mock_only"].status = "mock_only"
  BY <1>1, <1>2 DEF RecordingRow
<1>4. PICK row \in RowOf(r) : row.status # "absent" /\ Begin(p, <<Save(r, row)>>)
  BY <1>3 DEF AttachMockRecording, ReviewCallRecording
<1>5. <<Save(r, row)>> \in Seq(Saves) /\ Covers(<<Save(r, row)>>)
  BY <1>1, <1>4, SinglePlan
<1> QED  BY <1>4, <1>5, BeginStep

LEMMA CallStep ==
  ASSUME CaseInv, NEW p \in Requests, CallRequest(p)
  PROVE  CaseInv'
<1> PICK c \in Calls :
    \/ CreateFakeIncomingCall(p, c)
    \/ CreateFromAsteriskAmiEvent(p, c)
    \/ \E event \in DOMAIN StatusFromWebhook : CreateFromTelephonyWebhook(p, c, event)
    \/ \E s \in Sessions : LinkCallToSession(p, c, s)
    \/ \E status \in {"answered", "on_hold", "missed", "ended"} : UpdateCallStatus(p, c, status)
    \/ \E intent \in DOMAIN StatusForAction : ControlCall(p, c, intent)
    \/ \E t \in Tickets : LinkTicketToCall(p, c, t) \/ UnlinkTicketFromCall(p, c, t)
    \/ \E r \in Recordings : AttachMockRecording(p, c, r) \/ ReviewCallRecording(p, c, r)
  BY DEF CallRequest
<1>1. CASE CreateFakeIncomingCall(p, c) \/ CreateFromAsteriskAmiEvent(p, c)
  <2>1. \/ Begin(p, <<Save(c, NewCall("ringing"))>>)
        \/ \E s \in Sessions, tickets \in SUBSET Tickets : Begin(p, AutoCreatePlan(c, s, tickets))
    BY <1>1 DEF CreateFakeIncomingCall, CreateFromAsteriskAmiEvent
  <2> QED  BY <2>1, NewCallStep, AutoCreateStep DEF CallStatuses
<1>2. ASSUME NEW event \in DOMAIN StatusFromWebhook, CreateFromTelephonyWebhook(p, c, event)
      PROVE  CaseInv'
  <2>1. StatusFromWebhook[event] \in CallStatuses
    BY DEF StatusFromWebhook, CallStatuses
  <2> QED  BY <1>2, <2>1, NewCallStep DEF CreateFromTelephonyWebhook
<1>3. ASSUME NEW s \in Sessions, LinkCallToSession(p, c, s) PROVE CaseInv'
  BY <1>3, LinkCallStep
<1>4. ASSUME NEW status \in {"answered", "on_hold", "missed", "ended"},
             UpdateCallStatus(p, c, status)
      PROVE  CaseInv'
  BY <1>4, CallStatusStep DEF CallStatuses
<1>5. ASSUME NEW intent \in DOMAIN StatusForAction, ControlCall(p, c, intent) PROVE CaseInv'
  <2>1. StatusForAction[intent] \in CallStatuses
    BY DEF StatusForAction, CallStatuses
  <2> QED  BY <1>5, <2>1, CallStatusStep DEF ControlCall
<1>6. ASSUME NEW t \in Tickets, LinkTicketToCall(p, c, t) \/ UnlinkTicketFromCall(p, c, t)
      PROVE  CaseInv'
  BY <1>6, CallTicketStep
<1>7. ASSUME NEW r \in Recordings, AttachMockRecording(p, c, r) \/ ReviewCallRecording(p, c, r)
      PROVE  CaseInv'
  BY <1>7, RecordingStep
<1> QED  BY <1>1, <1>2, <1>3, <1>4, <1>5, <1>6, <1>7

-----------------------------------------------------------------------------
(* Theorems *)

LEMMA StepInv == CaseInv /\ [Next]_vars => CaseInv'
<1> SUFFICES ASSUME CaseInv, [Next]_vars PROVE CaseInv'
  OBVIOUS
<1>1. CASE UNCHANGED vars
  BY <1>1 DEF vars, CaseInv, RowsTyped, ListedRowsExist, Covers, Exists
<1>2. CASE Next
  <2> PICK p \in Requests : SessionRequest(p) \/ CallRequest(p) \/ Commit(p) \/ Abort(p)
    BY <1>2 DEF Next
  <2> QED  BY SessionStep, CallStep, CommitStep, AbortStep
<1> QED  BY <1>1, <1>2

\* Rows are written by saves that reach the database, by nothing else.
LEMMA OnlyCommitsWrite ==
  ASSUME Next
  PROVE  db' = db \/ \E p \in Requests : Commit(p)
<1> PICK p \in Requests : SessionRequest(p) \/ CallRequest(p) \/ Commit(p) \/ Abort(p)
  BY DEF Next
<1>1. CASE ~Commit(p)
  BY <1>1 DEF SessionRequest, CallRequest, CreateSession, LoadTicketContext,
     LoadGlpiTicketContext, CreateContextPacket, CreateInternalNoteDraft,
     CreateSupportNoteDraft, LinkTicketToSession, UnlinkTicketFromSession,
     CaptureMockScreenObservation, CaptureActiveWindowMockMetadata,
     AttachManualScreenshotMetadata, UploadStructuredScreenObservation, Capture,
     ReviewScreenObservation, CreateContextPacketFromObservation, UpdateSharingState,
     CreateFakeIncomingCall, CreateFromAsteriskAmiEvent, CreateFromTelephonyWebhook,
     LinkCallToSession, UpdateCallStatus, ControlCall, LinkTicketToCall,
     UnlinkTicketFromCall, AttachMockRecording, ReviewCallRecording, Begin, Abort
<1> QED  BY <1>1

LEMMA Invariance == Spec => []CaseInv
<1> QED  BY InitInv, StepInv, PTL DEF Spec

\* Rows, and the rows requests are about to write, keep their types through
\* every operation on calls and sessions.
THEOREM CaseTypes == Spec => []TypeOK
<1> QED  BY Invariance, InvTypes, PTL

\* A session lists only what the database holds, with any number of requests
\* overlapping and stopping anywhere.
THEOREM ListsAreSound == Spec => []ListedRowsExist
<1>1. CaseInv => ListedRowsExist
  BY DEF CaseInv
<1> QED  BY <1>1, Invariance, PTL

\* A linked call stays linked: a request that read the row before the link
\* and writes it back afterwards leaves the column alone.
THEOREM LinksStay == Spec => LinkStays
<1> DEFINE A == \A c \in Calls : db[c].session # Nothing => db'[c].session # Nothing
<1>1. CaseInv /\ [Next]_vars => [A]_vars
  <2> SUFFICES ASSUME CaseInv, Next, NEW c \in Calls, db[c].session # Nothing
               PROVE  db'[c].session # Nothing
    OBVIOUS
  <2>1. CASE db' = db
    BY <2>1
  <2>2. ASSUME NEW p \in Requests, Commit(p) PROVE db'[c].session # Nothing
    <3> DEFINE id == Head(todo[p]).id
               row == Head(todo[p]).row
    <3>1. db' = [db EXCEPT ![id] = Stored(id, db[id], row)]
      BY <2>2 DEF Commit
    <3>2. CASE c # id
      BY <3>1, <3>2, CallPresent DEF CaseInv, RowsTyped
    <3>3. CASE c = id
      <4>1. Head(todo[p]) \in Saves
        BY <2>2 DEF CaseInv, Commit
      <4>2. row \in CallRow /\ db[c] \in CallRow /\ c \in Ids
        BY <3>3, <4>1, SaveParts, CallPresent
      <4> HIDE DEF id, row
      <4>3. Stored(c, db[c], row).session # Nothing
        BY <4>2 DEF Stored, CallRow
      <4>4. db'[c] = Stored(c, db[c], row)
        BY <3>1, <3>3, <4>2 DEF CaseInv, RowsTyped
      <4> QED  BY <4>3, <4>4
    <3> QED  BY <3>2, <3>3
  <2> QED  BY <2>1, <2>2, OnlyCommitsWrite
<1> HIDE DEF A
<1>2. Spec => [][A]_vars
  BY <1>1, Invariance, PTL DEF Spec
<1> QED  BY <1>2 DEF A, LinkStays

-----------------------------------------------------------------------------
(* What the saves of a plan rely on *)

\* The row of a call that is being linked.
Linking(row) == row.status = "answered" /\ row.session # Nothing

\* A status that may follow the one the row has now.
Moves(old, row) ==
  old = "absent" \/ row.status = old \/ <<old, row.status>> \in AllowedTransitions

\* A save of a call links it, or is the first of its plan and fits the status
\* that the call has now, unless the call was overtaken.
StatusPlan(plan) ==
  \A i \in DOMAIN plan : plan[i].id \in Calls =>
    \/ Linking(plan[i].row)
    \/ i = 1 /\ (plan[i].id \in clean => Moves(db[plan[i].id].status, plan[i].row))

\* A packet made of an observation is saved first, the observation later.
PacketPlan(plan) ==
  \A i \in DOMAIN plan : (plan[i].id \in Packets /\ plan[i].row.from # Nothing) =>
    /\ i = 1 /\ plan[i].row.from \in Written(plan)
    /\ plan[i].row.from \in clean => db[plan[i].row.from].status = "approved"

\* A save of a session drops no call from its list.
KeepsPlan(plan) ==
  \A i \in DOMAIN plan : plan[i].id \in Sessions =>
    /\ plan[i].id \in clean => db[plan[i].id].listed \cap Calls \subseteq plan[i].row.listed
    /\ \A j \in DOMAIN plan :
         (i < j /\ plan[j].id = plan[i].id)
           => plan[i].row.listed \cap Calls \subseteq plan[j].row.listed

\* The plan has a save of the session s that lists the call c.
Lists(plan, c, s) == \E j \in DOMAIN plan : plan[j].id = s /\ c \in plan[j].row.listed

\* A save that links a call to a session: the plan makes the session list the
\* call, or it does already, or the call is linked to it already.
LinkPlan(plan) ==
  \A i \in DOMAIN plan : \A s \in Sessions :
    (plan[i].id \in Calls /\ plan[i].row.session = s /\ {plan[i].id, s} \subseteq clean) =>
      \/ Lists(plan, plan[i].id, s)
      \/ plan[i].id \in db[s].listed
      \/ i = 1 /\ db[plan[i].id].session = s

Ordered(plan) == StatusPlan(plan) /\ PacketPlan(plan) /\ KeepsPlan(plan) /\ LinkPlan(plan)

\* The session of a linked call lists it, or a save that makes it do so is planned.
LinkedOrPlanned ==
  \A c \in Calls : \A s \in Sessions :
    (db[c].session = s /\ {c, s} \subseteq clean)
      => c \in db[s].listed \/ \E p \in Requests : Lists(todo[p], c, s)

OrderInv ==
  /\ \A s \in Sessions : ~Exists(s) => db[s].listed = {}
  /\ LinkedOrPlanned
  /\ \A p \in Requests : Ordered(todo[p])


LEMMA InitOrder == Init => OrderInv
<1> SUFFICES ASSUME Init PROVE OrderInv
  OBVIOUS
<1>1. \A id \in Ids : db[id] = Blank(id)
  BY DEF Init
<1>2. \A s \in Sessions : db[s].listed = {}
  BY <1>1, RowOfTable, TableIds
<1>3. \A c \in Calls : db[c].session = Nothing /\ Nothing \notin Sessions
  BY <1>1, RowOfTable, TableIds
<1>4. \A p \in Requests : Ordered(todo[p])
  BY DEF Init, Ordered, StatusPlan, PacketPlan, KeepsPlan, LinkPlan
<1> QED  BY <1>2, <1>3, <1>4 DEF OrderInv, LinkedOrPlanned

\* A request that begins with an ordered plan.
LEMMA BeginOrder ==
  ASSUME CaseInv, OrderInv, NEW p \in Requests, NEW plan, Ordered(plan), Begin(p, plan)
  PROVE  OrderInv'
<1>1. /\ db' = db /\ clean' = clean /\ todo[p] = <<>>
      /\ \A q \in Requests : todo'[q] = IF q = p THEN plan ELSE todo[q]
  BY DEF Begin, CaseInv
<1>2. (\A s \in Sessions : ~Exists(s) => db[s].listed = {})'
  BY <1>1 DEF OrderInv, Exists
<1>3. \A q \in Requests : Ordered(todo[q])'
  BY <1>1 DEF OrderInv, Ordered, StatusPlan, PacketPlan, KeepsPlan, LinkPlan, Lists, Written
<1>4. LinkedOrPlanned'
  <2> SUFFICES ASSUME NEW c \in Calls, NEW s \in Sessions, db[c].session = s, {c, s} \subseteq clean,
                      c \notin db[s].listed
               PROVE  \E q \in Requests : Lists(todo'[q], c, s)
    BY <1>1 DEF LinkedOrPlanned, Lists
  <2>1. PICK q \in Requests : Lists(todo[q], c, s)
    BY DEF OrderInv, LinkedOrPlanned
  <2>2. q # p
    BY <1>1, <2>1 DEF Lists
  <2> QED  BY <1>1, <2>1, <2>2
<1> QED  BY <1>2, <1>3, <1>4 DEF OrderInv

\* A request that stops touches every row it was going to write.
LEMMA AbortOrder ==
  ASSUME CaseInv, OrderInv, NEW p \in Requests, Abort(p)
  PROVE  OrderInv'
<1>1. /\ db' = db /\ clean' = clean \ Written(todo[p])
      /\ \A q \in Requests : todo'[q] = IF q = p THEN <<>> ELSE todo[q]
  BY DEF Abort, CaseInv
<1>2. (\A s \in Sessions : ~Exists(s) => db[s].listed = {})'
  BY <1>1 DEF OrderInv, Exists
<1>3. ASSUME NEW q \in Requests PROVE Ordered(todo[q])'
  <2>1. CASE q = p
    BY <1>1, <2>1 DEF Ordered, StatusPlan, PacketPlan, KeepsPlan, LinkPlan
  <2>2. CASE q # p
    <3>1. Ordered(todo[q]) /\ todo'[q] = todo[q] /\ clean' \subseteq clean
      BY <1>1, <2>2 DEF OrderInv
    <3>2. StatusPlan(todo[q])' /\ PacketPlan(todo[q])'
      BY <1>1, <3>1 DEF Ordered, StatusPlan, PacketPlan, Written
    <3>3. KeepsPlan(todo[q])'
      BY <1>1, <3>1 DEF Ordered, KeepsPlan
    <3>4. LinkPlan(todo[q])'
      BY <1>1, <3>1 DEF Ordered, LinkPlan, Lists
    <3> QED  BY <3>2, <3>3, <3>4 DEF Ordered
  <2> QED  BY <2>1, <2>2
<1>4. LinkedOrPlanned'
  <2> SUFFICES ASSUME NEW c \in Calls, NEW s \in Sessions, db[c].session = s, {c, s} \subseteq clean',
                      c \notin db[s].listed
               PROVE  \E q \in Requests : Lists(todo'[q], c, s)
    BY <1>1 DEF LinkedOrPlanned, Lists
  <2>1. PICK q \in Requests : Lists(todo[q], c, s)
    BY <1>1 DEF OrderInv, LinkedOrPlanned
  <2>2. q # p
    BY <1>1, <2>1 DEF Lists, Written
  <2> QED  BY <1>1, <2>1, <2>2
<1> QED  BY <1>2, <1>3, <1>4 DEF OrderInv

-----------------------------------------------------------------------------
(* A save reaches the database *)

\* What the next save of a request does, in the terms the steps below use.
LEMMA CommitFacts ==
  ASSUME CaseInv, NEW p \in Requests, Commit(p)
  PROVE  \E id, row :
    /\ id \in Ids
    /\ row \in RowOf(id) /\ row.status # "absent"
    /\ todo[p] # <<>> /\ 1 \in DOMAIN todo[p] /\ todo[p][1].id = id /\ todo[p][1].row = row
    /\ \A x \in Ids : db'[x] = IF x = id THEN Stored(id, db[id], row) ELSE db[x]
    /\ \A q \in Requests : q # p => todo'[q] = todo[q]
    /\ \A i \in DOMAIN todo'[p] :
         i \in Nat \ {0} /\ i + 1 \in DOMAIN todo[p] /\ todo'[p][i] = todo[p][i + 1]
    /\ \A i \in DOMAIN todo[p] : i \in Nat \ {0} /\ (i # 1 => i - 1 \in DOMAIN todo'[p])
    /\ clean' \subseteq clean
    /\ \A q \in Requests \ {p} : \A i \in DOMAIN todo[q] : todo[q][i].id = id => id \notin clean'
<1> DEFINE a == Head(todo[p])
<1>1. todo[p] \in Seq(Saves) /\ todo[p] # <<>> /\ a = todo[p][1] /\ 1 \in DOMAIN todo[p]
  BY DEF CaseInv, Commit
<1>2. a \in Saves /\ a.id \in Ids /\ a.row \in RowOf(a.id)
  BY <1>1, SaveParts
<1>3. a.row.status # "absent"
  BY <1>1 DEF CaseInv, Covers
<1>4. /\ db' = [db EXCEPT ![a.id] = Stored(a.id, @, a.row)]
      /\ todo' = [todo EXCEPT ![p] = Tail(@)]
  BY DEF Commit
<1>5. /\ clean' \subseteq clean
      /\ (\E q \in Requests \ {p} : a.id \in Written(todo[q])) => clean' = clean \ {a.id}
  BY DEF Commit
<1> DEFINE t == Tail(todo[p])
<1>6. /\ DOMAIN t = 1 .. Len(todo[p]) - 1
      /\ DOMAIN todo[p] = 1 .. Len(todo[p])
      /\ Len(todo[p]) \in Nat
      /\ \A i \in DOMAIN t : t[i] = todo[p][i + 1]
  BY <1>1
<1>7. todo'[p] = t /\ \A q \in Requests : q # p => todo'[q] = todo[q]
  BY <1>4 DEF CaseInv
<1>8. \A x \in Ids : db'[x] = IF x = a.id THEN Stored(a.id, db[a.id], a.row) ELSE db[x]
  BY <1>4 DEF CaseInv, RowsTyped
<1> HIDE DEF t, a
<1>9. /\ \A i \in DOMAIN t : i \in Nat \ {0} /\ i + 1 \in DOMAIN todo[p] /\ t[i] = todo[p][i + 1]
      /\ \A i \in DOMAIN todo[p] : i \in Nat \ {0} /\ (i # 1 => i - 1 \in DOMAIN t)
  BY <1>6
<1>10. \A q \in Requests \ {p} : \A i \in DOMAIN todo[q] : todo[q][i].id = a.id => a.id \notin clean'
  BY <1>5 DEF Written
<1> QED  BY <1>1, <1>2, <1>3, <1>5, <1>7, <1>8, <1>9, <1>10

\* The parts of a planned save have their types.
LEMMA PlannedTyped ==
  ASSUME CaseInv, NEW p \in Requests, NEW i \in DOMAIN todo[p]
  PROVE  /\ todo[p][i].id \in Ids
         /\ todo[p][i].row \in RowOf(todo[p][i].id)
         /\ todo[p][i].id \in Packets => todo[p][i].row.from \in Observations \cup {Nothing}
<1>1. todo[p][i] \in Saves
  BY DEF CaseInv
<1>2. todo[p][i].id \in Ids /\ todo[p][i].row \in RowOf(todo[p][i].id)
  BY <1>1, SaveParts
<1>3. ASSUME todo[p][i].id \in Packets PROVE todo[p][i].row \in PacketRow
  BY <1>2, <1>3, RowOfTable
<1> QED  BY <1>2, <1>3 DEF PacketRow

\* A call keeps its link when the row that is written has none.
LEMMA StoredCall ==
  ASSUME NEW c \in Calls, NEW old \in CallRow, NEW row \in CallRow
  PROVE  /\ Stored(c, old, row).status = row.status
         /\ row.session # Nothing => Stored(c, old, row).session = row.session
         /\ row.session = Nothing => Stored(c, old, row).session = old.session
BY DEF Stored, CallRow

\* A save of p and the saves another request has planned: what it overtakes
\* is not clean any more.
LEMMA OthersOrdered ==
  ASSUME CaseInv, OrderInv, NEW p \in Requests, Commit(p), NEW q \in Requests, q # p
  PROVE  Ordered(todo[q])'
<1> PICK id, row :
    /\ id \in Ids
    /\ row \in RowOf(id) /\ row.status # "absent"
    /\ todo[p] # <<>> /\ 1 \in DOMAIN todo[p] /\ todo[p][1].id = id /\ todo[p][1].row = row
    /\ \A x \in Ids : db'[x] = IF x = id THEN Stored(id, db[id], row) ELSE db[x]
    /\ \A r \in Requests : r # p => todo'[r] = todo[r]
    /\ clean' \subseteq clean
    /\ \A r \in Requests \ {p} : \A i \in DOMAIN todo[r] : todo[r][i].id = id => id \notin clean'
  BY CommitFacts
<1>1. todo'[q] = todo[q] /\ Ordered(todo[q])
  BY DEF OrderInv
<1>2. \A i \in DOMAIN todo[q] : todo[q][i].id \in clean' => db'[todo[q][i].id] = db[todo[q][i].id]
  BY PlannedTyped
<1>3. StatusPlan(todo[q])'
  BY <1>1, <1>2 DEF Ordered, StatusPlan
<1>4. PacketPlan(todo[q])'
  <2> SUFFICES ASSUME NEW i \in DOMAIN todo[q], todo[q][i].id \in Packets,
                      todo[q][i].row.from # Nothing
               PROVE  /\ i = 1 /\ todo[q][i].row.from \in Written(todo[q])
                      /\ todo[q][i].row.from \in clean' => db'[todo[q][i].row.from].status = "approved"
    BY <1>1 DEF PacketPlan, Written
  <2> DEFINE o == todo[q][i].row.from
  <2>1. /\ i = 1 /\ o \in Written(todo[q])
        /\ o \in clean => db[o].status = "approved"
    BY <1>1 DEF Ordered, PacketPlan
  <2>2. o \in clean' => db'[o] = db[o]
    BY <1>2, <2>1 DEF Written
  <2> QED  BY <2>1, <2>2
<1>5. KeepsPlan(todo[q])'
  BY <1>1, <1>2 DEF Ordered, KeepsPlan
<1>6. LinkPlan(todo[q])'
  <2> SUFFICES ASSUME NEW i \in DOMAIN todo[q], NEW s \in Sessions, todo[q][i].id \in Calls,
                      todo[q][i].row.session = s, {todo[q][i].id, s} \subseteq clean'
               PROVE  \/ Lists(todo[q], todo[q][i].id, s)
                      \/ todo[q][i].id \in db'[s].listed
                      \/ i = 1 /\ db'[todo[q][i].id].session = s
    BY <1>1 DEF LinkPlan, Lists
  <2> DEFINE c == todo[q][i].id
  <2>1. \/ Lists(todo[q], c, s)
        \/ c \in db[s].listed
        \/ i = 1 /\ db[c].session = s
    BY <1>1 DEF Ordered, LinkPlan
  <2>2. c \in db[s].listed => c \in db'[s].listed
    <3>1. CASE s = id
      <4>1. db[s].listed \cap Calls \subseteq row.listed
        BY <3>1 DEF OrderInv, Ordered, KeepsPlan
      <4>2. s \in Ids /\ db[s] \in RowOf(s)
        BY TableIds DEF CaseInv, RowsTyped
      <4>3. db'[s] = row
        BY <3>1, <4>2, StoredTyped
      <4> QED  BY <4>1, <4>3
    <3>2. CASE s # id
      BY <3>2, TableIds
    <3> QED  BY <3>1, <3>2
  <2> QED  BY <1>2, <2>1, <2>2
<1> QED  BY <1>3, <1>4, <1>5, <1>6 DEF Ordered

\* The saves left of a plan whose first one has reached the database.
LEMMA RestOrdered ==
  ASSUME CaseInv, OrderInv, NEW p \in Requests, Commit(p)
  PROVE  Ordered(todo[p])'
<1> PICK id, row :
    /\ id \in Ids
    /\ row \in RowOf(id) /\ row.status # "absent"
    /\ todo[p] # <<>> /\ 1 \in DOMAIN todo[p] /\ todo[p][1].id = id /\ todo[p][1].row = row
    /\ \A x \in Ids : db'[x] = IF x = id THEN Stored(id, db[id], row) ELSE db[x]
    /\ \A i \in DOMAIN todo'[p] :
         i \in Nat \ {0} /\ i + 1 \in DOMAIN todo[p] /\ todo'[p][i] = todo[p][i + 1]
    /\ \A i \in DOMAIN todo[p] : i \in Nat \ {0} /\ (i # 1 => i - 1 \in DOMAIN todo'[p])
    /\ clean' \subseteq clean
  BY CommitFacts
<1> DEFINE plan == todo[p]
           rest == todo'[p]
<1>1. Ordered(plan)
  BY DEF OrderInv
<1>2. \A i \in DOMAIN rest : i + 1 # 1 /\ i + 1 \in DOMAIN plan /\ rest[i] = plan[i + 1]
  OBVIOUS
<1>3. StatusPlan(todo[p])'
  BY <1>1, <1>2 DEF Ordered, StatusPlan
<1>4. PacketPlan(todo[p])'
  BY <1>1, <1>2 DEF Ordered, PacketPlan
<1>5. KeepsPlan(todo[p])'
  <2> SUFFICES ASSUME NEW i \in DOMAIN rest, rest[i].id \in Sessions
               PROVE  /\ rest[i].id \in clean' => db'[rest[i].id].listed \cap Calls \subseteq rest[i].row.listed
                      /\ \A j \in DOMAIN rest :
                           (i < j /\ rest[j].id = rest[i].id)
                             => rest[i].row.listed \cap Calls \subseteq rest[j].row.listed
    BY DEF KeepsPlan
  <2> DEFINE s == rest[i].id
  <2>1. i + 1 \in DOMAIN plan /\ 1 < i + 1 /\ rest[i] = plan[i + 1] /\ KeepsPlan(plan)
    BY <1>1, <1>2 DEF Ordered
  <2>2. s \in Ids /\ db[s] \in RowOf(s)
    BY TableIds DEF CaseInv, RowsTyped
  <2>3. ASSUME s = id PROVE db'[s].listed \cap Calls \subseteq rest[i].row.listed
    <3>1. db'[s] = row
      BY <2>2, <2>3, StoredTyped
    <3> QED  BY <2>1, <2>3, <3>1 DEF KeepsPlan
  <2>4. ASSUME s # id, s \in clean' PROVE db'[s].listed \cap Calls \subseteq rest[i].row.listed
    <3>1. db'[s] = db[s]
      BY <2>2, <2>4
    <3> QED  BY <2>1, <2>4, <3>1 DEF KeepsPlan
  <2>5. ASSUME NEW j \in DOMAIN rest, i < j, rest[j].id = s
        PROVE  rest[i].row.listed \cap Calls \subseteq rest[j].row.listed
    <3>1. i + 1 < j + 1 /\ j + 1 \in DOMAIN plan /\ rest[j] = plan[j + 1]
      BY <1>2, <2>5
    <3> QED  BY <2>1, <2>5, <3>1 DEF KeepsPlan
  <2> QED  BY <2>3, <2>4, <2>5
<1>6. LinkPlan(todo[p])'
  <2> SUFFICES ASSUME NEW i \in DOMAIN rest, NEW s \in Sessions, rest[i].id \in Calls,
                      rest[i].row.session = s, {rest[i].id, s} \subseteq clean'
               PROVE  Lists(rest, rest[i].id, s) \/ rest[i].id \in db'[s].listed
    BY DEF LinkPlan, Lists
  <2> DEFINE c == rest[i].id
  <2>1. i + 1 \in DOMAIN plan /\ i + 1 # 1 /\ rest[i] = plan[i + 1]
    BY <1>2
  <2>2. Lists(plan, c, s) \/ c \in db[s].listed
    BY <1>1, <2>1 DEF Ordered, LinkPlan
  <2>3. s \in Ids /\ db[s] \in RowOf(s)
    BY TableIds DEF CaseInv, RowsTyped
  <2>4. CASE c \in db[s].listed
    <3>1. CASE s = id
      <4>1. db[s].listed \cap Calls \subseteq row.listed
        BY <1>1, <3>1 DEF Ordered, KeepsPlan
      <4>2. db'[s] = row
        BY <2>3, <3>1, StoredTyped
      <4> QED  BY <2>4, <4>1, <4>2
    <3>2. CASE s # id
      BY <2>3, <2>4, <3>2
    <3> QED  BY <3>1, <3>2
  <2>5. ASSUME NEW j \in DOMAIN plan, plan[j].id = s, c \in plan[j].row.listed
        PROVE  Lists(rest, c, s) \/ c \in db'[s].listed
    <3>1. CASE j = 1
      <4>1. db'[s] = row
        BY <2>3, <2>5, <3>1, StoredTyped
      <4> QED  BY <2>5, <3>1, <4>1
    <3>2. CASE j # 1
      <4>1. j - 1 \in DOMAIN rest /\ (j - 1) + 1 = j
        BY <3>2
      <4>2. rest[j - 1] = plan[j]
        BY <4>1
      <4> QED  BY <2>5, <4>1, <4>2 DEF Lists
    <3> QED  BY <3>1, <3>2
  <2> QED  BY <2>2, <2>4, <2>5 DEF Lists
<1> QED  BY <1>3, <1>4, <1>5, <1>6 DEF Ordered

\* A link that is saved, before or after the session that lists the call.
LEMMA CommitLinked ==
  ASSUME CaseInv, OrderInv, NEW p \in Requests, Commit(p)
  PROVE  LinkedOrPlanned'
<1> PICK id, row :
    /\ id \in Ids
    /\ row \in RowOf(id) /\ row.status # "absent"
    /\ todo[p] # <<>> /\ 1 \in DOMAIN todo[p] /\ todo[p][1].id = id /\ todo[p][1].row = row
    /\ \A x \in Ids : db'[x] = IF x = id THEN Stored(id, db[id], row) ELSE db[x]
    /\ \A q \in Requests : q # p => todo'[q] = todo[q]
    /\ \A i \in DOMAIN todo'[p] :
         i \in Nat \ {0} /\ i + 1 \in DOMAIN todo[p] /\ todo'[p][i] = todo[p][i + 1]
    /\ \A i \in DOMAIN todo[p] : i \in Nat \ {0} /\ (i # 1 => i - 1 \in DOMAIN todo'[p])
    /\ clean' \subseteq clean
    /\ \A q \in Requests \ {p} : \A i \in DOMAIN todo[q] : todo[q][i].id = id => id \notin clean'
  BY CommitFacts
<1> SUFFICES ASSUME NEW c \in Calls, NEW s \in Sessions, db'[c].session = s, {c, s} \subseteq clean'
             PROVE  c \in db'[s].listed \/ \E q \in Requests : Lists(todo'[q], c, s)
  BY DEF LinkedOrPlanned, Lists
<1>1. s \in Ids /\ c \in Ids /\ c # s /\ db[s] \in RowOf(s) /\ db[c] \in CallRow /\ RowOf(c) = CallRow
  BY TableIds, CallPresent DEF CaseInv, RowsTyped
<1>2. ASSUME c \in db[s].listed PROVE c \in db'[s].listed
  <2>1. CASE s = id
    <3>1. db[s].listed \cap Calls \subseteq row.listed
      BY <2>1 DEF OrderInv, Ordered, KeepsPlan
    <3>2. db'[s] = row
      BY <1>1, <2>1, StoredTyped
    <3> QED  BY <1>2, <3>1, <3>2
  <2>2. CASE s # id
    BY <1>1, <1>2, <2>2
  <2> QED  BY <2>1, <2>2
<1>3. ASSUME NEW q \in Requests, Lists(todo[q], c, s)
      PROVE  c \in db'[s].listed \/ Lists(todo'[q], c, s)
  <2> PICK j \in DOMAIN todo[q] : todo[q][j].id = s /\ c \in todo[q][j].row.listed
    BY <1>3 DEF Lists
  <2>1. CASE q # p
    BY <1>3, <2>1
  <2>2. CASE q = p /\ j = 1
    <3>1. db'[s] = row
      BY <1>1, <2>2, StoredTyped
    <3> QED  BY <2>2, <3>1
  <2>3. CASE q = p /\ j # 1
    <3>1. j - 1 \in DOMAIN todo'[p] /\ (j - 1) + 1 = j
      BY <2>3
    <3>2. todo'[p][j - 1] = todo[p][j]
      BY <3>1
    <3> QED  BY <2>3, <3>1, <3>2 DEF Lists
  <2> QED  BY <2>1, <2>2, <2>3
<1>4. CASE db[c].session = s
  BY <1>2, <1>3, <1>4 DEF OrderInv, LinkedOrPlanned
<1>5. CASE db[c].session # s
  <2>1. c = id
    BY <1>1, <1>5
  <2>2. row \in CallRow /\ db'[c] = Stored(c, db[c], row)
    BY <1>1, <2>1
  <2>3. row.session = s
    BY <1>1, <1>5, <2>2, StoredCall
  <2>4. Lists(todo[p], c, s) \/ c \in db[s].listed
    BY <1>5, <2>1, <2>3 DEF OrderInv, Ordered, LinkPlan
  <2> QED  BY <1>2, <1>3, <2>4
<1> QED  BY <1>4, <1>5

LEMMA CommitOrder ==
  ASSUME CaseInv, OrderInv, NEW p \in Requests, Commit(p)
  PROVE  OrderInv'
<1>1. ASSUME NEW s \in Sessions, ~Exists(s)' PROVE db'[s].listed = {}
  <2>1. PICK id, row :
      /\ id \in Ids
      /\ row \in RowOf(id) /\ row.status # "absent"
      /\ \A x \in Ids : db'[x] = IF x = id THEN Stored(id, db[id], row) ELSE db[x]
    BY CommitFacts
  <2>2. s \in Ids /\ db[s] \in RowOf(s)
    BY TableIds DEF CaseInv, RowsTyped
  <2>3. s # id
    BY <1>1, <2>1, <2>2, StoredTyped DEF Exists
  <2> QED  BY <1>1, <2>1, <2>2, <2>3 DEF OrderInv, Exists
<1>2. \A q \in Requests : Ordered(todo[q])'
  BY OthersOrdered, RestOrdered
<1> QED  BY <1>1, <1>2, CommitLinked DEF OrderInv

-----------------------------------------------------------------------------
(* Plans that are ordered when they begin *)

\* Neither a call nor a session, nor a packet made of an observation.
Plain(a) ==
  a.id \notin Calls \cup Sessions /\ (a.id \in Packets => a.row.from = Nothing)

\* A session that keeps the calls it lists now.
Keeping(a) ==
  /\ a.id \in Sessions /\ a.id \notin Calls \cup Packets
  /\ db[a.id].listed \cap Calls \subseteq a.row.listed

LEMMA PlainOrdered ==
  ASSUME NEW a, Plain(a)
  PROVE  Ordered(<<a>>)
<1> DEFINE plan == <<a>>
<1>1. DOMAIN plan = {1} /\ plan[1] = a
  OBVIOUS
<1> HIDE DEF plan
<1>2. Ordered(plan)
  BY <1>1 DEF Ordered, StatusPlan, PacketPlan, KeepsPlan, LinkPlan, Plain
<1> QED  BY <1>2 DEF plan

LEMMA KeepingOrdered ==
  ASSUME NEW a, Keeping(a)
  PROVE  Ordered(<<a>>)
<1> DEFINE plan == <<a>>
<1>1. DOMAIN plan = {1} /\ plan[1] = a
  OBVIOUS
<1> HIDE DEF plan
<1>2. Ordered(plan)
  BY <1>1 DEF Ordered, StatusPlan, PacketPlan, KeepsPlan, LinkPlan, Keeping
<1> QED  BY <1>2 DEF plan

LEMMA PlainKeepingOrdered ==
  ASSUME NEW a, NEW b, Plain(a), Keeping(b)
  PROVE  Ordered(<<a, b>>)
<1> DEFINE plan == <<a, b>>
<1>1. DOMAIN plan = {1, 2} /\ plan[1] = a /\ plan[2] = b
  OBVIOUS
<1> HIDE DEF plan
<1>2. StatusPlan(plan) /\ PacketPlan(plan) /\ LinkPlan(plan)
  BY <1>1 DEF StatusPlan, PacketPlan, LinkPlan, Keeping, Plain
<1>3. KeepsPlan(plan)
  BY <1>1 DEF KeepsPlan, Keeping, Plain
<1> QED  BY <1>2, <1>3 DEF plan, Ordered

\* The session twice, with what it will list in between.
LEMMA TwiceOrdered ==
  ASSUME NEW a, NEW b, NEW c, NEW d, Keeping(a), Plain(b), Plain(c), Keeping(d),
         a.id = d.id, a.row.listed \subseteq d.row.listed
  PROVE  Ordered(<<a, b, c, d>>)
<1> DEFINE plan == <<a, b, c, d>>
<1>1. /\ DOMAIN plan = {1, 2, 3, 4}
      /\ plan[1] = a /\ plan[2] = b /\ plan[3] = c /\ plan[4] = d
  OBVIOUS
<1> HIDE DEF plan
<1>2. StatusPlan(plan) /\ PacketPlan(plan) /\ LinkPlan(plan)
  BY <1>1 DEF StatusPlan, PacketPlan, LinkPlan, Keeping, Plain
<1>3. KeepsPlan(plan)
  BY <1>1 DEF KeepsPlan, Keeping, Plain
<1> QED  BY <1>2, <1>3 DEF plan, Ordered

\* A packet of an approved observation, which is saved last.
LEMMA FromOrdered ==
  ASSUME NEW a, NEW b, NEW c, Keeping(b), Plain(c),
         a.id \notin Calls \cup Sessions, a.row.from = c.id, db[c.id].status = "approved"
  PROVE  Ordered(<<a, b, c>>)
<1> DEFINE plan == <<a, b, c>>
<1>1. DOMAIN plan = {1, 2, 3} /\ plan[1] = a /\ plan[2] = b /\ plan[3] = c
  OBVIOUS
<1> HIDE DEF plan
<1>2. StatusPlan(plan) /\ LinkPlan(plan)
  BY <1>1 DEF StatusPlan, LinkPlan, Keeping, Plain
<1>3. PacketPlan(plan)
  BY <1>1 DEF PacketPlan, Keeping, Plain, Written
<1>4. KeepsPlan(plan)
  BY <1>1 DEF KeepsPlan, Keeping, Plain
<1> QED  BY <1>2, <1>3, <1>4 DEF plan, Ordered

\* A call that moves, and keeps the session it has.
LEMMA CallOrdered ==
  ASSUME NEW a, a.id \in Calls, a.id \notin Sessions \cup Packets,
         Moves(db[a.id].status, a.row), a.row.session \in {Nothing, db[a.id].session}
  PROVE  Ordered(<<a>>)
<1> DEFINE plan == <<a>>
<1>1. DOMAIN plan = {1} /\ plan[1] = a
  OBVIOUS
<1> HIDE DEF plan
<1>2. StatusPlan(plan) /\ PacketPlan(plan) /\ KeepsPlan(plan)
  BY <1>1 DEF StatusPlan, PacketPlan, KeepsPlan
<1>3. LinkPlan(plan)
  <2>1. Nothing \notin Sessions  BY TableIds
  <2> QED  BY <1>1, <2>1 DEF LinkPlan
<1> QED  BY <1>2, <1>3 DEF plan, Ordered

\* A call that is linked, then the session that lists it.
LEMMA LinkOrdered ==
  ASSUME NEW a, NEW b, a.id \in Calls, a.id \notin Sessions \cup Packets, Linking(a.row), Keeping(b),
         a.row.session = b.id, a.id \in b.row.listed
  PROVE  Ordered(<<a, b>>)
<1> DEFINE plan == <<a, b>>
<1>1. DOMAIN plan = {1, 2} /\ plan[1] = a /\ plan[2] = b
  OBVIOUS
<1> HIDE DEF plan
<1>2. StatusPlan(plan) /\ PacketPlan(plan)
  BY <1>1 DEF StatusPlan, PacketPlan, Keeping
<1>3. LinkPlan(plan)
  BY <1>1 DEF LinkPlan, Lists, Keeping
<1>4. KeepsPlan(plan)
  BY <1>1 DEF KeepsPlan, Keeping
<1> QED  BY <1>2, <1>3, <1>4 DEF plan, Ordered

\* A call that is new, the session that lists it, the link.
LEMMA AutoCreateOrdered ==
  ASSUME NEW a, NEW b, NEW c, a.id \in Calls, a.id \notin Sessions \cup Packets,
         Moves(db[a.id].status, a.row), a.row.session = Nothing, Keeping(b), c.id = a.id,
         Linking(c.row), c.row.session = b.id, a.id \in b.row.listed
  PROVE  Ordered(<<a, b, c>>)
<1> DEFINE plan == <<a, b, c>>
<1>1. DOMAIN plan = {1, 2, 3} /\ plan[1] = a /\ plan[2] = b /\ plan[3] = c
  OBVIOUS
<1> HIDE DEF plan
<1>2. StatusPlan(plan) /\ PacketPlan(plan)
  BY <1>1 DEF StatusPlan, PacketPlan, Keeping
<1>3. LinkPlan(plan)
  <2>1. Nothing \notin Sessions  BY TableIds
  <2>2. Lists(plan, a.id, b.id)  BY <1>1 DEF Lists
  <2> QED  BY <1>1, <2>1, <2>2 DEF LinkPlan, Keeping
<1>4. KeepsPlan(plan)
  BY <1>1 DEF KeepsPlan, Keeping
<1> QED  BY <1>2, <1>3, <1>4 DEF plan, Ordered

-----------------------------------------------------------------------------
(* Requests plan in order *)

LEMMA SaveFields == \A id, row : Save(id, row).id = id /\ Save(id, row).row = row
BY DEF Save

LEMMA TablesApart ==
  /\ \A s \in Sessions : s \notin Calls \cup Packets
  /\ \A c \in Calls : c \notin Sessions \cup Packets
  /\ \A x \in Observations \cup Packets \cup Tickets \cup Recordings \cup Drafts \cup SharingRows :
       x \notin Calls \cup Sessions
  /\ \A x \in Observations \cup Tickets \cup Recordings \cup Drafts \cup SharingRows : x \notin Packets
<1> DEFINE SH == SharingRows
<1> HIDE DEF SH
<1> QED  BY CaseAssumption DEF SH

\* A list that grows keeps the calls.
LEMMA KeepingMore ==
  ASSUME CaseInv, NEW s \in Sessions, NEW more
  PROVE  /\ Keeping(Save(s, Listing(s, more)))
         /\ Listing(s, more).listed = db[s].listed \cup more
<1>1. db[s] \in SessionRow
  BY TableIds, RowOfTable DEF CaseInv, RowsTyped
<1>2. Listing(s, more).listed = db[s].listed \cup more
  BY <1>1 DEF Listing, SessionRow
<1> QED  BY <1>2, TablesApart, SaveFields DEF Keeping

\* So does a list that loses a ticket.
LEMMA KeepingLess ==
  ASSUME CaseInv, NEW s \in Sessions, NEW t \in Tickets
  PROVE  Keeping(Save(s, [db[s] EXCEPT !.listed = @ \ {t}]))
<1>1. db[s] \in SessionRow
  BY TableIds, RowOfTable DEF CaseInv, RowsTyped
<1>2. [db[s] EXCEPT !.listed = @ \ {t}].listed = db[s].listed \ {t}
  BY <1>1 DEF SessionRow
<1>3. t \notin Calls
  BY TablesApart
<1> DEFINE row == [db[s] EXCEPT !.listed = @ \ {t}]
<1>4. db[s].listed \cap Calls \subseteq row.listed
  BY <1>2, <1>3
<1> HIDE DEF row
<1>5. Keeping(Save(s, row))
  BY <1>4, TablesApart, SaveFields DEF Keeping
<1> QED  BY <1>5 DEF row

\* Every row but those of calls, sessions and packets.
LEMMA PlainSaves ==
  \A x \in Observations \cup Tickets \cup Recordings \cup Drafts \cup SharingRows :
    \A row : Plain(Save(x, row))
BY TablesApart, SaveFields DEF Plain

LEMMA PlainPacket ==
  ASSUME NEW s, NEW k \in Packets
  PROVE  Plain(Save(k, NewPacket(s, Nothing)))
BY TablesApart, SaveFields DEF Plain, NewPacket

\* A session that nothing lists yet keeps no call.
LEMMA NewSessionKeeping ==
  ASSUME OrderInv, NEW s \in Sessions, Fresh(s), NEW row
  PROVE  Keeping(Save(s, row))
<1>1. db[s].listed = {}
  BY DEF OrderInv, Fresh
<1> QED  BY <1>1, TablesApart, SaveFields DEF Keeping

LEMMA SessionOrder ==
  ASSUME CaseInv, OrderInv, NEW p \in Requests, SessionRequest(p)
  PROVE  OrderInv'
<1> SUFFICES \E plan : Ordered(plan) /\ Begin(p, plan)
  BY BeginOrder
<1> PICK s \in Sessions :
    \/ CreateSession(p, s)
    \/ \E k \in Packets, t \in Tickets :
         LoadTicketContext(p, s, t, k) \/ LoadGlpiTicketContext(p, s, t, k)
    \/ \E k \in Packets : CreateContextPacket(p, s, k)
    \/ \E d \in Drafts : CreateInternalNoteDraft(p, s, d) \/ CreateSupportNoteDraft(p, s, d)
    \/ \E t \in Tickets : LinkTicketToSession(p, s, t) \/ UnlinkTicketFromSession(p, s, t)
    \/ \E o \in Observations :
         \/ CaptureMockScreenObservation(p, s, o)
         \/ CaptureActiveWindowMockMetadata(p, s, o)
         \/ AttachManualScreenshotMetadata(p, s, o)
         \/ UploadStructuredScreenObservation(p, s, o)
         \/ \E decision \in {"approved", "discarded"} : ReviewScreenObservation(p, s, o, decision)
         \/ \E k \in Packets : CreateContextPacketFromObservation(p, s, o, k)
    \/ \E state \in {"inactive", "active", "paused"} : UpdateSharingState(p, s, state)
  BY DEF SessionRequest
<1>1. CASE CreateSession(p, s)
  <2>1. Begin(p, <<Save(s, [status |-> "open", listed |-> {}])>>) /\ Fresh(s)
    BY <1>1 DEF CreateSession
  <2> QED  BY <2>1, NewSessionKeeping, KeepingOrdered
<1>2. ASSUME NEW k \in Packets, NEW t \in Tickets,
             LoadTicketContext(p, s, t, k) \/ LoadGlpiTicketContext(p, s, t, k)
      PROVE  \E plan : Ordered(plan) /\ Begin(p, plan)
  <2> DEFINE a == Save(s, Listing(s, {t}))
             b == Save(t, [status |-> "saved"])
             c == Save(k, NewPacket(s, Nothing))
             d == Save(s, Listing(s, {t, k}))
  <2>1. Begin(p, <<a, b, c, d>>)
    BY <1>2 DEF LoadTicketContext, LoadGlpiTicketContext, TicketPlan
  <2>2. Keeping(a) /\ Keeping(d) /\ Plain(b) /\ Plain(c)
    BY KeepingMore, PlainSaves, PlainPacket
  <2>3. a.id = s /\ a.row.listed = db[s].listed \cup {t}
    BY KeepingMore, SaveFields
  <2>4. d.id = s /\ d.row.listed = db[s].listed \cup {t, k}
    BY KeepingMore, SaveFields
  <2> HIDE DEF a, b, c, d
  <2>5. Ordered(<<a, b, c, d>>)
    BY <2>2, <2>3, <2>4, TwiceOrdered
  <2> QED  BY <2>1, <2>5
<1>3. ASSUME NEW k \in Packets, CreateContextPacket(p, s, k)
      PROVE  \E plan : Ordered(plan) /\ Begin(p, plan)
  <2>1. Begin(p, <<Save(k, NewPacket(s, Nothing)), Save(s, Listing(s, {k}))>>)
    BY <1>3 DEF CreateContextPacket
  <2>2. Plain(Save(k, NewPacket(s, Nothing))) /\ Keeping(Save(s, Listing(s, {k})))
    BY KeepingMore, PlainPacket
  <2> QED  BY <2>1, <2>2, PlainKeepingOrdered
<1>4. ASSUME NEW d \in Drafts,
             CreateInternalNoteDraft(p, s, d) \/ CreateSupportNoteDraft(p, s, d)
      PROVE  \E plan : Ordered(plan) /\ Begin(p, plan)
  <2>1. PICK row : Begin(p, <<Save(d, row)>>)
    BY <1>4 DEF CreateInternalNoteDraft, CreateSupportNoteDraft
  <2>2. Plain(Save(d, row))
    BY PlainSaves
  <2> QED  BY <2>1, <2>2, PlainOrdered
<1>5. ASSUME NEW t \in Tickets, LinkTicketToSession(p, s, t) \/ UnlinkTicketFromSession(p, s, t)
      PROVE  \E plan : Ordered(plan) /\ Begin(p, plan)
  <2>1. PICK row : Keeping(Save(s, row)) /\ Begin(p, <<Save(s, row)>>)
    BY <1>5, KeepingMore, KeepingLess DEF LinkTicketToSession, UnlinkTicketFromSession
  <2> QED  BY <2>1, KeepingOrdered
<1>6. ASSUME NEW o \in Observations,
             \/ CaptureMockScreenObservation(p, s, o)
             \/ CaptureActiveWindowMockMetadata(p, s, o)
             \/ AttachManualScreenshotMetadata(p, s, o)
             \/ UploadStructuredScreenObservation(p, s, o)
      PROVE  \E plan : Ordered(plan) /\ Begin(p, plan)
  <2>1. PICK row : Begin(p, <<Save(o, row), Save(s, Listing(s, {o}))>>)
    BY <1>6 DEF CaptureMockScreenObservation, CaptureActiveWindowMockMetadata,
                AttachManualScreenshotMetadata, UploadStructuredScreenObservation, Capture
  <2>2. Plain(Save(o, row)) /\ Keeping(Save(s, Listing(s, {o})))
    BY KeepingMore, PlainSaves
  <2> QED  BY <2>1, <2>2, PlainKeepingOrdered
<1>7. ASSUME NEW o \in Observations, NEW decision \in {"approved", "discarded"},
             ReviewScreenObservation(p, s, o, decision)
      PROVE  \E plan : Ordered(plan) /\ Begin(p, plan)
  <2>1. PICK row : Begin(p, <<Save(o, row)>>)
    BY <1>7 DEF ReviewScreenObservation
  <2>2. Plain(Save(o, row))
    BY PlainSaves
  <2> QED  BY <2>1, <2>2, PlainOrdered
<1>8. ASSUME NEW o \in Observations, NEW k \in Packets,
             CreateContextPacketFromObservation(p, s, o, k)
      PROVE  \E plan : Ordered(plan) /\ Begin(p, plan)
  <2> DEFINE a == Save(k, NewPacket(s, o))
             b == Save(s, Listing(s, {k}))
             c == Save(o, [db[o] EXCEPT !.packet = k])
  <2>1. Begin(p, <<a, b, c>>) /\ db[o].status = "approved"
    BY <1>8 DEF CreateContextPacketFromObservation, PacketFromObservationPlan
  <2>2. Keeping(b) /\ Plain(c)
    BY KeepingMore, PlainSaves
  <2>3. a.id \notin Calls \cup Sessions /\ a.row.from = o /\ c.id = o
    BY TablesApart, SaveFields DEF NewPacket
  <2> HIDE DEF a, b, c
  <2>4. Ordered(<<a, b, c>>)
    BY <2>1, <2>2, <2>3, FromOrdered
  <2> QED  BY <2>1, <2>4
<1>9. ASSUME NEW state \in {"inactive", "active", "paused"}, UpdateSharingState(p, s, state)
      PROVE  \E plan : Ordered(plan) /\ Begin(p, plan)
  <2>1. PICK row : Begin(p, <<Save(Sharing(s), row)>>)
    BY <1>9 DEF UpdateSharingState
  <2>2. Sharing(s) \in SharingRows
    BY DEF SharingRows
  <2>3. Plain(Save(Sharing(s), row))
    BY <2>2, PlainSaves
  <2> QED  BY <2>1, <2>3, PlainOrdered
<1> QED  BY <1>1, <1>2, <1>3, <1>4, <1>5, <1>6, <1>7, <1>8, <1>9

\* A request that writes the call alone.
LEMMA CallAlone ==
  ASSUME NEW p \in Requests, NEW c \in Calls, NEW row, Moves(db[c].status, row),
         row.session \in {Nothing, db[c].session}, Begin(p, <<Save(c, row)>>)
  PROVE  \E plan : Ordered(plan) /\ Begin(p, plan)
<1> DEFINE a == Save(c, row)
<1>1. a.id = c /\ a.row = row
  BY SaveFields
<1> HIDE DEF a
<1>2. Ordered(<<a>>)
  BY <1>1, CallOrdered, TablesApart
<1> QED  BY <1>2 DEF a

LEMMA NewCallFields ==
  \A status :
    /\ NewCall(status).status = status /\ NewCall(status).session = Nothing
    /\ \A s : /\ Linked(NewCall(status), s).status = "answered"
              /\ Linked(NewCall(status), s).session = s
BY DEF NewCall, Linked

\* The row of a call that is changed in one column.
LEMMA CallRowFields ==
  ASSUME CaseInv, NEW c \in Calls
  PROVE  /\ \A s : Linked(db[c], s).status = "answered" /\ Linked(db[c], s).session = s
         /\ \A status :
              LET row == [db[c] EXCEPT !.status = status,
                                       !.ended = @ \/ status \in {"ended", "missed"}]
              IN row.status = status /\ row.session = db[c].session
         /\ \A more :
              /\ Listing(c, more).status = db[c].status
              /\ Listing(c, more).session = db[c].session
         /\ \A less :
              LET row == [db[c] EXCEPT !.listed = @ \ less]
              IN row.status = db[c].status /\ row.session = db[c].session
<1>1. db[c] \in CallRow
  BY CallPresent
<1>2. \A s : Linked(db[c], s).status = "answered" /\ Linked(db[c], s).session = s
  BY <1>1 DEF Linked, CallRow
<1>3. \A more : /\ Listing(c, more).status = db[c].status
                /\ Listing(c, more).session = db[c].session
  BY <1>1 DEF Listing, CallRow
<1> QED  BY <1>1, <1>2, <1>3 DEF CallRow

LEMMA CallOrder ==
  ASSUME CaseInv, OrderInv, NEW p \in Requests, CallRequest(p)
  PROVE  OrderInv'
<1> SUFFICES \E plan : Ordered(plan) /\ Begin(p, plan)
  BY BeginOrder
<1> PICK c \in Calls :
    \/ CreateFakeIncomingCall(p, c)
    \/ CreateFromAsteriskAmiEvent(p, c)
    \/ \E event \in DOMAIN StatusFromWebhook : CreateFromTelephonyWebhook(p, c, event)
    \/ \E s \in Sessions : LinkCallToSession(p, c, s)
    \/ \E status \in {"answered", "on_hold", "missed", "ended"} : UpdateCallStatus(p, c, status)
    \/ \E intent \in DOMAIN StatusForAction : ControlCall(p, c, intent)
    \/ \E t \in Tickets : LinkTicketToCall(p, c, t) \/ UnlinkTicketFromCall(p, c, t)
    \/ \E r \in Recordings : AttachMockRecording(p, c, r) \/ ReviewCallRecording(p, c, r)
  BY DEF CallRequest
<1>1. ASSUME NEW status, Fresh(c), Begin(p, <<Save(c, NewCall(status))>>)
      PROVE  \E plan : Ordered(plan) /\ Begin(p, plan)
  <2>1. Moves(db[c].status, NewCall(status))
    BY <1>1 DEF Moves, Fresh, Exists
  <2> QED  BY <1>1, <2>1, CallAlone, NewCallFields
<1>2. ASSUME NEW s \in Sessions, NEW tickets \in SUBSET Tickets, Fresh(c), Fresh(s),
             Begin(p, AutoCreatePlan(c, s, tickets))
      PROVE  \E plan : Ordered(plan) /\ Begin(p, plan)
  <2> DEFINE x == Save(c, NewCall("ringing"))
             y == Save(s, [status |-> "open", listed |-> {c} \cup tickets])
             z == Save(c, Linked(NewCall("ringing"), s))
  <2>1. Begin(p, <<x, y, z>>)
    BY <1>2 DEF AutoCreatePlan
  <2>2. Keeping(y) /\ y.id = s /\ c \in y.row.listed
    BY <1>2, NewSessionKeeping, SaveFields
  <2>3. x.id = c /\ c \notin Sessions \cup Packets /\ x.row.session = Nothing
    BY TablesApart, SaveFields, NewCallFields
  <2>4. Moves(db[c].status, x.row)
    BY <1>2 DEF Moves, Fresh, Exists
  <2>5. s # Nothing
    BY TableIds
  <2>6. z.id = c /\ z.row.session = s /\ Linking(z.row)
    BY <2>5, SaveFields, NewCallFields DEF Linking
  <2> HIDE DEF x, y, z
  <2>7. Ordered(<<x, y, z>>)
    BY <2>2, <2>3, <2>4, <2>6, AutoCreateOrdered
  <2> QED  BY <2>1, <2>7
<1>3. CASE CreateFakeIncomingCall(p, c) \/ CreateFromAsteriskAmiEvent(p, c)
  <2>1. \/ Begin(p, <<Save(c, NewCall("ringing"))>>)
        \/ \E s \in Sessions, tickets \in SUBSET Tickets :
             Fresh(s) /\ Begin(p, AutoCreatePlan(c, s, tickets))
    BY <1>3 DEF CreateFakeIncomingCall, CreateFromAsteriskAmiEvent
  <2>2. Fresh(c)
    BY <1>3 DEF CreateFakeIncomingCall, CreateFromAsteriskAmiEvent
  <2> QED  BY <1>1, <1>2, <2>1, <2>2
<1>4. ASSUME NEW event \in DOMAIN StatusFromWebhook, CreateFromTelephonyWebhook(p, c, event)
      PROVE  \E plan : Ordered(plan) /\ Begin(p, plan)
  BY <1>1, <1>4 DEF CreateFromTelephonyWebhook
<1>5. ASSUME NEW s \in Sessions, LinkCallToSession(p, c, s)
      PROVE  \E plan : Ordered(plan) /\ Begin(p, plan)
  <2> DEFINE x == Save(c, Linked(db[c], s))
             y == Save(s, Listing(s, {c}))
  <2>1. Begin(p, <<x, y>>)
    BY <1>5 DEF LinkCallToSession
  <2>2. s # Nothing
    BY TableIds
  <2>3. x.id = c /\ c \in Calls /\ c \notin Sessions \cup Packets /\ Linking(x.row) /\ x.row.session = s
    BY <2>2, TablesApart, SaveFields, CallRowFields DEF Linking
  <2>4. Keeping(y) /\ y.id = s /\ c \in y.row.listed
    BY KeepingMore, SaveFields
  <2> HIDE DEF x, y
  <2>5. Ordered(<<x, y>>)
    BY <2>3, <2>4, LinkOrdered
  <2> QED  BY <2>1, <2>5
<1>6. ASSUME NEW status, UpdateCallStatus(p, c, status)
      PROVE  \E plan : Ordered(plan) /\ Begin(p, plan)
  <2> DEFINE row == [db[c] EXCEPT !.status = status,
                                  !.ended = @ \/ status \in {"ended", "missed"}]
  <2>1. <<db[c].status, status>> \in AllowedTransitions /\ Begin(p, <<Save(c, row)>>)
    BY <1>6 DEF UpdateCallStatus
  <2>2. row.status = status /\ row.session = db[c].session
    BY CallRowFields
  <2> HIDE DEF row
  <2>3. Moves(db[c].status, row)
    BY <2>1, <2>2 DEF Moves
  <2> QED  BY <2>1, <2>2, <2>3, CallAlone
<1>7. ASSUME NEW intent \in DOMAIN StatusForAction, ControlCall(p, c, intent)
      PROVE  \E plan : Ordered(plan) /\ Begin(p, plan)
  BY <1>6, <1>7 DEF ControlCall
<1>8. ASSUME NEW t \in Tickets, LinkTicketToCall(p, c, t) \/ UnlinkTicketFromCall(p, c, t)
      PROVE  \E plan : Ordered(plan) /\ Begin(p, plan)
  <2>1. PICK row : /\ row = Listing(c, {t}) \/ row = [db[c] EXCEPT !.listed = @ \ {t}]
                   /\ Begin(p, <<Save(c, row)>>)
    BY <1>8 DEF LinkTicketToCall, UnlinkTicketFromCall
  <2>2. row.status = db[c].status /\ row.session = db[c].session
    <3>1. /\ Listing(c, {t}).status = db[c].status
          /\ Listing(c, {t}).session = db[c].session
      BY CallRowFields
    <3>2. /\ [db[c] EXCEPT !.listed = @ \ {t}].status = db[c].status
          /\ [db[c] EXCEPT !.listed = @ \ {t}].session = db[c].session
      BY CallRowFields
    <3> QED  BY <2>1, <3>1, <3>2
  <2>3. Moves(db[c].status, row)
    BY <2>2 DEF Moves
  <2> QED  BY <2>1, <2>2, <2>3, CallAlone
<1>9. ASSUME NEW r \in Recordings, AttachMockRecording(p, c, r) \/ ReviewCallRecording(p, c, r)
      PROVE  \E plan : Ordered(plan) /\ Begin(p, plan)
  <2>1. PICK row : Begin(p, <<Save(r, row)>>)
    BY <1>9 DEF AttachMockRecording, ReviewCallRecording
  <2>2. Plain(Save(r, row))
    BY PlainSaves
  <2> QED  BY <2>1, <2>2, PlainOrdered
<1> QED  BY <1>3, <1>4, <1>5, <1>6, <1>7, <1>8, <1>9

-----------------------------------------------------------------------------
(* Theorems about the order of saves *)

LEMMA OrderStep == CaseInv /\ OrderInv /\ [Next]_vars => OrderInv'
<1> SUFFICES ASSUME CaseInv, OrderInv, [Next]_vars PROVE OrderInv'
  OBVIOUS
<1>1. CASE UNCHANGED vars
  BY <1>1 DEF vars, OrderInv, LinkedOrPlanned, Lists, Ordered, StatusPlan, PacketPlan, KeepsPlan,
              LinkPlan, Written, Exists
<1>2. CASE Next
  <2> PICK p \in Requests : SessionRequest(p) \/ CallRequest(p) \/ Commit(p) \/ Abort(p)
    BY <1>2 DEF Next
  <2> QED  BY SessionOrder, CallOrder, CommitOrder, AbortOrder
<1> QED  BY <1>1, <1>2

LEMMA OrderInvariance == Spec => [](CaseInv /\ OrderInv)
<1> QED  BY InitInv, StepInv, InitOrder, OrderStep, PTL DEF Spec

\* A linked call is listed by its session once the requests on both have
\* settled, whichever of the two rows each of them saved first.
THEOREM LinkedCallsListed == Spec => []LinkedCallIsListed
<1>1. CaseInv /\ OrderInv => LinkedCallIsListed
  BY DEF OrderInv, LinkedOrPlanned, LinkedCallIsListed, Lists, Settled, Written
<1> QED  BY <1>1, OrderInvariance, PTL

\* A call whose row was overtaken by nobody moves along the documented
\* transitions, or is answered by being linked.
THEOREM LifecycleHolds == Spec => LifecycleKept
<1> DEFINE A == \A c \in Calls :
             (Exists(c) /\ c \in clean' /\ db'[c].status # db[c].status)
               => \/ <<db[c].status, db'[c].status>> \in AllowedTransitions
                  \/ db'[c].status = "answered" /\ db'[c].session # Nothing
<1>1. CaseInv /\ OrderInv /\ [Next]_vars => [A]_vars
  <2> SUFFICES ASSUME CaseInv, OrderInv, Next, NEW c \in Calls, Exists(c), c \in clean',
                      db'[c].status # db[c].status
               PROVE  \/ <<db[c].status, db'[c].status>> \in AllowedTransitions
                      \/ db'[c].status = "answered" /\ db'[c].session # Nothing
    OBVIOUS
  <2> PICK p \in Requests : Commit(p)
    BY OnlyCommitsWrite
  <2> PICK id, row :
      /\ id \in Ids
      /\ row \in RowOf(id) /\ row.status # "absent"
      /\ 1 \in DOMAIN todo[p] /\ todo[p][1].id = id /\ todo[p][1].row = row
      /\ \A x \in Ids : db'[x] = IF x = id THEN Stored(id, db[id], row) ELSE db[x]
      /\ clean' \subseteq clean
    BY CommitFacts
  <2>1. c \in Ids /\ RowOf(c) = CallRow /\ db[c] \in CallRow
    BY CallPresent
  <2>2. c = id
    BY <2>1
  <2>3. row \in CallRow /\ db'[c] = Stored(c, db[c], row)
    BY <2>1, <2>2
  <2>4. Linking(row) \/ Moves(db[c].status, row)
    BY <2>2 DEF OrderInv, Ordered, StatusPlan
  <2>5. db'[c].status = row.status /\ (row.session # Nothing => db'[c].session = row.session)
    BY <2>1, <2>3, StoredCall
  <2> QED  BY <2>4, <2>5 DEF Linking, Moves, Exists
<1> HIDE DEF A
<1>2. Spec => [][A]_vars
  BY <1>1, OrderInvariance, PTL DEF Spec
<1> QED  BY <1>2 DEF A, LifecycleKept

\* A packet is made of an observation that stands approved when the packet is
\* saved, unless another request on the observation came in between.
THEOREM PacketsOfApproved == Spec => PacketOfApproved
<1> DEFINE A == \A k \in Packets :
             (~Exists(k) /\ db'[k].status = "saved" /\ db'[k].from # Nothing)
               => db[db'[k].from].status = "approved" \/ db'[k].from \notin clean
<1>1. CaseInv /\ OrderInv /\ [Next]_vars => [A]_vars
  <2>1. CASE UNCHANGED vars
    BY <2>1 DEF vars, Exists
  <2>2. CASE Next
    <3> SUFFICES ASSUME CaseInv, OrderInv, NEW k \in Packets, ~Exists(k), db'[k].status = "saved",
                        db'[k].from # Nothing
                 PROVE  db[db'[k].from].status = "approved" \/ db'[k].from \notin clean
      OBVIOUS
    <3> PICK p \in Requests : Commit(p)
      BY <2>2, OnlyCommitsWrite DEF Exists
    <3> PICK id, row :
        /\ id \in Ids
        /\ row \in RowOf(id) /\ row.status # "absent"
        /\ 1 \in DOMAIN todo[p] /\ todo[p][1].id = id /\ todo[p][1].row = row
        /\ \A x \in Ids : db'[x] = IF x = id THEN Stored(id, db[id], row) ELSE db[x]
        /\ clean' \subseteq clean
      BY CommitFacts
    <3>1. k \in Ids /\ k \notin Calls
      BY TableIds, TablesApart
    <3>2. k = id
      BY <3>1 DEF Exists
    <3>3. db'[k] = row
      BY <3>1, <3>2 DEF Stored
    <3> QED  BY <3>2, <3>3 DEF OrderInv, Ordered, PacketPlan
  <2> QED  BY <2>1, <2>2
<1> HIDE DEF A
<1>2. Spec => [][A]_vars
  BY <1>1, OrderInvariance, PTL DEF Spec
<1> QED  BY <1>2 DEF A, PacketOfApproved

=============================================================================
