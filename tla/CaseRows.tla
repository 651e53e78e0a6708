------------------------------ MODULE CaseRows ------------------------------
(***************************************************************************)
(* The rows of a support case (sessions, calls and their recordings,       *)
(* screen observations, context packets, note drafts, ticket references    *)
(* and the sharing state of a session)                                     *)
(* and the way API requests change them: a request reads the rows it       *)
(* needs, checks its guards, and then issues its saves one await at a      *)
(* time.  A save writes the whole row back from the snapshot that was      *)
(* read.  No row has a version and nothing is locked, so a save that       *)
(* another request issues in between is overwritten.                       *)
(*                                                                         *)
(* The reads of one request happen at one instant here.  One tenant.       *)
(***************************************************************************)
EXTENDS Naturals, FiniteSets, Sequences

CONSTANTS
  Sessions, Calls, Observations, Packets,  \* row ids of each table
  Tickets, Recordings, Drafts,
  Requests,     \* in-flight API requests
  Nothing,      \* a column that is null
  Pools         \* bound: the sets of ids of which a behaviour uses one

\* A session's row in sharing_states; it has no id of its own.
Sharing(s) == <<"sharing", s>>
SharingRows == {Sharing(s) : s \in Sessions}

Ids ==
  Sessions \cup Calls \cup Observations \cup Packets \cup Tickets \cup Recordings \cup Drafts
    \cup SharingRows

\* listed: linkedTicketIds, aiContextPacketIds, screenObservationIds and
\* callEventIds of the session.  No operation changes the status "open".
SessionRow == [status : {"absent", "open"}, listed : SUBSET Ids]

\* ended: endedAt is set.  listed: metadata.linkedTicketIds.
CallRow ==
  [status : {"absent", "ringing", "answered", "on_hold", "missed", "ended"},
   session : Sessions \cup {Nothing}, ended : BOOLEAN, listed : SUBSET Tickets]

\* sharing: the session's sharing state that the capture recorded.
ObservationRow ==
  [status : {"absent", "review_required", "approved", "discarded"},
   session : Sessions \cup {Nothing}, sharing : {"inactive", "active", "paused"},
   packet : Packets \cup {Nothing}]

\* from: the observation the packet was made of.
PacketRow ==
  [status : {"absent", "saved"}, session : Sessions \cup {Nothing},
   from : Observations \cup {Nothing}]

TicketRow == [status : {"absent", "saved"}]

RecordingRow ==
  [status : {"absent", "available", "mock_only"}, call : Calls \cup {Nothing},
   session : Sessions \cup {Nothing}]

\* No operation sets reviewed.
DraftRow == [status : {"absent", "saved"}, session : Sessions \cup {Nothing}]

SharingRow == [status : {"inactive", "active", "paused"}]

\* Every id belongs to one table.
ASSUME CaseAssumption ==
  /\ Sessions \cap
       (Calls \cup Observations \cup Packets \cup Tickets \cup Recordings \cup Drafts
          \cup SharingRows) = {}
  /\ Calls \cap
       (Observations \cup Packets \cup Tickets \cup Recordings \cup Drafts \cup SharingRows) = {}
  /\ Observations \cap (Packets \cup Tickets \cup Recordings \cup Drafts \cup SharingRows) = {}
  /\ Packets \cap (Tickets \cup Recordings \cup Drafts \cup SharingRows) = {}
  /\ Tickets \cap (Recordings \cup Drafts \cup SharingRows) = {}
  /\ Recordings \cap (Drafts \cup SharingRows) = {}
  /\ Drafts \cap SharingRows = {}
  /\ Nothing \notin Ids

RowOf(id) ==
  CASE id \in Sessions -> SessionRow
    [] id \in Calls -> CallRow
    [] id \in Observations -> ObservationRow
    [] id \in Packets -> PacketRow
    [] id \in Tickets -> TicketRow
    [] id \in Recordings -> RecordingRow
    [] id \in Drafts -> DraftRow
    [] id \in SharingRows -> SharingRow

Blank(id) ==
  CASE id \in Sessions -> [status |-> "absent", listed |-> {}]
    [] id \in Calls -> [status |-> "absent", session |-> Nothing, ended |-> FALSE, listed |-> {}]
    [] id \in Observations ->
         [status |-> "absent", session |-> Nothing, sharing |-> "inactive", packet |-> Nothing]
    [] id \in Packets -> [status |-> "absent", session |-> Nothing, from |-> Nothing]
    [] id \in Tickets -> [status |-> "absent"]
    [] id \in Recordings -> [status |-> "absent", call |-> Nothing, session |-> Nothing]
    [] id \in Drafts -> [status |-> "absent", session |-> Nothing]
    [] id \in SharingRows -> [status |-> "inactive"]

VARIABLES
  pool,   \* the ids this behaviour uses, never changed
  db,     \* the row of each id
  todo,   \* the saves each request has still to issue
  clean   \* history: rows that no lost update and no aborted request touched

vars == <<pool, db, todo, clean>>

Init ==
  /\ pool \in Pools
  /\ db = [id \in Ids |-> Blank(id)]
  /\ todo = [p \in Requests |-> <<>>]
  /\ clean = Ids

-----------------------------------------------------------------------------
(* Requests *)

Save(id, row) == [id |-> id, row |-> row]

Exists(id) == db[id].status # "absent"

\* The rows that the saves of a plan write.
Written(plan) == {plan[i].id : i \in DOMAIN plan}

\* randomUUID() has never returned this id before.
Fresh(id) == id \in pool /\ ~Exists(id) /\ \A p \in Requests : id \notin Written(todo[p])

Begin(p, plan) ==
  /\ todo[p] = <<>>
  /\ todo' = [todo EXCEPT ![p] = plan]
  /\ UNCHANGED <<pool, db, clean>>

\* Variant: an absent session id is written as null.
StoredNull(id, old, row) == row

\* Prisma leaves a column alone whose new value is undefined: a call read
\* before it was linked does not take the link away when it is written back.
Stored(id, old, row) ==
  IF id \in Calls /\ row.session = Nothing THEN [row EXCEPT !.session = old.session] ELSE row

\* The next save of a request reaches the database.  A request that read the
\* row before, and is going to write it, will overwrite this save.
Commit(p) ==
  /\ todo[p] # <<>>
  /\ LET id == Head(todo[p]).id
         stale == \E q \in Requests \ {p} : id \in Written(todo[q])
     IN /\ UNCHANGED pool
        /\ db' = [db EXCEPT ![id] = Stored(id, @, Head(todo[p]).row)]
        /\ todo' = [todo EXCEPT ![p] = Tail(@)]
        /\ clean' = IF stale THEN clean \ {id} ELSE clean

\* The process stops or the store fails: the saves left are never issued.
Abort(p) ==
  /\ todo[p] # <<>>
  /\ todo' = [todo EXCEPT ![p] = <<>>]
  /\ clean' = clean \ Written(todo[p])
  /\ UNCHANGED <<pool, db>>

\* No request is about to write one of these rows.
Settled(ids) == \A p \in Requests : Written(todo[p]) \cap ids = {}

\* The row of id with more ids in its list.
Listing(id, more) == [db[id] EXCEPT !.listed = @ \cup more]

=============================================================================
