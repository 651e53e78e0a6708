------------------------------ MODULE Casework ------------------------------
(***************************************************************************)
(* Calls and support sessions together: both services write the session's  *)
(* row, a link is kept on both sides.                                      *)
(***************************************************************************)
EXTENDS SupportSessions, CallEvents

Next ==
  \E p \in Requests : SessionRequest(p) \/ CallRequest(p) \/ Commit(p) \/ Abort(p)

Spec == Init /\ [][Next]_vars

-----------------------------------------------------------------------------
(* Properties *)

\* Rows and the rows that requests are about to write have their types.
TypeOK ==
  /\ DOMAIN db = Ids
  /\ \A id \in Ids : db[id] \in RowOf(id)
  /\ DOMAIN todo = Requests
  /\ \A p \in Requests : \A i \in DOMAIN todo[p] : todo[p][i].row \in RowOf(todo[p][i].id)
  /\ clean \subseteq Ids

\* Whatever a session lists has been saved, however requests interleave and
\* wherever they stop: observations, packets and calls are saved before the
\* session that lists them.  (Tickets are not: their references come later.)
ListedRowsExist ==
  \A s \in Sessions : \A id \in db[s].listed \ Tickets : Exists(id)

\* A call that is linked stays linked, to this or another session, even when
\* a request that read the row before writes it back.
LinkStays ==
  [][\A c \in Calls : db[c].session # Nothing => db'[c].session # Nothing]_vars

\* The session of a linked call lists the call, once the requests on both
\* have settled and none was overtaken or aborted.
LinkedCallIsListed ==
  \A c \in Calls : \A s \in Sessions :
    (db[c].session = s /\ {c, s} \subseteq clean /\ Settled({c, s})) => c \in db[s].listed

\* A call moves along the transitions the call console documents, or is
\* answered by being linked, unless a request on it was overtaken: the status
\* that a request checked is the one its save finds.
LifecycleKept ==
  [][\A c \in Calls :
       (Exists(c) /\ c \in clean' /\ db'[c].status # db[c].status)
         => \/ <<db[c].status, db'[c].status>> \in AllowedTransitions
            \/ db'[c].status = "answered" /\ db'[c].session # Nothing]_vars

\* When a context packet is made of a screen observation, the observation
\* stands approved, unless a second request on it overtook the first.
PacketOfApproved ==
  [][\A k \in Packets :
       (~Exists(k) /\ db'[k].status = "saved" /\ db'[k].from # Nothing)
         => db[db'[k].from].status = "approved" \/ db'[k].from \notin clean]_vars

\* docs/CALL_CONSOLE.md:45, "Allowed transitions are intentionally narrow and
\* enforced by the API".
TransitionsEnforced ==
  [][\A c \in Calls :
       (Exists(c) /\ c \in clean' /\ db'[c].status # db[c].status)
         => <<db[c].status, db'[c].status>> \in AllowedTransitions]_vars

=============================================================================
