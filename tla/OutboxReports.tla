---------------------------- MODULE OutboxReports ----------------------------
(***************************************************************************)
(* The readers of the outbox: the evidence bundle and the timeline of a    *)
(* session (support-sessions.service.ts, evidence-bundle.builder.ts) and   *)
(* the export of a data subject's records (gdpr.service.ts).  Each reads   *)
(* one table per await while requests and workers go on saving, and joins  *)
(* what it read: all three the actions and then the items; the bundle goes *)
(* on to the attempts of the items it found.  They write no row that the   *)
(* outbox reads.                                                           *)
(***************************************************************************)
EXTENDS ActionOutbox

VARIABLE report  \* the report in the making: the tables it has read, as read

reportVars == <<vars, report>>

\* What a report tells of a status: delivered and how, or not.
Told(status) == IF status \in Delivered THEN status ELSE "open"

ShownItem(row) == [status |-> Told(row.status), attemptCount |-> row.attemptCount]

\* Variant: the items are read before their actions.
BeforeItemsFirst == [actions |-> {"items"}, items |-> {}]

\* The tables that are read before each.
Before == [actions |-> {}, items |-> {"actions"}]

NoReport ==
  [read |-> {}, actions |-> [a \in Actions |-> "open"],
   items |-> [a \in Actions |-> ShownItem(NoItem)]]

ReportInit == Init /\ report = NoReport

-----------------------------------------------------------------------------
\* The report goes on to the next table, and is made with the last.  Nothing
\* of it is kept.
Read(table, rest) ==
  /\ report.read = Before[table]
  /\ report' = IF report.read \cup {table} = {"actions", "items"} THEN NoReport
               ELSE [rest EXCEPT !.read = @ \cup {table}]
  /\ UNCHANGED vars

\* listSupportActions
ReadActions ==
  Read("actions", [report EXCEPT !.actions = [a \in Actions |-> Told(action[a])]])

\* listActionOutboxItems.  Attempts are only ever added, so that a bundle will
\* find at least those that its items have now.
ReadItems ==
  Read("items", [report EXCEPT !.items = [a \in Actions |-> ShownItem(item[a])]])

OthersGoOn == Next /\ UNCHANGED report

ReportNext == OthersGoOn \/ ReadActions \/ ReadItems

ReportSpec == ReportInit /\ [][ReportNext]_reportVars

-----------------------------------------------------------------------------
(* Properties *)

\* What the report shows of a if it reads what it has not read yet now.
ActionShown(a) ==
  IF "actions" \in report.read THEN report.actions[a] ELSE Told(action[a])

ItemShown(a) == IF "items" \in report.read THEN report.items[a] ELSE ShownItem(item[a])

\* A report is never ahead of itself, though every row may change between two
\* of its reads: an action that it shows delivered has its item shown
\* delivered the same way, and of an item that it shows a bundle will list
\* every attempt that the item counts and the one that delivered it
\* (generateEvidenceBundle reads in the order opposite to that of the saves of
\* processClaimedOutbox).
ReportsHoldTogether ==
  \A a \in clean :
    LET shown == ItemShown(a) IN
    /\ ActionShown(a) \in Delivered => shown.status = ActionShown(a)
    /\ \A n \in 1 .. shown.attemptCount : attempts[a][n] # "none"
    /\ shown.status \in Delivered =>
         \E n \in 1 .. AttemptCap : attempts[a][n] = shown.status

=============================================================================
