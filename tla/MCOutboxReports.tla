-------------------------- MODULE MCOutboxReports --------------------------
(* The small instances of ActionOutbox, with the reader of OutboxReports. *)
EXTENDS MCActionOutbox, OutboxReports

=============================================================================
