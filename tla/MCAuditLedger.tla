---------------------------- MODULE MCAuditLedger ----------------------------
(* Three sessions and the preflights of one machine. *)
EXTENDS AuditLedger
=============================================================================
