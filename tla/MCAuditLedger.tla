--------------------------- MODULE MCAuditLedger ----------------------------
(* The calls and what they promised, on the small project. *)
EXTENDS AuditLedger, BaselineInstance
=============================================================================
