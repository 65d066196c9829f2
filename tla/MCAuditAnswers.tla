--------------------------- MODULE MCAuditAnswers ---------------------------
(* The calls and what they told, on the small project. *)
EXTENDS AuditAnswers, BaselineInstance
=============================================================================
