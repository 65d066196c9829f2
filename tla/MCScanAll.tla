----------------------------- MODULE MCScanAll -----------------------------
(* Two files: a handler with an unguarded operation and one whose control is *)
(* there, a secret between them, and a handler whose data leaves the body.   *)
EXTENDS ScanAll

MCConcern == {"secret", "idor1", "authz1", "over2", "authz2", "idor3", "loop3"}

MCCategoryOf ==
  [c \in MCConcern |->
     CASE c = "secret" -> "finding" [] c \in {"idor1", "idor3"} -> "idor"
       [] c \in {"authz1", "authz2"} -> "authz" [] c = "over2" -> "overfetch"
       [] OTHER -> "nplus1"]
MCFileOf == [c \in MCConcern |-> IF c \in {"idor3", "loop3"} THEN 2 ELSE 1]
MCLineOf ==
  [c \in MCConcern |->
     CASE c \in {"idor1", "authz1"} -> 10 [] c = "secret" -> 15 [] c = "authz2" -> 20
       [] c = "over2" -> 24 [] c = "idor3" -> 5 [] OTHER -> 3]
MCEntrySize == [actionable |-> 7, clean |-> 5, frontier |-> 4]
MCNoteSize  == [fits |-> 3, prefix |-> 9]
=============================================================================
