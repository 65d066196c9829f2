---------------------------- MODULE AuditLedger ----------------------------
(***************************************************************************)
(* BaselineStore with a ledger of what its calls promised: a history       *)
(* variable no action reads, for the properties that relate the file to    *)
(* what an accept or a record-verdict has answered.                        *)
(***************************************************************************)
EXTENDS BaselineStore

VARIABLE promise   \* per fingerprint, what replies said was recorded since its code is there

lvars == <<vars, promise>>

LInit == Init /\ promise = [f \in FP |-> Bare]

\* The developer takes away the code of an item: it starts anew when it comes back.
LEdit ==
  /\ Edit
  /\ promise' = [f \in FP |-> IF f \in code' THEN promise[f] ELSE Bare]

LWork(c) == Work(c) /\ UNCHANGED promise

Recorded(c, f) ==
  IF f \notin code \cap call[c].fps THEN promise[f]
  ELSE CASE call[c].op = "accept"         -> [promise[f] EXCEPT !.ack = TRUE]
         [] call[c].op = "record-verdict" -> [promise[f] EXCEPT !.verdicts = @ \cup call[c].verdict]
         [] OTHER                         -> promise[f]

LReply(c) == Reply(c) /\ promise' = [f \in FP |-> Recorded(c, f)]

LNext == LEdit \/ \E c \in Callers : LWork(c) \/ LReply(c)

LSpec == LInit /\ [][LNext]_lvars

-----------------------------------------------------------------------------
\* What a human accepted, and accept answered, is in the file for as long as the
\* code of the item stays.
DecisionsKept == \A f \in code : promise[f].ack => f \in Acked(disk)

\* A verdict record-verdict answered as persisted stays in the item's history for
\* as long as the code of the item stays.
VerdictsKept ==
  \A f \in code : promise[f].verdicts # {} =>
    f \in Tracked(disk) /\ promise[f].verdicts \subseteq Latest(disk, f).verdicts
=============================================================================
