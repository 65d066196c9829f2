---------------------------- MODULE AuditAnswers ----------------------------
(***************************************************************************)
(* BaselineStore with what has passed between codefit and its user: four   *)
(* history variables no action reads, for the properties of what a         *)
(* scan-all may leave out of its answer.                                   *)
(***************************************************************************)
EXTENDS BaselineStore

VARIABLES
  told,      \* what a scan-all answer the client read has shown
  withheld,  \* what one has counted as withheld
  approved,  \* what accept requests have named
  judged     \* what record-verdict requests have named

avars == <<vars, told, withheld, approved, judged>>

AInit == Init /\ told = {} /\ withheld = {} /\ approved = {} /\ judged = {}

AEdit == Edit /\ UNCHANGED <<told, withheld, approved, judged>>

Asked(c, op, sofar) == IF call'[c].op = op THEN sofar \cup call'[c].fps ELSE sofar

AWork(c) ==
  /\ Work(c)
  /\ approved' = Asked(c, "accept", approved)
  /\ judged'   = Asked(c, "record-verdict", judged)
  /\ UNCHANGED <<told, withheld>>

\* A response over budget is cut off or refused by the client: nobody reads it.
AReply(c) ==
  /\ Reply(c)
  /\ told'     = IF call[c].answer.fits THEN told \cup call[c].answer.shown ELSE told
  /\ withheld' = IF call[c].answer.fits THEN withheld \cup call[c].answer.withheld ELSE withheld
  /\ UNCHANGED <<approved, judged>>

ANext == AEdit \/ \E c \in Callers : AWork(c) \/ AReply(c)

ASpec == AInit /\ [][ANext]_avars

-----------------------------------------------------------------------------
\* An item is acknowledged only if an accept request named its own fingerprint:
\* no verdict acknowledges it, and no edited item inherits it from the one it replaces.
OnlyHumansAccept ==
  \A b \in {disk} \cup {call[c].mem : c \in Callers} : Acked(b) \subseteq approved

Answering(c) == call[c].op = "scan-all" /\ call[c].pc = "reply"

\* A scan that looks at an affirmation nobody accepted shows it, each time, whatever
\* the response budget withholds.
AffirmationsShown ==
  \A c \in Callers : Answering(c) =>
    (call[c].seen \cap call[c].looked \cap Affirming) \ approved \subseteq call[c].answer.shown

\* A scan is silent only on what the client has had an account of: an answer it read
\* showed the item or counted it as withheld, or a request of its own named it.  The
\* write gate keeps answers nobody could read out of the file.
SilencedOnlyIfAnswered ==
  \A c \in Callers : Answering(c) =>
    call[c].answer.silent \subseteq told \cup withheld \cup approved \cup judged
=============================================================================
