---------------------------- MODULE AuditMemory ----------------------------
(***************************************************************************)
(* What codefit's audit memory promises, call by call: each call is one    *)
(* step, a human decides, an agent reasons, a scan looks, a prune forgets. *)
(* A scan never takes anything out of what it keeps, and forgets an item   *)
(* only in exchange for a new one at the same file and category.  The      *)
(* calls over .codefit-baseline implement it as long as they come one at a *)
(* time (BaselineStore).                                                   *)
(***************************************************************************)
EXTENDS Naturals, FiniteSets

CONSTANTS FP, Verdict, Helper,
  SameLoc(_, _),   \* two fingerprints of one file and category
  Prunable         \* the fingerprints prune's own re-scan covers

VARIABLES
  memory,   \* what is remembered of each fingerprint
  helpers   \* the registered authorization helpers

Nothing == [known |-> FALSE]
Item    == [ack : BOOLEAN, verdicts : SUBSET Verdict]
New     == [ack |-> FALSE, verdicts |-> {}]
Known   == {f \in FP : memory[f] # Nothing}

MInit ==
  /\ memory = [f \in FP |-> Nothing]
  /\ helpers = {}

Decide ==
  /\ \E D \in SUBSET Known :
       memory' = [f \in FP |-> IF f \in D THEN [memory[f] EXCEPT !.ack = TRUE] ELSE memory[f]]
  /\ UNCHANGED helpers

Reason ==
  /\ \E D \in SUBSET FP, v \in Verdict :
       memory' = [f \in FP |->
                    IF f \notin D THEN memory[f]
                    ELSE IF f \in Known THEN [memory[f] EXCEPT !.verdicts = @ \cup {v}]
                    ELSE [New EXCEPT !.verdicts = {v}]]
  /\ UNCHANGED helpers

Here(S, g) == {f \in S : SameLoc(f, g)}

Look ==
  /\ \E found \in SUBSET (FP \ Known), lost \in SUBSET Known :
       /\ \A g \in lost : Cardinality(Here(lost, g)) <= Cardinality(Here(found, g))
       /\ memory' = [f \in FP |-> IF f \in found THEN New
                                  ELSE IF f \in lost THEN Nothing ELSE memory[f]]
  /\ UNCHANGED helpers

Forget ==
  /\ \E lost \in SUBSET (Known \cap Prunable) :
       memory' = [f \in FP |-> IF f \in lost THEN Nothing ELSE memory[f]]
  /\ UNCHANGED helpers

Recognise ==
  /\ \E h \in Helper : helpers' \in {helpers \cup {h}, helpers \ {h}}
  /\ UNCHANGED memory

MNext == Decide \/ Reason \/ Look \/ Forget \/ Recognise

MSpec == MInit /\ [][MNext]_<<memory, helpers>>
=============================================================================
