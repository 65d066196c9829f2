-------------------------- MODULE BaselineInstance --------------------------
(* A small project for TLC: two questions of one handler (an edit can replace *)
(* one with the other), a deterministic finding in its code, one in a schema  *)
(* file, and a question of the code x schema cross anchored in that file.     *)
EXTENDS Baseline, TLC

CONSTANTS q1, q2, s1, d1, x1

MCFile       == {"route", "schema", "migration"}
MCCategoryOf == [f \in FP |-> CASE f \in {q1, q2} -> "idor" [] f = s1 -> "security"
                                [] f = d1 -> "DB-050" [] OTHER -> "DB-010"]
MCFileOf     == [f \in FP |-> IF f \in {q1, q2, s1} THEN "route" ELSE "schema"]
MCWrittenIn  == [f \in MCFile |-> IF f = "route" THEN "typescript" ELSE "sql"]
MCAffirming  == FP \cap {s1, d1}
MCSymmetry   == Permutations({q1, q2})
=============================================================================
