--------------------------- MODULE MCVerdictScore ---------------------------
(* An operation of a handler, two queries in loops, and a finding of the schema. *)
EXTENDS VerdictScore, TLC

CONSTANTS idor1, loop1, loop2

MCItem       == {idor1, loop1, loop2}
MCCategoryOf == [i \in MCItem |-> IF i = idor1 THEN "idor" ELSE "nplus1"]
MCFinding    == {"noKey"}
MCFileOf     == [c \in MCItem |-> IF c = idor1 THEN "view" ELSE "list"] @@ ("noKey" :> "schema")
MCDimension  == [f \in MCFinding |-> "db"]
MCSeverity   == [f \in MCFinding |-> "critical"]

MCScopes  == {{"view", "list", "schema"}, {"view"}}
MCWeights == {[security |-> 35, db |-> 20]}

\* The severities and confidences that decide which verdict counts and what it costs.
MCVerdicts ==
  {[verdict |-> "vulnerable", confidence |-> 60, severity |-> "none"],
   [verdict |-> "vulnerable", confidence |-> 60, severity |-> "low"],
   [verdict |-> "vulnerable", confidence |-> 90, severity |-> "none"],
   [verdict |-> "uncertain",  confidence |-> 90, severity |-> "none"]}

\* The two loops are alike.
MCSymmetry == Permutations({loop1, loop2})
=============================================================================
