---------------------------- MODULE VerdictScore ----------------------------
(***************************************************************************)
(* How the scores of scan-all come about: the deterministic findings, the  *)
(* verdicts agents recorded on surface items (verdictFindings), and the    *)
(* weighted mean over the dimensions that were measured (core/scoring).    *)
(*                                                                         *)
(* The calls come one at a time: the baseline is what AuditMemory promises *)
(* it to be.                                                               *)
(***************************************************************************)
EXTENDS Integers, Sequences, FiniteSets

CONSTANTS
  Item,         \* surface items of the security sensor
  CategoryOf,   \* "idor", "authz", "overfetch" or "nplus1"
  FileOf,       \* of an item or a finding
  Finding,      \* deterministic findings
  DimensionOf,  \* "security" or "db"
  SeverityOf,
  Scopes,       \* what a walk may look at: sets of files
  Weights,      \* the weight maps a configuration may give
  Verdicts,     \* what an agent may record of an item
  MaxVerdicts   \* bound: the verdicts in the baseline

VARIABLES
  code,      \* the items and findings an analysis of all the project would yield
  known,     \* the items listed in the baseline
  acked,     \* those a human accepted
  verdicts,  \* the verdicts recorded of each, oldest first
  answer     \* of the last call, if it was a scan

vars == <<code, known, acked, verdicts, answer>>

Severity  == {"critical", "high", "medium", "low", "info"}
Dimension == {"security", "db"}     \* those scan-all measures

ASSUME VerdictAssumption ==
  /\ IsFiniteSet(Item) /\ IsFiniteSet(Finding) /\ Item \cap Finding = {}
  /\ CategoryOf \in [Item -> {"idor", "authz", "overfetch", "nplus1"}]
  /\ DimensionOf \in [Finding -> Dimension]
  /\ SeverityOf \in [Finding -> Severity]
  \* negative ones pass the validation too; no configuration would mean them
  /\ \A w \in Weights : DOMAIN w \subseteq Dimension /\ \A d \in DOMAIN w : w[d] \in Nat
  \* confidence in hundredths; "none": the agent gave no severity, or none that exists
  /\ Verdicts \subseteq [verdict    : {"vulnerable", "not_vulnerable", "uncertain"},
                         confidence : 0 .. 100,
                         severity   : Severity \cup {"none"}]

-----------------------------------------------------------------------------
(* From verdicts to findings. *)

\* Mutant: an uncertain verdict scores too.
VulnerableOrUncertain(vs) == {k \in DOMAIN vs : vs[k].verdict # "not_vulnerable"}

Vulnerable(vs) == {k \in DOMAIN vs : vs[k].verdict = "vulnerable"}

\* Mutant: the last one, however sure.
MostConfidentLast(confidence) ==
  CHOOSE k \in DOMAIN confidence : \A j \in DOMAIN confidence : j <= k

\* The verdict with the highest confidence, the last of those with as high a one.
MostConfident(confidence) ==
  CHOOSE k \in DOMAIN confidence :
    \A j \in DOMAIN confidence :
      confidence[j] < confidence[k] \/ (confidence[j] = confidence[k] /\ j <= k)

\* Which of the verdicts counts.
strongestVulnerable(vs) == MostConfident([k \in Vulnerable(vs) |-> vs[k].confidence])

DefaultSeverity(category) == IF category \in {"idor", "authz"} THEN "high" ELSE "medium"

SeverityFor(i, v) == IF v.severity = "none" THEN DefaultSeverity(CategoryOf[i]) ELSE v.severity

DimensionFor(i) == IF CategoryOf[i] = "nplus1" THEN "db" ELSE "security"

\* The items seen whose recorded verdicts count.
Confirmed(seen) == {i \in (seen \cap known) \ acked : Vulnerable(verdicts[i]) # {}}

\* Mutant: each vulnerable verdict of an item becomes a finding.
VerdictFindingsOfAll(seen) ==
  UNION {{<<i, k>> : k \in Vulnerable(verdicts[i])} : i \in Confirmed(seen)}

\* The findings that verdicts become: an item and the verdict that counts.
VerdictFindings(seen) == {<<i, strongestVulnerable(verdicts[i])>> : i \in Confirmed(seen)}

VerdictSeverity(x) == SeverityFor(x[1], verdicts[x[1]][x[2]])

\* Mutant: what has no dimension to score in is dropped.
NotScoredDropped(seen, measured) == 0

NotScored(seen, measured) ==
  Cardinality({x \in VerdictFindings(seen) : DimensionFor(x[1]) \notin measured})

-----------------------------------------------------------------------------
(* Scores. *)

\* The points that n findings of each severity cost.
PenaltyOf(n) ==
  20 * n["critical"] + 10 * n["high"] + 5 * n["medium"] + 2 * n["low"]

\* The findings of a dimension, by severity.
Counts(seen, d) ==
  LET asserted == {f \in seen \cap Finding : DimensionOf[f] = d}
      reasoned == {x \in VerdictFindings(seen) : DimensionFor(x[1]) = d}
  IN  [s \in Severity |-> Cardinality({f \in asserted : SeverityOf[f] = s})
                            + Cardinality({x \in reasoned : VerdictSeverity(x) = s})]

DimensionScore(seen, d) ==
  LET penalty == PenaltyOf(Counts(seen, d))
  IN  IF penalty > 100 THEN 0 ELSE 100 - penalty

TotalWeight(measured, w) ==
  (IF "security" \in measured THEN w["security"] ELSE 0) + (IF "db" \in measured THEN w["db"] ELSE 0)

\* Mutant: the mean is over the whole of the weights.
GlobalOverAll(score, measured, w) ==
  ((IF "security" \in measured THEN score["security"] * w["security"] ELSE 0)
     + (IF "db" \in measured THEN score["db"] * w["db"] ELSE 0)) \div 100

\* The mean of the scores of the measured dimensions, by their weights.
Global(score, measured, w) ==
  IF TotalWeight(measured, w) <= 0 THEN 0
  ELSE ((IF "security" \in measured THEN score["security"] * w["security"] ELSE 0)
         + (IF "db" \in measured THEN score["db"] * w["db"] ELSE 0)) \div TotalWeight(measured, w)

Compute(seen, measured, w) ==
  LET score == [d \in measured |-> DimensionScore(seen, d)]
  IN  [seen |-> seen, weights |-> w, by |-> score, global |-> Global(score, measured, w),
       notScored |-> NotScored(seen, measured)]

-----------------------------------------------------------------------------
(* The calls. *)

NoAnswer == [seen |-> {}, weights |-> <<>>, by |-> <<>>, global |-> 0, notScored |-> 0]

Init ==
  /\ code \in SUBSET (Item \cup Finding)
  /\ known = {} /\ acked = {}
  /\ verdicts = [i \in Item |-> <<>>]
  /\ answer = NoAnswer

\* The security sensor looks at the files in scope; the DB sensor at all its schema.
Seen(measured, scope) ==
  (IF "security" \in measured
     THEN {c \in code : FileOf[c] \in scope /\ (c \in Item \/ DimensionOf[c] = "security")} ELSE {})
    \cup (IF "db" \in measured THEN {f \in code \cap Finding : DimensionOf[f] = "db"} ELSE {})

Here(S, i) == {j \in S : FileOf[j] = FileOf[i] /\ CategoryOf[j] = CategoryOf[i]}

\* What a scan may replace: at each place as many of the gone items as there are new ones.
Replaced(measured, scope) ==
  LET seen == Seen(measured, scope)
      new  == (seen \cap Item) \ known
      gone == {i \in known \ seen : "security" \in measured /\ FileOf[i] \in scope}
      few(m, n) == IF m <= n THEN m ELSE n
  IN  {R \in SUBSET gone :
         \A i \in gone :
           Cardinality(Here(R, i)) = few(Cardinality(Here(gone, i)), Cardinality(Here(new, i)))}

\* An item leaves the baseline with all that was recorded of it.
Drop(lost) ==
  /\ verdicts' = [i \in Item |-> IF i \in lost THEN <<>> ELSE verdicts[i]]
  /\ acked' = acked \ lost

\* A scan that measures something.  The scores are of the baseline as it was loaded.
Scan ==
  /\ \E measured \in SUBSET Dimension \ {{}}, scope \in Scopes, w \in Weights :
       /\ measured \subseteq DOMAIN w     \* MissingWeights
       /\ answer' = Compute(Seen(measured, scope), measured, w)
       /\ \E replaced \in Replaced(measured, scope) :
            /\ known' = (known \ replaced) \cup (Seen(measured, scope) \cap Item)
            /\ Drop(replaced)
  /\ UNCHANGED code

\* A batch is recorded one item after the other.
RecordVerdict ==
  /\ Cardinality(UNION {{i} \X DOMAIN verdicts[i] : i \in Item}) < MaxVerdicts
  /\ \E i \in code \cap Item, v \in Verdicts :
       /\ verdicts' = [verdicts EXCEPT ![i] = Append(@, v)]
       /\ known' = known \cup {i}
  /\ answer' = NoAnswer
  /\ UNCHANGED <<code, acked>>

Accept ==
  /\ \E D \in SUBSET known : acked' = acked \cup D
  /\ answer' = NoAnswer
  /\ UNCHANGED <<code, known, verdicts>>

\* All the gone items, or those the call names.
Prune ==
  /\ \E lost \in SUBSET (known \ code) : known' = known \ lost /\ Drop(lost)
  /\ answer' = NoAnswer
  /\ UNCHANGED code

Edit ==
  /\ \E c \in Item \cup Finding : code' \in {code \cup {c}, code \ {c}}
  /\ answer' = NoAnswer
  /\ UNCHANGED <<known, acked, verdicts>>

Next == Scan \/ RecordVerdict \/ Accept \/ Prune \/ Edit

Spec == Init /\ [][Next]_vars

-----------------------------------------------------------------------------
TypeOK ==
  /\ code \subseteq Item \cup Finding
  /\ known \subseteq Item /\ acked \subseteq known
  /\ verdicts \in [Item -> Seq(Verdicts)]

\* The score each dimension would have in a scan of everything now.
Standing(d) == DimensionScore(code, d)

Recorded(i, v) == verdicts'[i] = Append(verdicts[i], v)

\* An agent's word that an item is fine, or that it does not know, changes no score,
\* whatever was said of the item before.
DismissalsCountNothing ==
  [][\A i \in Item, v \in Verdicts :
       Recorded(i, v) /\ v.verdict # "vulnerable" => \A d \in Dimension : Standing(d)' = Standing(d)]_vars

\* One item is one defect: a second agent that says the same as the one that counts
\* changes no score.
AgreementCountsOnce ==
  [][\A i \in Item, v \in Verdicts :
       Recorded(i, v) /\ i \in Confirmed(Item) /\ v = verdicts[i][strongestVulnerable(verdicts[i])]
         => \A d \in Dimension : Standing(d)' = Standing(d)]_vars

\* As long as the code stays, a score goes up only by a human's decision, or by an agent
\* that is as sure of a milder judgment as any that found the item vulnerable.
RaisedByDecision ==
  [][UNCHANGED <<code, acked>> /\ (\E d \in Dimension : Standing(d)' > Standing(d)) =>
       \E i \in Confirmed(code), v \in Verdicts :
         /\ Recorded(i, v) /\ v.verdict = "vulnerable"
         /\ \A k \in Vulnerable(verdicts[i]) : verdicts[i][k].confidence <= v.confidence]_vars

\* A verdict on an open item of a dimension that was not measured is declared, and one of
\* a dimension that was costs it, unless it costs nothing.
VerdictsDeclared ==
  \A i \in Confirmed(answer.seen) :
    IF DimensionFor(i) \in DOMAIN answer.by
    THEN answer.by[DimensionFor(i)] = 100
           => verdicts[i][strongestVulnerable(verdicts[i])].severity = "info"
    ELSE answer.notScored > 0

\* The global score lies between those of the measured dimensions: what was not measured
\* neither raises nor lowers it.  (A configuration may give what is measured no weight at
\* all: the global score is 0 then, whatever was found.)
GlobalBetween ==
  /\ answer # NoAnswer
  /\ TotalWeight(DOMAIN answer.by, answer.weights) > 0
  => /\ \E d \in DOMAIN answer.by : answer.by[d] <= answer.global
     /\ \E d \in DOMAIN answer.by : answer.global <= answer.by[d]
=============================================================================
