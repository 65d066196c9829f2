------------------------- MODULE VerdictScoreProofs -------------------------
(***************************************************************************)
(* The scores of scan-all, for every project, verdict history and weight   *)
(* map: which verdict counts, that a dismissal counts nothing, that what   *)
(* an agent confirmed is scored or declared, and that the global score is  *)
(* a mean of what was measured.                                            *)
(***************************************************************************)
EXTENDS VerdictScore, FiniteSetTheorems, WellFoundedInduction, TLAPS

-----------------------------------------------------------------------------
(* Which verdict counts. *)

\* A set of numbers has a least one.
LEMMA Least ==
  ASSUME NEW S \in SUBSET Nat, S # {}
  PROVE  \E n \in S : \A m \in S : n <= m
<1>1. PICK n \in S : \A m \in S : ~ (<<m, n>> \in OpToRel(<, Nat))
  BY NatLessThanWellFounded, WFMin
<1>2. \A m \in S : ~ (m < n)
  BY <1>1 DEF OpToRel
<1> QED
  BY <1>2

\* Of some verdicts one is the most confident, and the last of those.
LEMMA MostConfidentExists ==
  ASSUME NEW V \in SUBSET Nat, V # {}, NEW n \in Nat, \A k \in V : k <= n,
         NEW conf \in [V -> 0 .. 100]
  PROVE  /\ MostConfident(conf) \in V
         /\ \A j \in V : \/ conf[j] < conf[MostConfident(conf)]
                         \/ conf[j] = conf[MostConfident(conf)] /\ j <= MostConfident(conf)
<1> DEFINE Doubt == {100 - conf[k] : k \in V}
<1>1. \A k \in V : k \in Nat /\ n - k \in Nat /\ conf[k] \in Nat /\ 100 - conf[k] \in Nat
  <2> SUFFICES ASSUME NEW k \in V
               PROVE  k \in Nat /\ n - k \in Nat /\ conf[k] \in Nat /\ 100 - conf[k] \in Nat
    OBVIOUS
  <2>1. k \in Nat /\ k <= n /\ conf[k] \in 0 .. 100
    OBVIOUS
  <2> QED
    BY <2>1
<1>2. PICK b \in V : \A k \in V : conf[k] <= conf[b]
  <2>1. Doubt \in SUBSET Nat /\ Doubt # {}
    BY <1>1
  <2>2. PICK d \in Doubt : \A m \in Doubt : d <= m
    BY <2>1, Least
  <2>3. PICK b \in V : d = 100 - conf[b]
    BY <2>2
  <2>4. \A k \in V : 100 - conf[b] <= 100 - conf[k]
    BY <2>2, <2>3
  <2> QED
    BY <1>1, <2>4
<1> DEFINE Surest == {k \in V : conf[k] = conf[b]}
           Back   == {n - k : k \in Surest}
<1>3. PICK c \in Surest : \A k \in Surest : k <= c
  <2>1. Back \in SUBSET Nat /\ Back # {}
    BY <1>1
  <2>2. PICK d \in Back : \A m \in Back : d <= m
    BY <2>1, Least
  <2>3. PICK c \in Surest : d = n - c
    BY <2>2
  <2>4. \A k \in Surest : n - c <= n - k
    BY <2>2, <2>3
  <2> QED
    BY <1>1, <2>4
<1>4. c \in V /\ \A j \in V : conf[j] < conf[c] \/ (conf[j] = conf[c] /\ j <= c)
  BY <1>1, <1>2, <1>3
<1>5. DOMAIN conf = V
  OBVIOUS
<1>6. \E k \in DOMAIN conf : \A j \in DOMAIN conf :
        conf[j] < conf[k] \/ (conf[j] = conf[k] /\ j <= k)
  BY <1>4, <1>5
<1>7. /\ MostConfident(conf) \in DOMAIN conf
      /\ \A j \in DOMAIN conf : \/ conf[j] < conf[MostConfident(conf)]
                                \/ conf[j] = conf[MostConfident(conf)] /\ j <= MostConfident(conf)
  BY <1>6, Zenon DEF MostConfident
<1> QED
  BY <1>5, <1>7

\* And there is only one such.
LEMMA MostConfidentIs ==
  ASSUME NEW V \in SUBSET Nat, NEW n \in Nat, \A k \in V : k <= n,
         NEW conf \in [V -> 0 .. 100], NEW k \in V,
         \A j \in V : conf[j] < conf[k] \/ (conf[j] = conf[k] /\ j <= k)
  PROVE  MostConfident(conf) = k
<1> DEFINE c == MostConfident(conf)
<1>1. /\ c \in V
      /\ conf[k] < conf[c] \/ (conf[k] = conf[c] /\ k <= c)
  BY MostConfidentExists
<1> HIDE DEF c
<1>2. conf[c] \in Nat /\ conf[k] \in Nat /\ c \in Nat /\ k \in Nat
  BY <1>1
<1>3. conf[c] < conf[k] \/ (conf[c] = conf[k] /\ c <= k)
  BY <1>1
<1> QED
  BY <1>1, <1>2, <1>3 DEF c

\* The verdict that counts is one of the vulnerable ones.
LEMMA StrongestIsVulnerable ==
  ASSUME NEW vs \in Seq(Verdicts), Vulnerable(vs) # {}
  PROVE  strongestVulnerable(vs) \in Vulnerable(vs)
<1> DEFINE V == Vulnerable(vs)
           conf == [k \in V |-> vs[k].confidence]
<1>1. V \in SUBSET Nat /\ Len(vs) \in Nat /\ \A k \in V : k <= Len(vs)
  BY DEF Vulnerable
<1>2. conf \in [V -> 0 .. 100]
  BY VerdictAssumption DEF Vulnerable
<1>3. MostConfident(conf) \in V
  BY <1>1, <1>2, MostConfidentExists
<1> QED
  BY <1>3 DEF strongestVulnerable

\* A dismissal leaves the verdict that counts where it is.
LEMMA DismissalKeepsStrongest ==
  ASSUME NEW vs \in Seq(Verdicts), NEW v \in Verdicts, v.verdict # "vulnerable"
  PROVE  /\ Vulnerable(Append(vs, v)) = Vulnerable(vs)
         /\ strongestVulnerable(Append(vs, v)) = strongestVulnerable(vs)
         /\ \A k \in Vulnerable(vs) : Append(vs, v)[k] = vs[k]
<1>1. \A k \in Vulnerable(vs) : Append(vs, v)[k] = vs[k]
  BY DEF Vulnerable
<1>2. Vulnerable(Append(vs, v)) = Vulnerable(vs)
  BY DEF Vulnerable
<1>3. [k \in Vulnerable(vs) |-> Append(vs, v)[k].confidence] = [k \in Vulnerable(vs) |-> vs[k].confidence]
  BY <1>1
<1> QED
  BY <1>1, <1>2, <1>3 DEF strongestVulnerable

-----------------------------------------------------------------------------
(* Scores are numbers between 0 and 100. *)

\* Finitely many findings come of what is seen.
LEMMA FindingsFinite ==
  ASSUME TypeOK, NEW seen
  PROVE  IsFiniteSet(VerdictFindings(seen)) /\ IsFiniteSet(seen \cap Finding)
<1>1. IsFiniteSet(seen \cap Finding)
  BY VerdictAssumption, FS_Subset
<1> DEFINE C == Confirmed(seen)
           of == [i \in C |-> <<i, strongestVulnerable(verdicts[i])>>]
<1>2. IsFiniteSet(C)
  BY VerdictAssumption, FS_Subset DEF Confirmed, TypeOK
<1>3. of \in Surjection(C, VerdictFindings(seen))
  BY Zenon DEF Surjection, VerdictFindings
<1> QED
  BY <1>1, <1>2, <1>3, FS_Surjection

\* They are counted by natural numbers.
LEMMA CountsType ==
  ASSUME TypeOK, NEW seen, NEW d
  PROVE  Counts(seen, d) \in [Severity -> Nat]
<1> DEFINE asserted == {f \in seen \cap Finding : DimensionOf[f] = d}
           reasoned == {x \in VerdictFindings(seen) : DimensionFor(x[1]) = d}
<1>1. IsFiniteSet(asserted) /\ IsFiniteSet(reasoned)
  BY FindingsFinite, FS_Subset
<1>2. \A s \in Severity :
        /\ Cardinality({f \in asserted : SeverityOf[f] = s}) \in Nat
        /\ Cardinality({x \in reasoned : VerdictSeverity(x) = s}) \in Nat
  BY <1>1, FS_Subset, FS_CardinalityType
<1> HIDE DEF asserted, reasoned
<1>3. [s \in Severity |-> Cardinality({f \in asserted : SeverityOf[f] = s})
                            + Cardinality({x \in reasoned : VerdictSeverity(x) = s})] \in [Severity -> Nat]
  BY <1>2
<1> QED
  BY <1>3 DEF Counts, asserted, reasoned

\* A dimension scores between 0 and 100.
LEMMA ScoreType ==
  ASSUME TypeOK, NEW seen, NEW d
  PROVE  DimensionScore(seen, d) \in 0 .. 100
<1> DEFINE n == Counts(seen, d)
<1>1. n["critical"] \in Nat /\ n["high"] \in Nat /\ n["medium"] \in Nat /\ n["low"] \in Nat
  BY CountsType DEF Severity
<1>2. PenaltyOf(n) \in Nat
  BY <1>1 DEF PenaltyOf
<1> QED
  BY <1>2 DEF DimensionScore

-----------------------------------------------------------------------------
(* The weighted mean. *)

\* What the integer quotient is.
LEMMA DivBounds ==
  ASSUME NEW x \in Nat, NEW n \in Nat, n > 0
  PROVE  /\ x \div n \in Nat
         /\ n * (x \div n) <= x
         /\ x < n * (x \div n) + n
OBVIOUS

\* A weighted mean of two numbers, rounded down, lies between them.
LEMMA MeanBetween ==
  ASSUME NEW a \in Nat, NEW b \in Nat, a <= b, NEW v \in Nat, NEW w \in Nat, v + w > 0
  PROVE  LET m == (a * v + b * w) \div (v + w) IN m \in Nat /\ a <= m /\ m <= b
<1> DEFINE x == a * v + b * w
           n == v + w
           m == x \div n
<1>1. x \in Nat /\ n \in Nat /\ n > 0
  OBVIOUS
<1>2. a * n <= x /\ x <= b * n
  <2>1. (b - a) * w >= 0 /\ (b - a) * v >= 0
    OBVIOUS
  <2>2. x = a * n + (b - a) * w /\ b * n = x + (b - a) * v
    OBVIOUS
  <2>3. a * n \in Nat /\ b * n \in Nat /\ (b - a) * w \in Nat /\ (b - a) * v \in Nat
    BY <2>1
  <2> QED
    BY <1>1, <2>1, <2>2, <2>3
<1> HIDE DEF x, n
<1>3. m \in Nat /\ n * m <= x /\ x < n * m + n
  BY <1>1, DivBounds
<1> HIDE DEF m
<1>4. a <= m
  <2>1. ASSUME m + 1 <= a PROVE FALSE
    <3>1. n * (m + 1) <= n * a
      BY <1>1, <1>3, <2>1
    <3>2. n * (m + 1) = n * m + n /\ n * a = a * n
      BY <1>1, <1>3
    <3> QED
      BY <1>1, <1>2, <1>3, <3>1, <3>2
  <2> QED
    BY <1>3, <2>1
<1>5. m <= b
  <2>1. ASSUME b + 1 <= m PROVE FALSE
    <3>1. n * (b + 1) <= n * m
      BY <1>1, <1>3, <2>1
    <3>2. n * (b + 1) = b * n + n
      BY <1>1
    <3> QED
      BY <1>1, <1>2, <1>3, <3>1, <3>2
  <2> QED
    BY <1>3, <2>1
<1> QED
  BY <1>3, <1>4, <1>5 DEF m, x, n

\* The global score lies between the scores it is computed from.
LEMMA GlobalIsMean ==
  ASSUME NEW measured \in SUBSET Dimension, NEW score \in [measured -> 0 .. 100],
         NEW w \in Weights, measured \subseteq DOMAIN w, TotalWeight(measured, w) > 0
  PROVE  /\ \E d \in measured : score[d] <= Global(score, measured, w)
         /\ \E d \in measured : Global(score, measured, w) <= score[d]
<1>1. \A d \in measured : w[d] \in Nat /\ score[d] \in Nat
  BY VerdictAssumption
<1>2. CASE measured = {"security", "db"}
  <2> DEFINE a == score["security"]  b == score["db"]  v == w["security"]  u == w["db"]
  <2>1. a \in Nat /\ b \in Nat /\ v \in Nat /\ u \in Nat
    BY <1>1, <1>2
  <2>2. v + u > 0 /\ Global(score, measured, w) = (a * v + b * u) \div (v + u)
    BY <1>2, <2>1 DEF Global, TotalWeight
  <2> HIDE DEF a, b, v, u
  <2>3. CASE a <= b
    <3>1. a <= (a * v + b * u) \div (v + u) /\ (a * v + b * u) \div (v + u) <= b
      BY <2>1, <2>2, <2>3, MeanBetween
    <3> QED
      BY <1>2, <2>2, <3>1 DEF a, b
  <2>4. CASE b <= a
    <3>1. b <= (b * u + a * v) \div (u + v) /\ (b * u + a * v) \div (u + v) <= a
      BY <2>1, <2>2, <2>4, MeanBetween
    <3>2. b * u + a * v = a * v + b * u /\ u + v = v + u
      BY <2>1
    <3> QED
      BY <1>2, <2>2, <3>1, <3>2 DEF a, b
  <2> QED
    BY <2>1, <2>3, <2>4
<1>3. ASSUME NEW d \in Dimension, measured = {d}
      PROVE  Global(score, measured, w) = score[d]
  <2> DEFINE a == score[d]  v == w[d]
  <2>1. a \in Nat /\ v \in Nat
    BY <1>1, <1>3
  <2>2. v > 0 /\ Global(score, measured, w) = (a * v) \div v
    BY <1>3, <2>1 DEF Global, TotalWeight, Dimension
  <2> HIDE DEF a, v
  <2>3. a <= (a * v + a * 0) \div (v + 0) /\ (a * v + a * 0) \div (v + 0) <= a
        /\ (a * v + a * 0) \div (v + 0) \in Nat
    BY <2>1, <2>2, MeanBetween
  <2>4. a * v + a * 0 = a * v /\ v + 0 = v
    BY <2>1
  <2> QED
    BY <2>1, <2>2, <2>3, <2>4 DEF a
<1>4. measured # {}
  BY DEF TotalWeight
<1>5. measured = {"security", "db"} \/ \E d \in Dimension : measured = {d}
  BY <1>4 DEF Dimension
<1> QED
  BY <1>1, <1>2, <1>3, <1>5

-----------------------------------------------------------------------------
(* What the calls keep. *)

\* Only listed items have verdicts, and every answer is one to the baseline as it stands:
\* what a scan adds has no verdict yet, and what it replaces was not seen.
Answered ==
  \E seen \in SUBSET (Item \cup Finding), measured \in SUBSET Dimension, w \in Weights :
    measured \subseteq DOMAIN w /\ answer = Compute(seen, measured, w)

VerdictInv ==
  /\ TypeOK
  /\ \A i \in Item \ known : verdicts[i] = <<>>
  /\ answer = NoAnswer \/ Answered

\* The findings that come of what is seen depend on the verdicts of the items seen alone;
\* an item without verdicts may join the baseline.
LEMMA SameFindings ==
  ASSUME NEW seen, \A i \in Item \ known : verdicts[i] = <<>>, known \subseteq Item, known' \subseteq Item,
         \A i \in seen \cap Item : /\ verdicts'[i] = verdicts[i] /\ (i \in acked' <=> i \in acked)
                                   /\ (i \in known => i \in known')
  PROVE  /\ VerdictFindings(seen)' = VerdictFindings(seen)
         /\ \A x \in VerdictFindings(seen) : VerdictSeverity(x)' = VerdictSeverity(x)
<1>1. Vulnerable(<<>>) = {}
  BY DEF Vulnerable
<1> DEFINE C  == {i \in (seen \cap known) \ acked : Vulnerable(verdicts[i]) # {}}
           C1 == {i \in (seen \cap known') \ acked' : Vulnerable(verdicts'[i]) # {}}
<1>2. C1 = C
  BY <1>1
<1>3. \A i \in C : i \in seen \cap Item
  OBVIOUS
<1>4. {<<i, strongestVulnerable(verdicts'[i])>> : i \in C1} = {<<i, strongestVulnerable(verdicts[i])>> : i \in C}
  <2> HIDE DEF C, C1
  <2> QED
    BY <1>2, <1>3
<1>5. VerdictFindings(seen) = {<<i, strongestVulnerable(verdicts[i])>> : i \in C}
  BY DEF VerdictFindings, Confirmed
<1>6. VerdictFindings(seen)' = {<<i, strongestVulnerable(verdicts'[i])>> : i \in C1}
  BY DEF VerdictFindings, Confirmed
<1>7. \A x \in VerdictFindings(seen) : x[1] \in seen \cap Item
  BY <1>3, <1>5
<1> QED
  BY <1>4, <1>5, <1>6, <1>7 DEF VerdictSeverity

\* So does the answer.
LEMMA SameAnswer ==
  ASSUME NEW seen, \A i \in Item \ known : verdicts[i] = <<>>, known \subseteq Item, known' \subseteq Item,
         \A i \in seen \cap Item : /\ verdicts'[i] = verdicts[i] /\ (i \in acked' <=> i \in acked)
                                   /\ (i \in known => i \in known'),
         NEW measured, NEW w
  PROVE  Compute(seen, measured, w)' = Compute(seen, measured, w)
<1>1. /\ VerdictFindings(seen)' = VerdictFindings(seen)
      /\ \A x \in VerdictFindings(seen) : VerdictSeverity(x)' = VerdictSeverity(x)
  BY SameFindings
<1>2. \A d : Counts(seen, d)' = Counts(seen, d)
  BY <1>1 DEF Counts
<1>3. \A d : DimensionScore(seen, d)' = DimensionScore(seen, d)
  BY <1>2 DEF DimensionScore
<1>4. NotScored(seen, measured)' = NotScored(seen, measured)
  BY <1>1 DEF NotScored
<1> QED
  BY <1>3, <1>4 DEF Compute

\* The invariant holds at the start.
LEMMA VerdictInit == Init => VerdictInv
BY DEF Init, VerdictInv, TypeOK

\* Every call and edit preserves it.
LEMMA VerdictStep == VerdictInv /\ [Next]_vars => VerdictInv'
<1> SUFFICES ASSUME VerdictInv, [Next]_vars PROVE VerdictInv'
  OBVIOUS
<1> USE DEF VerdictInv
<1>1. CASE Scan
  <2>1. PICK measured \in SUBSET Dimension, scope \in Scopes, w \in Weights,
             replaced \in SUBSET known :
          /\ replaced \in Replaced(measured, scope)
          /\ measured \subseteq DOMAIN w
          /\ answer' = Compute(Seen(measured, scope), measured, w)
          /\ known' = (known \ replaced) \cup (Seen(measured, scope) \cap Item)
          /\ Drop(replaced)
    BY <1>1 DEF Scan, Replaced
  <2>2. PICK seen \in SUBSET (Item \cup Finding) : seen = Seen(measured, scope)
    BY DEF Seen, TypeOK
  <2>3. replaced \subseteq known \ seen
    BY <2>1, <2>2 DEF Replaced
  <2>4. UNCHANGED code /\ known' = (known \ replaced) \cup (seen \cap Item) /\ acked' = acked \ replaced
        /\ verdicts' = [i \in Item |-> IF i \in replaced THEN <<>> ELSE verdicts[i]]
    BY <1>1, <2>1, <2>2 DEF Scan, Drop
  <2>5. known' \subseteq Item /\ known \subseteq Item
    BY <2>4 DEF TypeOK
  <2>6. \A i \in seen \cap Item : /\ verdicts'[i] = verdicts[i] /\ (i \in acked' <=> i \in acked)
                                  /\ (i \in known => i \in known')
    BY <2>3, <2>4
  <2>7. Compute(seen, measured, w)' = Compute(seen, measured, w)
    BY <2>5, <2>6, SameAnswer
  <2>8. Answered'
    BY <2>1, <2>2, <2>7 DEF Answered
  <2>9. TypeOK' /\ \A i \in Item \ known' : verdicts'[i] = <<>>
    BY <2>3, <2>4, <2>5 DEF TypeOK
  <2> QED
    BY <2>8, <2>9
<1>2. CASE RecordVerdict
  BY <1>2 DEF RecordVerdict, TypeOK
<1>3. CASE Accept
  BY <1>3 DEF Accept, TypeOK
<1>4. CASE Prune
  BY <1>4 DEF Prune, Drop, TypeOK
<1>5. CASE Edit
  BY <1>5 DEF Edit, TypeOK
<1>6. CASE UNCHANGED vars
  <2>1. UNCHANGED <<code, known, acked, verdicts, answer>>
    BY <1>6 DEF vars
  <2>2. ASSUME NEW seen, NEW measured, NEW w
        PROVE  Compute(seen, measured, w)' = Compute(seen, measured, w)
    BY <2>1, SameAnswer DEF TypeOK
  <2>3. Answered => Answered'
    BY <2>1, <2>2 DEF Answered
  <2> QED
    BY <2>1, <2>3 DEF TypeOK
<1> QED
  BY <1>1, <1>2, <1>3, <1>4, <1>5, <1>6 DEF Next

\* Only listed items have verdicts, and every answer is one to the baseline as it stands.
THEOREM VerdictsInvariant == Spec => []VerdictInv
BY VerdictInit, VerdictStep, PTL DEF Spec

\* The global score lies between those of what was measured, for every finding, verdict
\* history and weight map.
LEMMA BetweenHolds == VerdictInv => GlobalBetween
<1> SUFFICES ASSUME VerdictInv, answer # NoAnswer, TotalWeight(DOMAIN answer.by, answer.weights) > 0
             PROVE  /\ \E d \in DOMAIN answer.by : answer.by[d] <= answer.global
                    /\ \E d \in DOMAIN answer.by : answer.global <= answer.by[d]
  BY DEF GlobalBetween
<1>1. PICK seen \in SUBSET (Item \cup Finding), measured \in SUBSET Dimension, w \in Weights :
        measured \subseteq DOMAIN w /\ answer = Compute(seen, measured, w)
  BY DEF VerdictInv, Answered
<1> DEFINE score == [d \in measured |-> DimensionScore(seen, d)]
<1>2. score \in [measured -> 0 .. 100]
  BY ScoreType DEF VerdictInv
<1>3. answer.by = score /\ answer.weights = w /\ answer.global = Global(score, measured, w)
  BY <1>1 DEF Compute
<1> HIDE DEF score
<1>4. DOMAIN answer.by = measured
  BY <1>2, <1>3
<1> QED
  BY <1>1, <1>2, <1>3, <1>4, GlobalIsMean

\* No dimension that was not measured moves the global score out of the range of those that were.
THEOREM GlobalAlwaysBetween == Spec => []GlobalBetween
BY VerdictsInvariant, BetweenHolds, PTL

\* A confirmed item of a measured dimension costs it, and one of another is declared.
LEMMA DeclaredHolds == VerdictInv => VerdictsDeclared
<1> SUFFICES ASSUME VerdictInv, NEW i \in Confirmed(answer.seen)
             PROVE  IF DimensionFor(i) \in DOMAIN answer.by
                    THEN answer.by[DimensionFor(i)] = 100
                           => verdicts[i][strongestVulnerable(verdicts[i])].severity = "info"
                    ELSE answer.notScored > 0
  BY DEF VerdictsDeclared
<1>1. answer # NoAnswer
  BY DEF NoAnswer, Confirmed
<1>2. PICK seen \in SUBSET (Item \cup Finding), measured \in SUBSET Dimension, w \in Weights :
        answer = Compute(seen, measured, w)
  BY <1>1 DEF VerdictInv, Answered
<1>3. /\ answer.seen = seen /\ answer.notScored = NotScored(seen, measured)
      /\ answer.by = [d \in measured |-> DimensionScore(seen, d)]
  BY <1>2 DEF Compute
<1> DEFINE d == DimensionFor(i)
           k == strongestVulnerable(verdicts[i])
           x == <<i, k>>
<1>4. /\ i \in Item /\ verdicts[i] \in Seq(Verdicts) /\ k \in Vulnerable(verdicts[i])
      /\ x \in VerdictFindings(seen)
  BY <1>3, StrongestIsVulnerable DEF Confirmed, VerdictFindings, VerdictInv, TypeOK
<1>5. verdicts[i][k] \in Verdicts /\ VerdictSeverity(x) = SeverityFor(i, verdicts[i][k])
  BY <1>4 DEF Vulnerable, VerdictSeverity
<1> HIDE DEF d, k, x
<1>6. CASE d \in measured
  <2> DEFINE s == VerdictSeverity(x)
             reasoned == {y \in VerdictFindings(seen) : DimensionFor(y[1]) = d}
             asserted == {f \in seen \cap Finding : DimensionOf[f] = d}
             A == {f \in asserted : SeverityOf[f] = s}
             B == {y \in reasoned : VerdictSeverity(y) = s}
             n == Counts(seen, d)
  <2>1. s \in Severity /\ (s = "info" => verdicts[i][k].severity = "info")
    BY <1>4, <1>5, VerdictAssumption DEF SeverityFor, DefaultSeverity, Severity
  <2>2. x \in B
    BY <1>4 DEF d, x
  <2>3. IsFiniteSet(A) /\ IsFiniteSet(B)
    BY FindingsFinite, FS_Subset DEF VerdictInv
  <2>4. Cardinality(A) \in Nat /\ Cardinality(B) \in Nat /\ Cardinality(B) # 0
    BY <2>2, <2>3, FS_CardinalityType, FS_EmptySet
  <2>5. n[s] = Cardinality(A) + Cardinality(B)
    BY <2>1 DEF Counts
  <2>6. n \in [Severity -> Nat] /\ n[s] > 0
    <3>1. n[s] > 0
      BY <2>4, <2>5
    <3> QED
      BY <3>1, CountsType DEF VerdictInv
  <2> HIDE DEF n, s
  <2>7. s # "info" => PenaltyOf(n) > 0
    <3>1. n["critical"] \in Nat /\ n["high"] \in Nat /\ n["medium"] \in Nat /\ n["low"] \in Nat
      BY <2>6 DEF Severity
    <3>2. s \in {"critical", "high", "medium", "low", "info"} /\ n[s] > 0
      BY <2>1, <2>6 DEF Severity
    <3>3. s # "info" => n["critical"] > 0 \/ n["high"] > 0 \/ n["medium"] > 0 \/ n["low"] > 0
      BY <3>2
    <3> QED
      BY <3>1, <3>3 DEF PenaltyOf
  <2>8. DimensionScore(seen, d) = IF PenaltyOf(n) > 100 THEN 0 ELSE 100 - PenaltyOf(n)
    BY DEF DimensionScore, n
  <2>9. PenaltyOf(n) \in Nat
    BY <2>6 DEF PenaltyOf, Severity
  <2>10. s # "info" => DimensionScore(seen, d) # 100
    BY <2>7, <2>8, <2>9
  <2> QED
    BY <1>3, <1>6, <2>1, <2>10 DEF d, k
<1>7. CASE d \notin measured
  <2> DEFINE N == {y \in VerdictFindings(seen) : DimensionFor(y[1]) \notin measured}
  <2>1. x \in N
    BY <1>4, <1>7 DEF d, x
  <2>2. IsFiniteSet(N)
    BY FindingsFinite, FS_Subset DEF VerdictInv
  <2>3. Cardinality(N) \in Nat /\ Cardinality(N) # 0
    BY <2>1, <2>2, FS_CardinalityType, FS_EmptySet
  <2> QED
    BY <1>3, <1>7, <2>3 DEF d, NotScored
<1> QED
  BY <1>6, <1>7

\* No verdict an agent confirmed is lost: the score shows it or the answer declares it.
THEOREM VerdictsAlwaysDeclared == Spec => []VerdictsDeclared
BY VerdictsInvariant, DeclaredHolds, PTL

-----------------------------------------------------------------------------
(* An agent's dismissal. *)

\* A step that records a verdict of an item is the step that records it.
LEMMA RecordingStep ==
  ASSUME VerdictInv, [Next]_vars, NEW i \in Item, NEW v \in Verdicts, Recorded(i, v)
  PROVE  /\ verdicts' = [verdicts EXCEPT ![i] = Append(@, v)]
         /\ known' = known \cup {i} /\ UNCHANGED <<code, acked>>
<1>1. verdicts[i] \in Seq(Verdicts) /\ verdicts \in [Item -> Seq(Verdicts)]
  BY DEF VerdictInv, TypeOK
<1>2. verdicts'[i] # verdicts[i] /\ verdicts'[i] # <<>>
  BY <1>1 DEF Recorded
<1>3. RecordVerdict
  <2>1. UNCHANGED verdicts => FALSE
    BY <1>2
  <2>2. ~ \E lost : Drop(lost)
    BY <1>1, <1>2 DEF Drop
  <2>3. ~ Scan /\ ~ Prune
    BY <2>2, Zenon DEF Scan, Prune
  <2> QED
    BY <2>1, <2>3 DEF Next, Accept, Edit, vars
<1>4. PICK j \in code \cap Item, u \in Verdicts :
        verdicts' = [verdicts EXCEPT ![j] = Append(@, u)] /\ known' = known \cup {j}
  BY <1>3 DEF RecordVerdict
<1>5. j = i
  BY <1>1, <1>2, <1>4
<1>6. verdicts' = [verdicts EXCEPT ![i] = Append(@, v)]
  BY <1>1, <1>4, <1>5 DEF Recorded
<1> QED
  BY <1>3, <1>4, <1>5, <1>6 DEF RecordVerdict

\* Recording a dismissal leaves every score where it is.
LEMMA DismissalStep ==
  ASSUME VerdictInv, [Next]_vars, NEW i \in Item, NEW v \in Verdicts, Recorded(i, v),
         v.verdict # "vulnerable", NEW d
  PROVE  Standing(d)' = Standing(d)
<1>1. /\ verdicts' = [verdicts EXCEPT ![i] = Append(@, v)]
      /\ known' = known \cup {i} /\ UNCHANGED <<code, acked>>
  BY RecordingStep
<1>2. verdicts \in [Item -> Seq(Verdicts)] /\ known \subseteq Item
  BY DEF VerdictInv, TypeOK
<1>3. verdicts'[i] = Append(verdicts[i], v) /\ \A j \in Item \ {i} : verdicts'[j] = verdicts[j]
  BY <1>1, <1>2
<1>4. \A j \in Item :
        /\ Vulnerable(verdicts'[j]) = Vulnerable(verdicts[j])
        /\ strongestVulnerable(verdicts'[j]) = strongestVulnerable(verdicts[j])
        /\ \A k \in Vulnerable(verdicts[j]) : verdicts'[j][k] = verdicts[j][k]
  <2> SUFFICES ASSUME NEW j \in Item
               PROVE  /\ Vulnerable(verdicts'[j]) = Vulnerable(verdicts[j])
                      /\ strongestVulnerable(verdicts'[j]) = strongestVulnerable(verdicts[j])
                      /\ \A k \in Vulnerable(verdicts[j]) : verdicts'[j][k] = verdicts[j][k]
    OBVIOUS
  <2>1. verdicts[j] \in Seq(Verdicts)
    BY <1>2
  <2>2. CASE j = i
    <3> DEFINE vs == verdicts[i]
    <3>1. vs \in Seq(Verdicts)
      BY <2>1, <2>2
    <3> HIDE DEF vs
    <3>2. /\ Vulnerable(Append(vs, v)) = Vulnerable(vs)
          /\ strongestVulnerable(Append(vs, v)) = strongestVulnerable(vs)
          /\ \A k \in Vulnerable(vs) : Append(vs, v)[k] = vs[k]
      BY <3>1, DismissalKeepsStrongest
    <3>3. verdicts'[j] = Append(vs, v) /\ verdicts[j] = vs
      BY <1>3, <2>2 DEF vs
    <3> QED
      BY <3>2, <3>3
  <2>3. CASE j # i
    BY <1>3, <2>3
  <2> QED
    BY <2>2, <2>3
<1>5. i \notin known => Vulnerable(verdicts[i]) = {}
  BY <1>2 DEF VerdictInv, Vulnerable
<1>6. Confirmed(code)' = Confirmed(code)
  BY <1>1, <1>2, <1>4, <1>5 DEF Confirmed
<1>7. VerdictFindings(code)' = VerdictFindings(code)
  <2>1. \A j \in Confirmed(code) :
          strongestVulnerable(verdicts'[j]) = strongestVulnerable(verdicts[j])
    BY <1>2, <1>4 DEF Confirmed
  <2> DEFINE C == Confirmed(code)
  <2>2. {<<j, strongestVulnerable(verdicts'[j])>> : j \in C} = {<<j, strongestVulnerable(verdicts[j])>> : j \in C}
    BY <2>1
  <2>3. VerdictFindings(code)' = {<<j, strongestVulnerable(verdicts'[j])>> : j \in Confirmed(code)'}
    BY <1>1 DEF VerdictFindings
  <2>4. VerdictFindings(code) = {<<j, strongestVulnerable(verdicts[j])>> : j \in C}
    BY DEF VerdictFindings
  <2> QED
    BY <1>6, <2>2, <2>3, <2>4
<1>8. \A x \in VerdictFindings(code) : VerdictSeverity(x)' = VerdictSeverity(x)
  <2> SUFFICES ASSUME NEW x \in VerdictFindings(code)
               PROVE  VerdictSeverity(x)' = VerdictSeverity(x)
    OBVIOUS
  <2>1. PICK j \in Confirmed(code) : x = <<j, strongestVulnerable(verdicts[j])>>
    BY DEF VerdictFindings
  <2>2. j \in Item /\ strongestVulnerable(verdicts[j]) \in Vulnerable(verdicts[j])
    BY <1>2, StrongestIsVulnerable DEF Confirmed
  <2>3. verdicts'[j][x[2]] = verdicts[j][x[2]] /\ x[1] = j
    BY <1>4, <2>1, <2>2
  <2> QED
    BY <2>3 DEF VerdictSeverity
<1>9. Counts(code, d)' = Counts(code, d)
  BY <1>1, <1>7, <1>8 DEF Counts
<1> QED
  BY <1>1, <1>9 DEF Standing, DimensionScore

\* An agent's dismissal or doubt changes no score, whatever the history.
THEOREM DismissalsAlwaysCountNothing == Spec => DismissalsCountNothing
<1>1. VerdictInv /\ [Next]_vars =>
        \A i \in Item, v \in Verdicts :
          Recorded(i, v) /\ v.verdict # "vulnerable" => \A d \in Dimension : Standing(d)' = Standing(d)
  BY DismissalStep
<1> QED
  BY <1>1, VerdictsInvariant, PTL DEF Spec, DismissalsCountNothing

-----------------------------------------------------------------------------
(* A second agent's word, and who may raise a score. *)

\* What an item that a verdict confirmed costs, and the confirmed items that cost as much.
Judged(vs, i) == SeverityFor(i, vs[i][strongestVulnerable(vs[i])])
Costing(vs, C, d, s) == {i \in C : DimensionFor(i) = d /\ Judged(vs, i) = s}

\* Each confirmed item is counted once.
LEMMA CountedOnce ==
  ASSUME NEW vs, NEW C, IsFiniteSet(C), NEW d, NEW s
  PROVE  Cardinality({x \in {<<i, strongestVulnerable(vs[i])>> : i \in C} :
                        DimensionFor(x[1]) = d /\ SeverityFor(x[1], vs[x[1]][x[2]]) = s})
           = Cardinality(Costing(vs, C, d, s))
<1> DEFINE A == Costing(vs, C, d, s)
           at(i) == strongestVulnerable(vs[i])
           B == {x \in {<<i, at(i)>> : i \in C} :
                   DimensionFor(x[1]) = d /\ SeverityFor(x[1], vs[x[1]][x[2]]) = s}
           f == [i \in A |-> <<i, at(i)>>]
<1>1. IsFiniteSet(A)
  BY FS_Subset DEF Costing
<1>2. A = {i \in C : DimensionFor(i) = d /\ SeverityFor(i, vs[i][at(i)]) = s}
  BY DEF Costing, Judged
<1> HIDE DEF A, at
<1>3. \A i \in A : f[i] \in B
  BY <1>2
<1>4. \A x \in B : x[1] \in A /\ f[x[1]] = x
  BY <1>2
<1>5. \A i, j \in A : f[i] = f[j] => i = j
  OBVIOUS
<1> HIDE DEF B
<1>6. f \in Bijection(A, B)
  <2>1. f \in [A -> B]
    BY <1>3
  <2>2. f \in Injection(A, B)
    BY <1>5, <2>1 DEF Injection, IsInjective
  <2>3. f \in Surjection(A, B)
    BY <1>4, <2>1 DEF Surjection
  <2> QED
    BY <2>2, <2>3 DEF Bijection
<1>7. Cardinality(A) = Cardinality(B)
  BY <1>1, <1>6, FS_Bijection DEF ExistsBijection
<1> QED
  BY <1>7 DEF A, B, at

\* The findings of a severity that the code asserts.
Asserted(d, s) == {f \in {g \in code \cap Finding : DimensionOf[g] = d} : SeverityOf[f] = s}

\* What is counted, now and after a step: the findings, and the confirmed items.
LEMMA CountsByItem ==
  ASSUME TypeOK, TypeOK', UNCHANGED code, NEW d, NEW s \in Severity
  PROVE  /\ Counts(code, d)[s] = Cardinality(Asserted(d, s))
                                   + Cardinality(Costing(verdicts, Confirmed(code), d, s))
         /\ Counts(code, d)'[s] = Cardinality(Asserted(d, s))
                                   + Cardinality(Costing(verdicts', Confirmed(code)', d, s))
         /\ IsFiniteSet(Asserted(d, s))
         /\ IsFiniteSet(Confirmed(code)) /\ IsFiniteSet(Confirmed(code)')
<1>1. IsFiniteSet(Confirmed(code)) /\ IsFiniteSet(Confirmed(code)') /\ IsFiniteSet(Asserted(d, s))
  <2>1. Confirmed(code) \subseteq Item /\ Confirmed(code)' \subseteq Item
    BY DEF Confirmed, TypeOK
  <2>2. Asserted(d, s) \subseteq Finding
    BY DEF Asserted
  <2> QED
    BY <2>1, <2>2, VerdictAssumption, FS_Subset
<1> DEFINE B(vs, C) == {x \in {<<i, strongestVulnerable(vs[i])>> : i \in C} :
                          DimensionFor(x[1]) = d /\ SeverityFor(x[1], vs[x[1]][x[2]]) = s}
<1>2. Counts(code, d)[s] = Cardinality(Asserted(d, s)) + Cardinality(B(verdicts, Confirmed(code)))
  <2>1. {x \in {y \in VerdictFindings(code) : DimensionFor(y[1]) = d} : VerdictSeverity(x) = s}
          = B(verdicts, Confirmed(code))
    BY DEF VerdictFindings, VerdictSeverity
  <2> QED
    BY <2>1 DEF Counts, Asserted
<1>3. Counts(code, d)'[s] = Cardinality(Asserted(d, s)) + Cardinality(B(verdicts', Confirmed(code)'))
  <2>1. {x \in {y \in VerdictFindings(code)' : DimensionFor(y[1]) = d} : VerdictSeverity(x)' = s}
          = B(verdicts', Confirmed(code)')
    BY DEF VerdictFindings, VerdictSeverity
  <2> QED
    BY <2>1 DEF Counts, Asserted
<1>4. /\ Cardinality(B(verdicts, Confirmed(code))) = Cardinality(Costing(verdicts, Confirmed(code), d, s))
      /\ Cardinality(B(verdicts', Confirmed(code)')) = Cardinality(Costing(verdicts', Confirmed(code)', d, s))
  BY <1>1, CountedOnce
<1> QED
  BY <1>1, <1>2, <1>3, <1>4

\* A score goes up only if a confirmed item stops costing what it does.
LEMMA NotRaised ==
  ASSUME TypeOK, TypeOK', UNCHANGED code, NEW d,
         \A s \in Severity : Costing(verdicts, Confirmed(code), d, s)
                               \subseteq Costing(verdicts', Confirmed(code)', d, s)
  PROVE  ~ (Standing(d)' > Standing(d))
<1> DEFINE n == Counts(code, d)
           m == Counts(code, d)'
<1>1. \A s \in Severity : n[s] \in Nat /\ m[s] \in Nat /\ n[s] <= m[s]
  <2> SUFFICES ASSUME NEW s \in Severity PROVE n[s] \in Nat /\ m[s] \in Nat /\ n[s] <= m[s]
    OBVIOUS
  <2> DEFINE A == Asserted(d, s)
             C == Costing(verdicts, Confirmed(code), d, s)
             D == Costing(verdicts', Confirmed(code)', d, s)
  <2>1. n[s] = Cardinality(A) + Cardinality(C) /\ m[s] = Cardinality(A) + Cardinality(D)
        /\ IsFiniteSet(A) /\ IsFiniteSet(Confirmed(code)')
    BY CountsByItem
  <2>2. C \subseteq D /\ D \subseteq Confirmed(code)'
    BY DEF Costing
  <2> HIDE DEF A, C, D, n, m
  <2>3. /\ Cardinality(A) \in Nat /\ Cardinality(C) \in Nat /\ Cardinality(D) \in Nat
        /\ Cardinality(C) <= Cardinality(D)
    BY <2>1, <2>2, FS_Subset, FS_CardinalityType
  <2> QED
    BY <2>1, <2>3
<1> HIDE DEF n, m
<1>2. PenaltyOf(n) \in Nat /\ PenaltyOf(m) \in Nat /\ PenaltyOf(n) <= PenaltyOf(m)
  BY <1>1 DEF PenaltyOf, Severity
<1>3. /\ Standing(d) = IF PenaltyOf(n) > 100 THEN 0 ELSE 100 - PenaltyOf(n)
      /\ Standing(d)' = IF PenaltyOf(m) > 100 THEN 0 ELSE 100 - PenaltyOf(m)
  BY DEF Standing, DimensionScore, n, m
<1> QED
  BY <1>2, <1>3

\* It stays where it is if the confirmed items cost what they did.
LEMMA SameStanding ==
  ASSUME TypeOK, TypeOK', UNCHANGED code, NEW d,
         \A s \in Severity : Costing(verdicts, Confirmed(code), d, s)
                               = Costing(verdicts', Confirmed(code)', d, s)
  PROVE  Standing(d)' = Standing(d)
<1> DEFINE n == Counts(code, d)
           m == Counts(code, d)'
<1>1. \A s \in Severity : n[s] = m[s]
  BY CountsByItem
<1> HIDE DEF n, m
<1>2. PenaltyOf(n) = PenaltyOf(m)
  BY <1>1 DEF PenaltyOf, Severity
<1> QED
  BY <1>2 DEF Standing, DimensionScore, n, m

\* A further vulnerable verdict counts if none before it is surer, and changes nothing if one is.
LEMMA VulnerableAppended ==
  ASSUME NEW vs \in Seq(Verdicts), NEW v \in Verdicts, v.verdict = "vulnerable"
  PROVE  LET n == Len(vs) + 1
         IN  /\ Vulnerable(Append(vs, v)) = Vulnerable(vs) \cup {n}
             /\ (\A k \in Vulnerable(vs) : vs[k].confidence <= v.confidence)
                  => strongestVulnerable(Append(vs, v)) = n
             /\ (\E k \in Vulnerable(vs) : ~ (vs[k].confidence <= v.confidence))
                  => strongestVulnerable(Append(vs, v)) = strongestVulnerable(vs)
             /\ Append(vs, v)[n] = v
             /\ \A k \in Vulnerable(vs) : Append(vs, v)[k] = vs[k]
<1> DEFINE n == Len(vs) + 1
           ws == Append(vs, v)
           V == Vulnerable(vs)
           W == Vulnerable(ws)
           old == [k \in V |-> vs[k].confidence]
           new == [k \in W |-> ws[k].confidence]
<1>1. /\ ws \in Seq(Verdicts) /\ Len(ws) = n /\ n \in Nat /\ ws[n] = v
      /\ \A k \in 1 .. Len(vs) : ws[k] = vs[k]
  OBVIOUS
<1>2. W = V \cup {n} /\ \A k \in V : k \in Nat /\ k < n /\ ws[k] = vs[k]
  BY <1>1 DEF Vulnerable
<1>3. old \in [V -> 0 .. 100]
  BY VerdictAssumption DEF Vulnerable
<1>4. new \in [W -> 0 .. 100]
  BY <1>1, VerdictAssumption DEF Vulnerable
<1> HIDE DEF ws, W, V
<1>5. new[n] = v.confidence /\ n \in W /\ \A k \in V : new[k] = old[k] /\ old[k] = vs[k].confidence
  BY <1>1, <1>2
<1>6. W \in SUBSET Nat /\ V \in SUBSET Nat /\ (\A k \in W : k <= n) /\ (\A k \in V : k <= n)
  BY <1>1, <1>2
<1> HIDE DEF n, old, new
<1>7. v.confidence \in Nat /\ \A k \in V : old[k] \in Nat
  <2>1. v.confidence \in 0 .. 100
    BY VerdictAssumption
  <2>2. \A k \in V : old[k] \in 0 .. 100
    BY <1>3
  <2>3. \A x \in 0 .. 100 : x \in Nat
    OBVIOUS
  <2> QED
    BY <2>1, <2>2, <2>3, Zenon
<1>8. ASSUME \A k \in V : vs[k].confidence <= v.confidence PROVE MostConfident(new) = n
  <2>1. \A j \in V : new[j] \in Nat /\ new[j] <= new[n]
    BY <1>5, <1>7, <1>8
  <2>2. \A j \in V : (new[j] < new[n] \/ new[j] = new[n]) /\ j <= n
    BY <1>5, <1>6, <1>7, <2>1
  <2>3. \A j \in W : new[j] < new[n] \/ (new[j] = new[n] /\ j <= n)
    BY <1>2, <1>6, <2>2
  <2> QED
    BY <1>1, <1>4, <1>5, <1>6, <2>3, MostConfidentIs
<1>9. ASSUME NEW a \in V, ~ (vs[a].confidence <= v.confidence) PROVE MostConfident(new) = MostConfident(old)
  <2> DEFINE b == MostConfident(old)
  <2>1. b \in V /\ \A j \in V : old[j] < old[b] \/ (old[j] = old[b] /\ j <= b)
    BY <1>1, <1>3, <1>6, <1>9, MostConfidentExists
  <2> HIDE DEF b
  <2>2. v.confidence < old[b]
    BY <1>5, <1>7, <1>9, <2>1
  <2>3. \A j \in W : new[j] < new[b] \/ (new[j] = new[b] /\ j <= b)
    BY <1>2, <1>5, <2>1, <2>2
  <2>4. b \in W
    BY <1>2, <2>1
  <2>5. MostConfident(new) = b
    BY <1>1, <1>4, <1>6, <2>3, <2>4, MostConfidentIs
  <2> QED
    BY <2>5 DEF b
<1>10. strongestVulnerable(ws) = MostConfident(new) /\ strongestVulnerable(vs) = MostConfident(old)
  BY DEF strongestVulnerable, new, old, W, V
<1> QED
  BY <1>1, <1>2, <1>8, <1>9, <1>10 DEF n, ws, V, W

\* An agent that says of a confirmed item what the verdict that counts says, changes no score.
LEMMA AgreementStep ==
  ASSUME VerdictInv, [Next]_vars, NEW i \in Confirmed(Item), NEW v \in Verdicts, Recorded(i, v),
         v = verdicts[i][strongestVulnerable(verdicts[i])], NEW d
  PROVE  Standing(d)' = Standing(d)
<1> DEFINE vs == verdicts[i]
           k == strongestVulnerable(vs)
<1>1. /\ i \in Item /\ i \in known /\ i \notin acked /\ Vulnerable(vs) # {}
      /\ vs \in Seq(Verdicts) /\ verdicts \in [Item -> Seq(Verdicts)] /\ known \subseteq Item
  BY DEF VerdictInv, TypeOK, Confirmed
<1>2. /\ verdicts' = [verdicts EXCEPT ![i] = Append(@, v)]
      /\ UNCHANGED <<code, acked, known>>
  <2>1. /\ verdicts' = [verdicts EXCEPT ![i] = Append(@, v)]
        /\ known' = known \cup {i} /\ UNCHANGED <<code, acked>>
    BY <1>1, RecordingStep
  <2> QED
    BY <1>1, <2>1
<1>3. TypeOK /\ TypeOK'
  BY VerdictStep DEF VerdictInv
<1>4. k \in Vulnerable(vs) /\ v.verdict = "vulnerable"
  BY <1>1, StrongestIsVulnerable DEF Vulnerable
<1>5. \A j \in Vulnerable(vs) : vs[j].confidence <= v.confidence
  <2> DEFINE V == Vulnerable(vs)
             conf == [j \in V |-> vs[j].confidence]
  <2>1. V \in SUBSET Nat /\ V # {} /\ Len(vs) \in Nat /\ \A j \in V : j <= Len(vs)
    BY <1>1 DEF Vulnerable
  <2>2. conf \in [V -> 0 .. 100]
    BY <1>1, VerdictAssumption DEF Vulnerable
  <2>3. \A j \in V : conf[j] < conf[MostConfident(conf)] \/ conf[j] = conf[MostConfident(conf)]
    <3> HIDE DEF V, conf
    <3> QED
      BY <2>1, <2>2, MostConfidentExists
  <2>4. k = MostConfident(conf)
    BY DEF strongestVulnerable
  <2> HIDE DEF V, conf, k
  <2>5. \A j \in V : conf[j] \in Nat /\ conf[k] \in Nat /\ conf[j] <= conf[k]
    BY <1>4, <2>2, <2>3, <2>4 DEF V
  <2>6. \A j \in V : conf[j] = vs[j].confidence
    BY DEF conf
  <2> QED
    BY <1>4, <2>5, <2>6 DEF V, k
<1>6. /\ verdicts'[i] = Append(vs, v)
      /\ \A j \in Item \ {i} : verdicts'[j] = verdicts[j]
  BY <1>1, <1>2
<1>7. /\ Vulnerable(verdicts'[i]) # {}
      /\ verdicts'[i][strongestVulnerable(verdicts'[i])] = v
  <2> HIDE DEF vs
  <2> QED
    BY <1>1, <1>4, <1>5, <1>6, VulnerableAppended
<1>8. Judged(verdicts', i) = Judged(verdicts, i)
  BY <1>7 DEF Judged
<1>9. Confirmed(code)' = Confirmed(code) /\ Confirmed(code) \subseteq Item
  BY <1>1, <1>2, <1>6, <1>7 DEF Confirmed
<1>10. \A j \in Item : Judged(verdicts', j) = Judged(verdicts, j)
  BY <1>6, <1>8 DEF Judged
<1>11. \A s \in Severity : Costing(verdicts, Confirmed(code), d, s)
                             = Costing(verdicts', Confirmed(code)', d, s)
  BY <1>9, <1>10 DEF Costing
<1> QED
  BY <1>2, <1>3, <1>11, SameStanding

\* One item is one defect, however many agents say so.
THEOREM AgreementAlwaysCountsOnce == Spec => AgreementCountsOnce
<1>1. VerdictInv /\ [Next]_vars =>
        \A i \in Item, v \in Verdicts :
          Recorded(i, v) /\ i \in Confirmed(Item) /\ v = verdicts[i][strongestVulnerable(verdicts[i])]
            => \A d \in Dimension : Standing(d)' = Standing(d)
  BY AgreementStep
<1> QED
  BY <1>1, VerdictsInvariant, PTL DEF Spec, AgreementCountsOnce

\* A call that keeps what is recorded of the items in the code changes no score.
LEMMA KeptStanding ==
  ASSUME VerdictInv, VerdictInv', UNCHANGED code, NEW d,
         \A i \in code \cap Item : /\ verdicts'[i] = verdicts[i] /\ (i \in acked' <=> i \in acked)
                                   /\ (i \in known => i \in known')
  PROVE  Standing(d)' = Standing(d)
<1>1. /\ VerdictFindings(code)' = VerdictFindings(code)
      /\ \A x \in VerdictFindings(code) : VerdictSeverity(x)' = VerdictSeverity(x)
  <2>1. known \subseteq Item /\ known' \subseteq Item
    BY DEF VerdictInv, TypeOK
  <2>2. \A i \in Item \ known : verdicts[i] = <<>>
    BY DEF VerdictInv
  <2>3. TypeOK /\ TypeOK'
    BY DEF VerdictInv
  <2>4. Vulnerable(<<>>) = {}
    BY DEF Vulnerable
  <2>5. Confirmed(code)' = Confirmed(code)
    BY <2>1, <2>2, <2>4 DEF Confirmed
  <2>6. \A j \in Confirmed(code) : verdicts'[j] = verdicts[j]
    BY <2>1 DEF Confirmed
  <2>7. VerdictFindings(code)' = {<<j, strongestVulnerable(verdicts'[j])>> : j \in Confirmed(code)}
    BY <2>5 DEF VerdictFindings
  <2>8. \A x \in VerdictFindings(code) : x[1] \in Confirmed(code)
    BY DEF VerdictFindings
  <2> QED
    BY <2>6, <2>7, <2>8 DEF VerdictFindings, VerdictSeverity
<1>2. Counts(code, d)' = Counts(code, d)
  BY <1>1 DEF Counts
<1> QED
  BY <1>2 DEF Standing, DimensionScore

\* Recording a vulnerable verdict raises no score, unless the item was confirmed and no verdict
\* on it was surer.
LEMMA VulnerableStep ==
  ASSUME VerdictInv, [Next]_vars, NEW i \in code \cap Item, NEW v \in Verdicts, Recorded(i, v),
         v.verdict = "vulnerable", NEW d,
         \/ i \notin Confirmed(code)
         \/ \E k \in Vulnerable(verdicts[i]) : ~ (verdicts[i][k].confidence <= v.confidence)
  PROVE  ~ (Standing(d)' > Standing(d))
<1>1. /\ verdicts' = [verdicts EXCEPT ![i] = Append(@, v)]
      /\ known' = known \cup {i} /\ UNCHANGED <<code, acked>>
  BY RecordingStep
<1>2. /\ verdicts \in [Item -> Seq(Verdicts)] /\ known \subseteq Item /\ verdicts[i] \in Seq(Verdicts)
      /\ TypeOK /\ TypeOK'
  BY VerdictStep DEF VerdictInv, TypeOK
<1>3. /\ verdicts'[i] = Append(verdicts[i], v)
      /\ \A j \in Item \ {i} : verdicts'[j] = verdicts[j]
  BY <1>1, <1>2
<1>4. Confirmed(code) \ {i} \subseteq Confirmed(code)' /\ Confirmed(code) \subseteq Item
  BY <1>1, <1>2, <1>3 DEF Confirmed
<1>5. \A j \in Item \ {i} : Judged(verdicts', j) = Judged(verdicts, j)
  BY <1>3 DEF Judged
<1>6. ASSUME i \in Confirmed(code)
      PROVE  i \in Confirmed(code)' /\ Judged(verdicts', i) = Judged(verdicts, i)
  <2> DEFINE vs == verdicts[i]
  <2>1. /\ vs \in Seq(Verdicts) /\ Vulnerable(vs) # {} /\ i \in known \ acked
        /\ \E k \in Vulnerable(vs) : ~ (vs[k].confidence <= v.confidence)
    BY <1>2, <1>6 DEF Confirmed
  <2>2. strongestVulnerable(vs) \in Vulnerable(vs)
    BY <2>1, StrongestIsVulnerable
  <2> HIDE DEF vs
  <2>3. /\ Vulnerable(Append(vs, v)) # {}
        /\ strongestVulnerable(Append(vs, v)) = strongestVulnerable(vs)
        /\ Append(vs, v)[strongestVulnerable(vs)] = vs[strongestVulnerable(vs)]
    BY <2>1, <2>2, VulnerableAppended, ZenonT(40)
  <2>4. Judged(verdicts', i) = Judged(verdicts, i)
    BY <1>3, <2>3 DEF Judged, vs
  <2>5. Vulnerable(verdicts'[i]) # {}
    BY <1>3, <2>3 DEF vs
  <2> QED
    BY <1>1, <2>1, <2>4, <2>5 DEF Confirmed
<1>7. \A s \in Severity : Costing(verdicts, Confirmed(code), d, s)
                            \subseteq Costing(verdicts', Confirmed(code)', d, s)
  BY <1>4, <1>5, <1>6 DEF Costing
<1> QED
  BY <1>1, <1>2, <1>7, NotRaised

\* A human's word apart, a score is raised by an agent that judges a confirmed item milder, and is
\* as sure of it as any that found it vulnerable.
LEMMA RaisingStep ==
  ASSUME VerdictInv, [Next]_vars, UNCHANGED <<code, acked>>, NEW d, Standing(d)' > Standing(d)
  PROVE  \E i \in Confirmed(code), v \in Verdicts :
           /\ Recorded(i, v) /\ v.verdict = "vulnerable"
           /\ \A k \in Vulnerable(verdicts[i]) : verdicts[i][k].confidence <= v.confidence
<1>1. VerdictInv' /\ TypeOK
  BY VerdictStep DEF VerdictInv
<1>2. Standing(d) \in 0 .. 100
  BY <1>1, ScoreType DEF Standing
<1>3. Standing(d)' # Standing(d)
  BY <1>2
<1>4. CASE RecordVerdict
  <2>1. PICK i \in code \cap Item, v \in Verdicts : verdicts' = [verdicts EXCEPT ![i] = Append(@, v)]
    BY <1>4 DEF RecordVerdict
  <2>2. Recorded(i, v)
    BY <1>1, <2>1 DEF Recorded, TypeOK
  <2>3. v.verdict = "vulnerable"
    BY <1>3, <2>2, DismissalStep
  <2>4. /\ i \in Confirmed(code)
        /\ \A k \in Vulnerable(verdicts[i]) : verdicts[i][k].confidence <= v.confidence
    BY <2>2, <2>3, VulnerableStep
  <2> QED
    BY <2>2, <2>3, <2>4
<1>5. CASE ~ RecordVerdict
  <2>1. \A i \in code \cap Item : verdicts'[i] = verdicts[i] /\ (i \in known => i \in known')
    <3>1. CASE Scan
      <4>1. PICK measured \in SUBSET Dimension, scope \in Scopes :
              \E replaced \in Replaced(measured, scope) :
                /\ known' = (known \ replaced) \cup (Seen(measured, scope) \cap Item)
                /\ Drop(replaced)
        BY <3>1 DEF Scan
      <4>2. PICK replaced \in Replaced(measured, scope) :
              /\ known' = (known \ replaced) \cup (Seen(measured, scope) \cap Item)
              /\ Drop(replaced)
        BY <4>1
      <4>3. \A i \in replaced : i \notin Seen(measured, scope) /\ "security" \in measured /\ FileOf[i] \in scope
        BY DEF Replaced
      <4>4. \A i \in replaced : i \notin code \cap Item
        BY <4>3 DEF Seen
      <4> QED
        BY <4>2, <4>4 DEF Drop
    <3>2. CASE Prune
      BY <3>2 DEF Prune, Drop
    <3>3. CASE Accept \/ Edit \/ UNCHANGED vars
      BY <3>3 DEF Accept, Edit, vars
    <3> QED
      BY <1>5, <3>1, <3>2, <3>3 DEF Next
  <2>2. Standing(d)' = Standing(d)
    BY <1>1, <2>1, KeptStanding
  <2> QED
    BY <1>3, <2>2
<1> QED
  BY <1>4, <1>5

\* As long as the code stays, no score goes up but by a human's decision or by an agent as sure of
\* a milder judgment as any that found the item vulnerable.
THEOREM AlwaysRaisedByDecision == Spec => RaisedByDecision
<1>1. VerdictInv /\ [Next]_vars =>
        (UNCHANGED <<code, acked>> /\ (\E d \in Dimension : Standing(d)' > Standing(d)) =>
           \E i \in Confirmed(code), v \in Verdicts :
             /\ Recorded(i, v) /\ v.verdict = "vulnerable"
             /\ \A k \in Vulnerable(verdicts[i]) : verdicts[i][k].confidence <= v.confidence)
  BY RaisingStep
<1> QED
  BY <1>1, VerdictsInvariant, PTL DEF Spec, RaisedByDecision
=============================================================================
