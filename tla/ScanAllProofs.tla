--------------------------- MODULE ScanAllProofs ---------------------------
(***************************************************************************)
(* Proofs about the scan's response: its facts are named whatever the      *)
(* budget, and the search of fitToBudget ends where its walk would.        *)
(***************************************************************************)
EXTENDS ScanAll, FiniteSetTheorems, TLAPS

-----------------------------------------------------------------------------
(* The response that is built of an analysis. *)

\* The endpoints are finitely many, and their ranks are numbers.
LEMMA BuiltIsFinite ==
  ASSUME NEW a \in Audits
  PROVE  LET r == Classify(Endpoints(a.obs), a)
         IN  \E S : /\ IsFiniteSet(S)
                    /\ r.actionable \subseteq S /\ r.clean \subseteq S /\ r.frontier \subseteq S
                    /\ \A ep \in S : r.rank[ep] \in Nat
<1> DEFINE of == [c \in a.obs |-> EndpointOf(a.obs, c)]
           S == {of[c] : c \in a.obs}
           E == Endpoints(a.obs)
           r == Classify(E, a)
<1>1. IsFiniteSet(a.obs)
  BY ScanAssumption, FS_Subset DEF Audits
<1>2. IsFiniteSet(S)
  <2>1. of \in Surjection(a.obs, S)
    BY Zenon DEF Surjection
  <2> QED
    BY <1>1, <2>1, FS_Surjection
<1>3. DOMAIN E = S
  BY Zenon DEF Endpoints
<1> HIDE DEF S, E
<1>4. r.actionable \subseteq S /\ r.clean \subseteq S /\ r.frontier \subseteq S
  BY <1>3 DEF Classify
<1>5. r.rank = Ranking(E)
  BY DEF Classify
<1>6. ASSUME NEW ep \in S PROVE Ranking(E)[ep] \in Nat
  <2> DEFINE key == [e \in DOMAIN E |-> RankKey(e, E[e])]
             above == {e \in DOMAIN E : Before(key[e], key[ep])}
  <2>1. Ranking(E)[ep] = Cardinality(above)
    BY <1>3, <1>6, Zenon DEF Ranking
  <2>2. IsFiniteSet(above)
    BY <1>2, <1>3, FS_Subset
  <2> QED
    BY <2>1, <2>2, FS_CardinalityType
<1> QED
  BY <1>2, <1>4, <1>5, <1>6 DEF S, E

LEMMA DroppableCounted ==
  ASSUME NEW a \in Audits
  PROVE  MaxDroppable(Classify(Endpoints(a.obs), a)) \in Nat
<1> DEFINE r == Classify(Endpoints(a.obs), a)
<1>1. PICK S : /\ IsFiniteSet(S)
               /\ r.actionable \subseteq S /\ r.clean \subseteq S /\ r.frontier \subseteq S
  BY BuiltIsFinite
<1> HIDE DEF r
<1>2. Droppable(r) \subseteq S
  BY <1>1 DEF Droppable
<1>3. \A T : T \subseteq S => Cardinality(T) \in Nat
  BY <1>1, FS_Subset, FS_CardinalityType
<1>4. MaxDroppable(r) \in Nat
  BY <1>1, <1>2, <1>3 DEF MaxDroppable
<1> QED
  BY <1>4 DEF r

LEMMA NoticedByEndpoint ==
  ASSUME NEW a \in Audits, NEW c \in a.shown \cap Finding
  PROVE  LET r  == Classify(Endpoints(a.obs), a)
             ep == EndpointOf(a.obs, c)
         IN  ep \in r.actionable /\ ep \notin Droppable(r)
<1> DEFINE E  == Endpoints(a.obs)
           ep == EndpointOf(a.obs, c)
           r  == Classify(E, a)
           of == [d \in a.obs |-> EndpointOf(a.obs, d)]
<1>1. c \in a.obs /\ a.obs \subseteq Concern
  BY DEF Audits
<1>2. ep \in DOMAIN E /\ c \in E[ep] /\ E[ep] \subseteq a.obs
  BY <1>1, Zenon DEF Endpoints
<1>3. HasGap(E[ep]) /\ IsResolved(E[ep])
  <2>1. Gap(c) = "affirmed" /\ Certain(c)
    BY DEF Gap, Certain, Finding
  <2> QED
    BY <1>2, <2>1 DEF HasGap, IsResolved
<1>4. ep \in r.actionable
  BY <1>2, <1>3 DEF Classify
<1>5. r.facts[ep] = Cardinality(E[ep] \cap Finding)
  BY <1>2 DEF Classify
<1>6. Cardinality(E[ep] \cap Finding) # 0
  <2>1. IsFiniteSet(E[ep] \cap Finding)
    BY <1>1, <1>2, ScanAssumption, FS_Subset
  <2> QED
    BY <1>2, <2>1, FS_EmptySet
<1> QED
  BY <1>4, <1>5, <1>6 DEF Droppable

-----------------------------------------------------------------------------
(* The inductive invariant: what is searched is the response of the audit, *)
(* the bounds of the search are in order, and the upper one is the most    *)
(* that may be withheld or a number that fits.                             *)

Built == resp = Classify(Endpoints(audit.obs), audit)

Bounded ==
  /\ lo \in Nat /\ hi \in Nat
  /\ lo <= hi /\ hi <= MaxDroppable(resp)

UpperFits == hi = MaxDroppable(resp) \/ FitsBudget(resp, hi)

ScanInv ==
  /\ audit \in Audits
  /\ phase = "aggregated" => endpoints = Endpoints(audit.obs)
  /\ phase \in {"search", "fitted"} => Built
  /\ phase = "search" => Bounded /\ UpperFits
  /\ phase = "fitted" => lo \in Nat

\* The middle of the search's bounds lies between them.
LEMMA Middle ==
  ASSUME NEW l \in Nat, NEW h \in Nat, l < h
  PROVE  LET m == l + (h - l) \div 2 IN m \in Nat /\ l <= m /\ m < h
OBVIOUS

LEMMA HalveKeeps ==
  ASSUME ScanInv, Search!Halve, UNCHANGED <<audit, endpoints>>
  PROVE  ScanInv'
<1>1. phase = "search" /\ phase' = "search" /\ resp' = resp /\ lo < hi
  BY DEF Search!Halve
<1>2. Bounded /\ UpperFits /\ Built /\ MaxDroppable(resp) \in Nat
  BY <1>1, DroppableCounted DEF ScanInv, Built
<1>3. Search!Mid \in Nat /\ lo <= Search!Mid /\ Search!Mid < hi
  BY <1>1, <1>2, Middle DEF Bounded, Search!Mid
<1>4. MaxDroppable(resp') = MaxDroppable(resp)
  BY <1>1
<1>5. CASE FitsBudget(resp, Search!Mid)
  <2>1. hi' = Search!Mid /\ lo' = lo
    BY <1>5 DEF Search!Halve
  <2>2. Bounded'
    BY <2>1, <1>1, <1>2, <1>3, <1>4 DEF Bounded
  <2>3. UpperFits'
    BY <2>1, <1>1, <1>5 DEF UpperFits
  <2> QED
    BY <1>1, <2>2, <2>3 DEF ScanInv, Built
<1>6. CASE ~FitsBudget(resp, Search!Mid)
  <2>1. lo' = Search!Mid + 1 /\ hi' = hi
    BY <1>6 DEF Search!Halve
  <2>2. Bounded'
    BY <2>1, <1>1, <1>2, <1>3, <1>4 DEF Bounded
  <2>3. UpperFits'
    BY <2>1, <1>1, <1>2 DEF UpperFits
  <2> QED
    BY <1>1, <2>2, <2>3 DEF ScanInv, Built
<1> QED
  BY <1>5, <1>6

LEMMA BuildKeeps ==
  ASSUME ScanInv, Build
  PROVE  ScanInv' /\ lo' = 0
<1>1. /\ phase = "aggregated" /\ phase' = "search"
      /\ resp' = Classify(endpoints, audit)
      /\ lo' = 0 /\ hi' = MaxDroppable(resp')
      /\ audit' = audit /\ endpoints' = endpoints
  BY DEF Build
<1>2. Built'
  BY <1>1 DEF ScanInv, Built
<1>3. MaxDroppable(resp') \in Nat
  BY <1>1, <1>2, DroppableCounted DEF Built, ScanInv
<1>4. Bounded' /\ UpperFits'
  BY <1>1, <1>3 DEF Bounded, UpperFits
<1> QED
  BY <1>1, <1>2, <1>4 DEF ScanInv

\* The walk finds its first number already good.
LEMMA WalkStays ==
  ASSUME ScanInv, Search!Walk
  PROVE  lo' = lo /\ lo = hi /\ resp' = resp /\ phase = "search" /\ phase' = "fitted"
<1>1. /\ phase = "search" /\ lo = hi /\ phase' = "fitted" /\ resp' = resp
      /\ \E k \in lo .. MaxDroppable(resp) : Search!WalkStop(k) /\ lo' = k
  BY DEF Search!Walk
<1>2. PICK k \in lo .. MaxDroppable(resp) : Search!WalkStop(k) /\ lo' = k
  BY <1>1
<1>3. Bounded /\ UpperFits /\ MaxDroppable(resp) \in Nat
  BY <1>1, DroppableCounted DEF ScanInv, Built
<1>4. CASE k = lo
  BY <1>1, <1>2, <1>4
<1>5. CASE k # lo
  <2>1. lo \in lo .. k - 1 /\ lo < MaxDroppable(resp)
    BY <1>2, <1>3, <1>5 DEF Bounded
  <2>2. ~FitsBudget(resp, lo)
    BY <1>2, <2>1 DEF Search!WalkStop
  <2>3. FitsBudget(resp, lo)
    BY <1>1, <1>3, <2>1 DEF UpperFits
  <2> QED
    BY <2>2, <2>3
<1> QED
  BY <1>4, <1>5

LEMMA ScanStep ==
  ASSUME ScanInv, [Next]_vars
  PROVE  ScanInv'
<1>1. CASE UNCHANGED vars
  BY <1>1 DEF vars, ScanInv, Built, Bounded, UpperFits
<1>2. CASE Aggregate
  BY <1>2 DEF Aggregate, ScanInv
<1>3. CASE Build
  BY <1>3, BuildKeeps
<1>4. CASE Fit
  <2>1. CASE Search!Halve
    BY <1>4, <2>1, HalveKeeps DEF Fit
  <2>2. CASE Search!Walk
    <3>1. resp' = resp /\ lo' = lo /\ phase = "search" /\ phase' = "fitted"
      BY <2>2, WalkStays
    <3> QED
      BY <1>4, <3>1 DEF ScanInv, Built, Bounded, Fit
  <2> QED
    BY <1>4, <2>1, <2>2 DEF Fit
<1> QED
  BY <1>1, <1>2, <1>3, <1>4 DEF Next

LEMMA ScanInit == Init => ScanInv
  BY DEF Init, ScanInv

\* The inductive invariant holds of every scan.
THEOREM ScanInvariant == Spec => []ScanInv
<1>1. Init => ScanInv
  BY ScanInit
<1>2. ScanInv /\ [Next]_vars => ScanInv'
  BY ScanStep
<1> QED
  BY <1>1, <1>2, PTL DEF Spec

-----------------------------------------------------------------------------
LEMMA NamedWhenBuilt == ScanInv => FactsNamed
<1> SUFFICES ASSUME ScanInv, Fitted, NEW c \in audit.shown \cap Finding
             PROVE  EndpointOf(audit.obs, c) \in Rendered(resp, lo).actionable
  BY DEF FactsNamed
<1> DEFINE ep == EndpointOf(audit.obs, c)
<1>1. Built /\ audit \in Audits
  BY DEF ScanInv, Fitted
<1>2. ep \in resp.actionable /\ ep \notin Droppable(resp)
  BY <1>1, NoticedByEndpoint DEF Built
<1>3. Withheld(resp, lo).actionable \subseteq Droppable(resp)
  BY Zenon DEF Withheld, Tail
<1> QED
  BY <1>2, <1>3 DEF Rendered

\* Every deterministic finding the baseline shows of a scan is in the endpoints its
\* response renders, whatever the audit and whatever the budget.
THEOREM FactsAlwaysNamed == Spec => []FactsNamed
  BY ScanInvariant, NamedWhenBuilt, PTL

\* The forward walk of fitToBudget never withholds one more endpoint.
THEOREM WalkNeverMoves == Spec => WalkStandsStill
<1>1. ScanInv /\ [Next]_vars => [Search!Walk => lo' = lo]_<<lo, hi, phase>>
  BY WalkStays
<1> QED
  BY <1>1, ScanInvariant, PTL DEF Spec, WalkStandsStill, Search!WalkStandsStill

-----------------------------------------------------------------------------
(* The least withholding, where withholding more never costs. *)

\* Below the lower bound, nothing but zero can fit.
BelowTooBig == phase \in {"search", "fitted"} => \A k \in 1 .. lo - 1 : ~FitsBudget(resp, k)

LEMMA BelowStep ==
  ASSUME FitsMonotone, ScanInv, BelowTooBig, [Next]_vars
  PROVE  BelowTooBig'
<1>1. CASE UNCHANGED vars
  BY <1>1 DEF vars, BelowTooBig
<1>2. CASE Aggregate
  BY <1>2 DEF Aggregate, BelowTooBig
<1>3. CASE Build
  <2>1. lo' = 0
    BY <1>3, BuildKeeps
  <2> QED
    BY <2>1 DEF BelowTooBig
<1>4. CASE Search!Halve
  <2>1. phase = "search" /\ resp' = resp /\ lo < hi
    BY <1>4 DEF Search!Halve
  <2>2. Bounded /\ Built /\ audit \in Audits /\ MaxDroppable(resp) \in Nat
    BY <2>1, DroppableCounted DEF ScanInv, Built
  <2>3. Search!Mid \in Nat /\ lo <= Search!Mid /\ Search!Mid < hi
    BY <2>1, <2>2, Middle DEF Bounded, Search!Mid
  <2>4. CASE FitsBudget(resp, Search!Mid)
    <3>1. lo' = lo
      BY <1>4, <2>4 DEF Search!Halve
    <3> QED
      BY <2>1, <3>1 DEF BelowTooBig
  <2>5. CASE ~FitsBudget(resp, Search!Mid)
    <3>1. lo' = Search!Mid + 1
      BY <1>4, <2>5 DEF Search!Halve
    <3>2. resp \in Responses
      BY <2>2 DEF Built, Responses
    <3>3. ASSUME NEW k \in 1 .. Search!Mid PROVE ~FitsBudget(resp, k)
      <4>1. /\ k \in 1 .. MaxDroppable(resp) /\ k <= Search!Mid
            /\ Search!Mid \in 1 .. MaxDroppable(resp)
        BY <2>2, <2>3 DEF Bounded
      <4> QED
        BY <2>5, <3>2, <4>1 DEF FitsMonotone
    <3>4. 1 .. lo' - 1 = 1 .. Search!Mid
      BY <2>3, <3>1
    <3> QED
      BY <2>1, <3>3, <3>4 DEF BelowTooBig
  <2> QED
    BY <2>4, <2>5
<1>5. CASE Search!Walk
  BY <1>5, WalkStays DEF BelowTooBig
<1> QED
  BY <1>1, <1>2, <1>3, <1>4, <1>5 DEF Next, Fit

\* Where withholding more never makes a response too large again, the response withholds
\* as few endpoints as fit, unless withholding none would have done.
THEOREM FewestAlwaysWithheld ==
  ASSUME FitsMonotone
  PROVE  Spec => []FewestWithheld
<1>1. Init => BelowTooBig
  BY DEF Init, BelowTooBig
<1>2. ScanInv /\ BelowTooBig /\ [Next]_vars => BelowTooBig'
  BY BelowStep
<1>3. BelowTooBig => FewestWithheld
  BY DEF BelowTooBig, FewestWithheld, Search!FewestWithheld
<1> QED
  BY <1>1, <1>2, <1>3, ScanInvariant, PTL DEF Spec

-----------------------------------------------------------------------------
(* What is withheld first. *)

LEMMA Fewer ==
  ASSUME NEW m \in Nat, NEW n \in Nat
  PROVE  Min({m, n}) \in {m, n} /\ Min({m, n}) <= m /\ Min({m, n}) <= n
<1>1. \E x \in {m, n} : \A y \in {m, n} : x <= y
  OBVIOUS
<1>2. Min({m, n}) \in {m, n} /\ \A y \in {m, n} : Min({m, n}) <= y
  BY <1>1, Zenon DEF Min
<1> QED
  BY <1>2

\* The end of a list: none of it, all of it, and never one before a later one.
LEMMA TailOf ==
  ASSUME NEW r, NEW S, IsFiniteSet(S), \A e \in S : r.rank[e] \in Nat, NEW n \in Int
  PROVE  /\ n <= 0 => Tail(r, S, n) = {}
         /\ n >= Cardinality(S) => Tail(r, S, n) = S
         /\ \A e \in Tail(r, S, n), g \in S \ Tail(r, S, n) : r.rank[g] < r.rank[e]
<1> DEFINE behind(e) == {g \in S : r.rank[g] >= r.rank[e]}
<1>1. \A e \in S : /\ IsFiniteSet(behind(e)) /\ e \in behind(e)
                   /\ Cardinality(behind(e)) \in Nat
                   /\ Cardinality(behind(e)) <= Cardinality(S)
  BY FS_Subset, FS_CardinalityType
<1>2. \A e \in S : Cardinality(behind(e)) > 0
  <2> SUFFICES ASSUME NEW e \in S PROVE Cardinality(behind(e)) > 0
    OBVIOUS
  <2> HIDE DEF behind
  <2>1. Cardinality(behind(e)) # 0
    BY <1>1, FS_EmptySet
  <2> QED
    BY <1>1, <2>1
<1>3. Cardinality(S) \in Nat
  BY FS_CardinalityType
<1>4. Tail(r, S, n) = {e \in S : Cardinality(behind(e)) <= n}
  BY DEF Tail
<1>5. ASSUME NEW e \in Tail(r, S, n), NEW g \in S \ Tail(r, S, n) PROVE r.rank[g] < r.rank[e]
  <2>1. SUFFICES ASSUME r.rank[g] >= r.rank[e] PROVE FALSE
    BY <1>4
  <2>2. behind(g) \subseteq behind(e)
    BY <1>4, <2>1
  <2>3. Cardinality(behind(g)) <= Cardinality(behind(e)) /\ Cardinality(behind(e)) <= n
    BY <1>1, <1>4, <2>2, FS_Subset
  <2> HIDE DEF behind
  <2>4. Cardinality(behind(g)) <= n
    BY <1>1, <1>4, <2>3
  <2> QED
    BY <1>4, <2>4
<1> HIDE DEF behind
<1>6. n <= 0 => Tail(r, S, n) = {}
  BY <1>1, <1>2, <1>4
<1>7. n >= Cardinality(S) => Tail(r, S, n) = S
  BY <1>1, <1>3, <1>4
<1> QED
  BY <1>5, <1>6, <1>7

\* The buckets are emptied in their order, each from its end.
LEMMA WithheldInOrder ==
  ASSUME NEW r, NEW S, IsFiniteSet(S), \A e \in S : r.rank[e] \in Nat, NEW drop \in Nat,
         r.actionable \subseteq S, r.clean \subseteq S, r.frontier \subseteq S
  PROVE  LET kept == Rendered(r, drop)
             w == Withheld(r, drop)
         IN  /\ w.actionable # {} => kept.clean = {} /\ kept.frontier = {}
             /\ w.frontier # {} => kept.clean = {}
             /\ \A e \in w.actionable, g \in kept.actionable :
                  r.facts[g] = 0 => r.rank[g] < r.rank[e]
<1> DEFINE fromClean == Min({drop, Cardinality(r.clean)})
           fromFrontier == Min({drop - fromClean, Cardinality(r.frontier)})
           rest == drop - fromClean - fromFrontier
           w == Withheld(r, drop)
<1>1. Droppable(r) \subseteq S
  BY DEF Droppable
<1>2. /\ IsFiniteSet(r.clean) /\ IsFiniteSet(r.frontier) /\ IsFiniteSet(Droppable(r))
      /\ Cardinality(r.clean) \in Nat /\ Cardinality(r.frontier) \in Nat
      /\ \A e \in r.clean \cup r.frontier \cup Droppable(r) : r.rank[e] \in Nat
  BY <1>1, FS_Subset, FS_CardinalityType
<1>3. /\ fromClean \in Nat /\ fromClean <= drop
      /\ fromClean = Cardinality(r.clean) \/ fromClean = drop
  BY <1>2, Fewer
<1> HIDE DEF fromClean
<1>4. /\ fromFrontier \in Nat /\ fromFrontier <= drop - fromClean
      /\ fromFrontier = Cardinality(r.frontier) \/ fromFrontier = drop - fromClean
  <2>1. drop - fromClean \in Nat
    BY <1>3
  <2> QED
    BY <1>2, <2>1, Fewer
<1> HIDE DEF fromFrontier
<1>5. rest \in Nat /\ drop - fromClean \in Nat
  BY <1>3, <1>4
<1>6. /\ w.clean = Tail(r, r.clean, fromClean)
      /\ w.frontier = Tail(r, r.frontier, fromFrontier)
      /\ w.actionable = Tail(r, Droppable(r), rest)
  BY DEF Withheld, fromClean, fromFrontier
<1>7. /\ Rendered(r, drop).clean = r.clean \ w.clean
      /\ Rendered(r, drop).frontier = r.frontier \ w.frontier
      /\ Rendered(r, drop).actionable = r.actionable \ w.actionable
  BY DEF Rendered
<1> HIDE DEF w
<1>8. fromClean = Cardinality(r.clean) => w.clean = r.clean
  <2>1. /\ \A e \in r.clean : r.rank[e] \in Nat
        /\ fromClean \in Int /\ (fromClean = Cardinality(r.clean) => fromClean >= Cardinality(r.clean))
    BY <1>2, <1>3
  <2> QED
    BY <1>2, <1>6, <2>1, TailOf
<1>9. /\ fromFrontier = Cardinality(r.frontier) => w.frontier = r.frontier
      /\ fromFrontier <= 0 => w.frontier = {}
  <2>1. /\ \A e \in r.frontier : r.rank[e] \in Nat
        /\ fromFrontier \in Int
        /\ fromFrontier = Cardinality(r.frontier) => fromFrontier >= Cardinality(r.frontier)
    BY <1>2, <1>4
  <2> QED
    BY <1>2, <1>6, <2>1, TailOf
<1>10. ASSUME w.frontier # {} PROVE Rendered(r, drop).clean = {}
  <2>1. ~(fromFrontier <= 0)
    BY <1>9, <1>10
  <2>2. fromClean # drop
    BY <1>3, <1>4, <2>1
  <2> QED
    BY <1>3, <1>7, <1>8, <2>2
<1>11. ASSUME w.actionable # {} PROVE Rendered(r, drop).clean = {} /\ Rendered(r, drop).frontier = {}
  <2>1. ~(rest <= 0)
    <3>1. \A e \in Droppable(r) : r.rank[e] \in Nat
      BY <1>2
    <3> HIDE DEF rest
    <3>2. rest \in Int
      BY <1>5
    <3>3. rest <= 0 => Tail(r, Droppable(r), rest) = {}
      BY <1>2, <3>1, <3>2, TailOf
    <3> QED
      BY <1>6, <1>11, <3>3
  <2>2. fromClean # drop /\ fromFrontier # drop - fromClean
    BY <1>3, <1>4, <2>1
  <2> QED
    BY <1>3, <1>4, <1>7, <1>8, <1>9, <2>2
<1>12. ASSUME NEW e \in w.actionable, NEW g \in Rendered(r, drop).actionable, r.facts[g] = 0
       PROVE  r.rank[g] < r.rank[e]
  <2>1. g \in Droppable(r) \ Tail(r, Droppable(r), rest)
    BY <1>6, <1>7, <1>12 DEF Droppable
  <2>2. \A h \in Droppable(r) : r.rank[h] \in Nat
    BY <1>1
  <2> HIDE DEF rest
  <2>3. rest \in Int
    BY <1>5
  <2>4. \A x \in Tail(r, Droppable(r), rest), y \in Droppable(r) \ Tail(r, Droppable(r), rest) :
          r.rank[y] < r.rank[x]
    BY <1>2, <2>2, <2>3, TailOf
  <2>5. e \in Tail(r, Droppable(r), rest)
    BY <1>6, <1>12
  <2> QED
    BY <2>1, <2>4, <2>5
<1> QED
  BY <1>10, <1>11, <1>12 DEF w

\* The endpoints with a gap are withheld last, and the hardest of them last of all, whatever the
\* audit and the budget.
THEOREM WorstAlwaysKeptLongest == Spec => []WorstKeptLongest
<1>1. ASSUME ScanInv, Fitted PROVE WorstKeptLongest
  <2>1. audit \in Audits /\ Built /\ lo \in Nat
    BY <1>1 DEF ScanInv, Fitted
  <2>2. PICK S : /\ IsFiniteSet(S)
                 /\ resp.actionable \subseteq S /\ resp.clean \subseteq S /\ resp.frontier \subseteq S
                 /\ \A ep \in S : resp.rank[ep] \in Nat
    BY <2>1, BuiltIsFinite DEF Built
  <2> QED
    BY <2>1, <2>2, WithheldInOrder DEF WorstKeptLongest
<1>2. ScanInv => WorstKeptLongest
  BY <1>1 DEF WorstKeptLongest
<1> QED
  BY <1>2, ScanInvariant, PTL
=============================================================================
