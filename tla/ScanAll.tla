------------------------------ MODULE ScanAll ------------------------------
(***************************************************************************)
(* What codefit-scan-all makes of the security sensor's result: the        *)
(* concerns are binned into endpoints (AggregateEndpoints), the endpoints  *)
(* the baseline has something to show of are put into buckets              *)
(* (ClassifyEndpoints), and the response is fitted to its byte budget by   *)
(* withholding endpoints (fitToBudget).                                    *)
(*                                                                         *)
(* A list of endpoints is kept as a set: its order is the ranking, which   *)
(* no two endpoints share.  Sizes are in units of the smallest entry.      *)
(***************************************************************************)
EXTENDS Integers, FiniteSets, FiniteSetsExt

CONSTANTS
  Concern,     \* findings and surface items, by fingerprint
  CategoryOf,  \* "finding", "idor", "authz", "overfetch" or "nplus1"
  FileOf,      \* the files are numbered in the order of their names
  LineOf,
  Reached,     \* surface items with local_access_detected = true
  Left,        \* surface items with local_access_detected = false
  Guarded,     \* authz items with a known helper whose result is not known discarded
  Limited,     \* overfetch items with field_limiting_detected = true
  Budget,      \* byte budgets
  EntrySize,   \* the bytes of an entry of each bucket
  FactSize,    \* the bytes of a deterministic concern, rendered in full
  RestSize,    \* the bytes of the summary, the counts and the DB section
  NoteSize,    \* the bytes of the budget note: "fits", "over", "prefix", "warning"
  Radix        \* of the numbers in the note

ASSUME ScanAssumption ==
  /\ IsFiniteSet(Concern)
  /\ FileOf \in [Concern -> Nat]
  /\ LineOf \in [Concern -> Nat]
  /\ CategoryOf \in [Concern -> {"finding", "idor", "authz", "overfetch", "nplus1"}]
  /\ Reached \cap Left = {}

Finding == {c \in Concern : CategoryOf[c] = "finding"}

-----------------------------------------------------------------------------
(* AggregateEndpoints, on the set obs of concerns the sensor observed. *)

\* The lines of the handlers of a file: those of its idor and authz items.
Anchors(obs, file) ==
  {LineOf[c] : c \in {d \in obs : FileOf[d] = file /\ CategoryOf[d] \in {"idor", "authz"}}}

\* The handler a concern belongs to: the last one that starts at or above its line.
Bin(obs, c) == Max({0} \cup {a \in Anchors(obs, FileOf[c]) : a <= LineOf[c]})

EndpointOf(obs, c) == <<FileOf[c], Bin(obs, c)>>

\* The endpoints, each with its concerns.
Endpoints(obs) ==
  LET of == [c \in obs |-> EndpointOf(obs, c)]
  IN  [ep \in {of[c] : c \in obs} |-> {c \in obs : of[c] = ep}]

\* The kind of control a concern misses.
Gap(c) ==
  CASE CategoryOf[c] = "finding"                       -> "affirmed"
    [] CategoryOf[c] = "idor" /\ c \in Reached         -> "access"
    [] CategoryOf[c] = "authz" /\ c \notin Guarded     -> "access"
    [] CategoryOf[c] = "overfetch" /\ c \notin Limited -> "exposure"
    [] CategoryOf[c] = "nplus1"                        -> "efficiency"
    [] OTHER                                           -> "none"

\* Deterministic, or surface codefit resolved in the handler body.
Certain(c) == c \in Finding \/ c \notin Left

Gaps(concerns, gap) == Cardinality({c \in concerns : Gap(c) = gap})

\* The sort key of an endpoint with these concerns: the smaller, the higher its rank.
RankKey(ep, concerns) ==
  << -Gaps(concerns, "affirmed"), -Gaps(concerns, "access"), -Gaps(concerns, "exposure"),
     -Gaps(concerns, "efficiency"), -Cardinality({c \in concerns : Certain(c)}), ep[1], ep[2] >>

\* Hardest gap first.
Before(k, l) ==
  \E i \in 1 .. 7 : k[i] < l[i] /\ \A j \in 1 .. i - 1 : k[j] = l[j]

\* How many endpoints rank above each one.
Ranking(endpoints) ==
  LET key == [ep \in DOMAIN endpoints |-> RankKey(ep, endpoints[ep])]
  IN  [ep \in DOMAIN endpoints |-> Cardinality({e \in DOMAIN endpoints : Before(key[e], key[ep])})]

-----------------------------------------------------------------------------
(* The baseline's filter and ClassifyEndpoints, over an analysis a: what was *)
(* observed, what the baseline shows of it, and the budget.                  *)

\* Mutant: an endpoint is actionable on its surface alone.
HasGapOfSurface(concerns) == \E c \in concerns \ Finding : Gap(c) # "none"

HasGap(concerns)     == \E c \in concerns : Gap(c) # "none"
IsResolved(concerns) == \E c \in concerns : Certain(c)

Classify(endpoints, a) ==
  LET shown     == {ep \in DOMAIN endpoints : endpoints[ep] \cap a.shown # {}}
      resolved  == {ep \in shown : IsResolved(endpoints[ep])}
      gapped    == {ep \in resolved : HasGap(endpoints[ep])}
  IN  [actionable |-> gapped,
       clean      |-> resolved \ gapped,
       frontier   |-> shown \ resolved,
       facts      |-> [ep \in DOMAIN endpoints |-> Cardinality(endpoints[ep] \cap Finding)],
       rank       |-> Ranking(endpoints),
       budget     |-> a.budget]

-----------------------------------------------------------------------------
(* withheldBy: the response r with drop endpoints withheld. *)

\* Mutant: the first n of the endpoints S.
TailFront(r, S, n) == {e \in S : Cardinality({g \in S : r.rank[g] <= r.rank[e]}) <= n}

\* The last n of the endpoints S.
Tail(r, S, n) == {e \in S : Cardinality({g \in S : r.rank[g] >= r.rank[e]}) <= n}

\* Mutant: facts are withheld like the rest.
DroppableAll(r) == r.actionable

\* An actionable endpoint that carries a deterministic finding is never withheld.
Droppable(r) == {ep \in r.actionable : r.facts[ep] = 0}

MaxDroppable(r) == Cardinality(r.clean) + Cardinality(r.frontier) + Cardinality(Droppable(r))

\* Mutant: the actionable bucket is emptied before the frontier.
WithheldFrontierLast(r, drop) ==
  LET fromClean      == Min({drop, Cardinality(r.clean)})
      fromActionable == Min({drop - fromClean, Cardinality(Droppable(r))})
  IN  [clean      |-> Tail(r, r.clean, fromClean),
       actionable |-> Tail(r, Droppable(r), fromActionable),
       frontier   |-> Tail(r, r.frontier, drop - fromClean - fromActionable)]

\* Taken off the ends of the lists: clean first, actionable last.
Withheld(r, drop) ==
  LET fromClean    == Min({drop, Cardinality(r.clean)})
      fromFrontier == Min({drop - fromClean, Cardinality(r.frontier)})
  IN  [clean      |-> Tail(r, r.clean, fromClean),
       frontier   |-> Tail(r, r.frontier, fromFrontier),
       actionable |-> Tail(r, Droppable(r), drop - fromClean - fromFrontier)]

Rendered(r, drop) ==
  LET w == Withheld(r, drop)
  IN  [actionable |-> r.actionable \ w.actionable,
       clean      |-> r.clean \ w.clean,
       frontier   |-> r.frontier \ w.frontier]

\* The digits of a number below the square of the radix.
Digits(n) == IF n < Radix THEN 1 ELSE 2

\* The size of the budget note, whose prose is longer once something is withheld.
Note(drop, w) ==
  IF drop = 0 THEN NoteSize.fits
  ELSE NoteSize.prefix + Digits(drop) + Digits(Cardinality(w.actionable))
         + Digits(Cardinality(w.clean)) + Digits(Cardinality(w.frontier))

\* The serialized size of the response with drop endpoints withheld.
Size(r, drop) ==
  LET kept == Rendered(r, drop)
  IN  RestSize + Note(drop, Withheld(r, drop))
        + Cardinality(kept.actionable) * EntrySize.actionable
        + Cardinality(kept.clean) * EntrySize.clean
        + Cardinality(kept.frontier) * EntrySize.frontier
        + MapThenSumSet(LAMBDA ep : r.facts[ep], kept.actionable) * FactSize

FitsBudget(r, drop) == Size(r, drop) <= r.budget

-----------------------------------------------------------------------------
VARIABLES
  audit,        \* what the scan observed, what the baseline shows of it, and the budget
  endpoints,    \* the endpoints of the observation, each with its concerns
  resp,         \* the response buildScanAll returns
  lo, hi, phase \* the search of fitToBudget; before it, phase is "audited", then "aggregated"

vars == <<audit, endpoints, resp, lo, hi, phase>>

Search == INSTANCE BudgetSearch WITH Fits <- FitsBudget

Audits == {a \in [obs : SUBSET Concern, shown : SUBSET Concern, budget : Budget] :
             a.shown \subseteq a.obs}

NoResponse == [actionable |-> {}, clean |-> {}, frontier |-> {}, facts |-> <<>>, rank |-> <<>>,
               budget |-> 0]

Init ==
  /\ audit \in Audits
  /\ endpoints = <<>>
  /\ resp = NoResponse
  /\ lo = 0 /\ hi = 0
  /\ phase = "audited"

Aggregate ==
  /\ phase = "audited"
  /\ endpoints' = Endpoints(audit.obs)
  /\ phase' = "aggregated"
  /\ UNCHANGED <<audit, resp, lo, hi>>

Build ==
  /\ phase = "aggregated"
  /\ resp' = Classify(endpoints, audit)
  /\ lo' = 0 /\ hi' = MaxDroppable(resp')
  /\ phase' = "search"
  /\ UNCHANGED <<audit, endpoints>>

Fit == (Search!Halve \/ Search!Walk) /\ UNCHANGED <<audit, endpoints>>

Next == Aggregate \/ Build \/ Fit

Spec == Init /\ [][Next]_vars /\ WF_vars(Next)

\* The responses that buildScanAll returns.
Responses == {Classify(Endpoints(a.obs), a) : a \in Audits}

\* Once something is withheld, withholding more makes the response no larger than the
\* budget it was within.
FitsMonotone ==
  \A r \in Responses : \A j, k \in 1 .. MaxDroppable(r) :
    j <= k /\ FitsBudget(r, j) => FitsBudget(r, k)

-----------------------------------------------------------------------------
Fitted == phase = "fitted"

\* Every deterministic finding the baseline shows is rendered, in full, whatever else
\* its endpoint carries and whatever the budget withholds.
FactsNamed ==
  Fitted => \A c \in audit.shown \cap Finding :
              EndpointOf(audit.obs, c) \in Rendered(resp, lo).actionable

\* An endpoint with a gap is withheld only when the other buckets are empty, and never
\* before one that ranks below it, unless that one carries a deterministic finding.
WorstKeptLongest ==
  Fitted =>
    LET r == Rendered(resp, lo)
        w == Withheld(resp, lo)
    IN  /\ w.actionable # {} => r.clean = {} /\ r.frontier = {}
        /\ w.frontier # {} => r.clean = {}
        /\ \A e \in w.actionable, g \in r.actionable :
             resp.facts[g] = 0 => resp.rank[g] < resp.rank[e]

\* No smaller number of withheld endpoints but zero would fit the budget, and a response
\* is given up as over budget, its baseline unsaved, only when none fits.
FewestWithheld == Search!FewestWithheld

\* The binary search of fitToBudget ends where its forward walk would: the walk, added
\* for the note whose length changes with its numbers, never moves.
WalkStandsStill == Search!WalkStandsStill

\* Every scan is answered.
Answered == <>Fitted
=============================================================================
