---------------------------- MODULE BudgetSearch ----------------------------
(***************************************************************************)
(* The search of fitToBudget: how many endpoints to withhold so that the   *)
(* serialized response fits its byte budget.  A binary search over the     *)
(* numbers 0 to MaxDroppable, then a walk forward from where it ends.      *)
(*                                                                         *)
(* Whether a response fits with k endpoints withheld is measured on its    *)
(* serialized bytes; here it is the operator Fits.                         *)
(***************************************************************************)
EXTENDS Integers

CONSTANTS
  MaxDroppable(_),  \* how many endpoints of a response may be withheld
  Fits(_, _)        \* Fits(r, k): r with k endpoints withheld is within its budget

VARIABLES
  resp,  \* the response to fit
  lo,    \* the bounds of the search; lo is its result in the end
  hi,
  phase  \* "search", then "fitted"

Mid == lo + (hi - lo) \div 2

\* Mutant: the lower half is kept with its upper bound.
HalveStuck ==
  /\ phase = "search"
  /\ lo < hi
  /\ IF Fits(resp, Mid) THEN hi' = Mid /\ lo' = lo ELSE lo' = Mid /\ hi' = hi
  /\ UNCHANGED <<resp, phase>>

\* Mutant: the middle is given up with the upper half.
HalvePast ==
  /\ phase = "search"
  /\ lo < hi
  /\ IF Fits(resp, Mid) THEN hi' = Mid /\ lo' = lo
     ELSE hi' = hi /\ lo' = IF Mid + 2 < hi THEN Mid + 2 ELSE hi
  /\ UNCHANGED <<resp, phase>>

\* Mutant: the branches are swapped.
HalveSwapped ==
  /\ phase = "search"
  /\ lo < hi
  /\ IF Fits(resp, Mid) THEN lo' = Mid + 1 /\ hi' = hi ELSE hi' = Mid /\ lo' = lo
  /\ UNCHANGED <<resp, phase>>

Halve ==
  /\ phase = "search"
  /\ lo < hi
  /\ IF Fits(resp, Mid) THEN hi' = Mid /\ lo' = lo ELSE lo' = Mid + 1 /\ hi' = hi
  /\ UNCHANGED <<resp, phase>>

\* Where the walk stops: at the first number from lo on that fits, or at the last.
WalkStop(k) ==
  /\ k = MaxDroppable(resp) \/ Fits(resp, k)
  /\ \A j \in lo .. k - 1 : ~Fits(resp, j)

Walk ==
  /\ phase = "search"
  /\ lo = hi
  /\ \E k \in lo .. MaxDroppable(resp) : WalkStop(k) /\ lo' = k
  /\ phase' = "fitted"
  /\ UNCHANGED <<resp, hi>>

\* The response does not fit whatever is withheld.
Over == ~Fits(resp, lo)

-----------------------------------------------------------------------------
\* No smaller number of endpoints that is not zero would do, and a response is given
\* up as over budget only if none would.
FewestWithheld ==
  phase = "fitted" => \A k \in 1 .. lo - 1 : ~Fits(resp, k)

\* The binary search ends where the walk would stop: the walk never takes a step.
WalkStandsStill == [][Walk => lo' = lo]_<<lo, hi, phase>>
=============================================================================
