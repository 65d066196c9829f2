--------------------------- MODULE MCFindingCache ---------------------------
EXTENDS FindingCache, TLC

CONSTANTS p1, p2, f1, c1, c2, a1, a2, a3, none, guard

MCSymmetry ==
  Permutations({p1, p2}) \union Permutations({c1, c2})
    \union Permutations({a1, a2, a3}) \union Permutations({none, guard})
=============================================================================
