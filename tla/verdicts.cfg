SPECIFICATION Spec
CONSTANTS
  Item <- MCItem
  CategoryOf <- MCCategoryOf
  FileOf <- MCFileOf
  Finding <- MCFinding
  DimensionOf <- MCDimension
  SeverityOf <- MCSeverity
  Scopes <- MCScopes
  Weights <- MCWeights
  Verdicts <- MCVerdicts
  MaxVerdicts = 2
  idor1 = idor1
  loop1 = loop1
  loop2 = loop2
SYMMETRY MCSymmetry
INVARIANTS VerdictsDeclared GlobalBetween
PROPERTIES DismissalsCountNothing AgreementCountsOnce RaisedByDecision
