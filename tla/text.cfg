SPECIFICATION Spec
CONSTANTS
  Token <- MCToken
  Source <- MCSource
  Sensitive <- MCSensitive
  Dynamic <- MCDynamic
  External <- MCExternal
  Writes <- MCWrites
  Exposes <- MCExposes
  Handling <- MCHandling
  HandlingApart <- MCHandlingApart
  Remarking <- MCRemarking
INVARIANTS
  CompleteBodiesAreWhole
  TablesAreThoseDeclared
  ClaimsFollowTheBodies
CHECK_DEADLOCK FALSE
