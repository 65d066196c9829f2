SPECIFICATION Spec
CONSTANTS
  p1 = p1  p2 = p2  f1 = f1  c1 = c1  c2 = c2
  a1 = a1  a2 = a2  a3 = a3   none = none  guard = guard
  Process = {p1, p2}
  Path = {f1}
  Scopes = {{f1}}
  Content = {c1, c2}
  Analyzer = {a1, a2, a3}
  Helpers = {none, guard}
  GenerationsKept = 2
  MaxEvents = 2
  NoId = NoId
  Unknown = Unknown
SYMMETRY MCSymmetry
INVARIANTS ServesThisFile ServesThisAnalyzer StoredWhole
PROPERTY PruneSpares
