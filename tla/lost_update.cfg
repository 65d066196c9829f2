SPECIFICATION LSpec
CONSTANTS
  q1 = q1
  q2 = q2
  s1 = s1
  d1 = d1
  x1 = x1
  FP = {q1}
  File <- MCFile
  CategoryOf <- MCCategoryOf
  FileOf <- MCFileOf
  Affirming <- MCAffirming
  Verdict = {}
  Helper = {}
  Callers = {1, 2}
  Serial = FALSE
  CanFail = FALSE
  Language = {"typescript"}
  Exposed = {"typescript", "go"}
  Extracting = {"typescript"}
  WrittenIn <- MCWrittenIn
  SecurityCats = {"idor", "security"}
  DBCats = {"DB-050"}
  CrossCats = {"DB-010"}
  SchemaFiles = {"schema", "migration"}
INVARIANT DecisionsKept
