SPECIFICATION DSpec
CONSTANTS
  t1 = t1
  t2 = t2
  t3 = t3
  v1 = v1
  a = a
  b = b
  ix = ix
  iy = iy
  None = None
  Name <- MCName
  Column <- MCColumn
  IndexName = {ix, iy}
  Method = {"", "columnstore"}
  Scheme = {"ps"}
  PartitionFunction = {"pf"}
  Strategy = {"range"}
  Id <- MCId
  Statement <- MCStatement
  Files = 2
  Dialect <- MCDialect
  Before <- MCBefore
  PerSource = 2
  TypeOf <- MCTypeOf
  ListColumn = {}
  AuditStamp = {a}
  Sensitive = {}
  BaseOf <- MCBaseOf
  Filter <- MCFilter
  Paths <- MCPaths
  NotText = {}
INVARIANTS ProvenIsWhole AbsencesAreReal RedundantIndexesAreRedundant ChangedSourcesAreSeen NothingIsPassedOver
CHECK_DEADLOCK FALSE
