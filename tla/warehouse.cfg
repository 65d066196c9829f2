SPECIFICATION Spec
CONSTANTS
  Name <- MCName
  Column <- MCColumn
  Words <- MCWords
  Pascal <- MCPascal
  TypeOf <- MCTypeOf
  Ending <- MCEnding
  AuditColumn = {}
  AuditStamp = {}
  ListColumn = {"tags"}
  Sensitive = {}
  BaseOf <- MCBaseOf
  ValidityColumn = {"valid_to"}
  CurrencyColumn = {"valid_to"}
  Body <- MCBody
  Index <- MCIndex
  Link <- MCLink
  Garbled = {"valid_to", "day"}
  MaxLost = 2
  Override = {"auto", "oltp", "olap", "mixed"}
  None = None
CHECK_DEADLOCK FALSE
INVARIANTS
  ReaderContract
  PromotionIsSafe
  UndecidedAreNamed
  ClaimsHoldInTheWarehouse
  NoTimeDimensionIsSo
  SilencedOnlyInWarehouses
