--------------------------- MODULE WarehouseAudit ---------------------------
(***************************************************************************)
(* What the DB sensor asks about a warehouse: the DW-0xx rules over the    *)
(* schema that was read and its roles (core/dwrules), and the 1NF items it *)
(* withholds there (sensors/db suppress3NF), against the warehouse that    *)
(* was declared.                                                           *)
(***************************************************************************)
EXTENDS Warehouse

CONSTANTS
  ListColumn, AuditStamp, Sensitive, BaseOf,
  ValidityColumn,   \* columns named valid_from, valid_to, is_current, effective_date
  CurrencyColumn    \* valid_to and is_current

R == INSTANCE SchemaRules WITH Filter <- {}

ASSUME AuditAssumption ==
  /\ CurrencyColumn \subseteq ValidityColumn
  /\ ValidityColumn \cup ListColumn \cup AuditStamp \cup Sensitive \subseteq Column
  /\ DOMAIN BaseOf = Column

Elements(cols) == {cols[i] : i \in DOMAIN cols}

-----------------------------------------------------------------------------
(* The rules, of a schema s and the roles of its tables. *)

In(s, roles, role) == {n \in DOMAIN s : roles[n] = role}
Proven(s, S) == {n \in S : s[n].proven}

IsPartitionChild(t) == t.of # None
\* Mutant: a count is made of whatever was proven.
CensusNeverAbstains(s, members) == FALSE

CensusAbstains(s, members) == \E n \in members : ~s[n].proven

\* DW-001: a fact of which no foreign key refers to a dimension.
NoFactDimensionFK(s, roles) ==
  {n \in Proven(s, In(s, roles, "fact")) :
     \A ref \in s[n].refs : ref \in DOMAIN s => roles[ref] # "dimension"}

\* DW-002: a dimension keyed by anything but one integer.
IntegerKey(t) == Len(t.key) = 1 /\ t.key[1] \in t.cols /\ TypeOf[t.key[1]] = "int"
NoSurrogateKey(s, roles) ==
  {n \in Proven(s, In(s, roles, "dimension")) : s[n].key # <<>> /\ ~IntegerKey(s[n])}

\* DW-010: a dimension that keeps history, and no index leads with what tells the current row.
NoCurrencyIndex(s, roles) ==
  {n \in Proven(s, In(s, roles, "dimension")) :
     /\ s[n].cols \cap CurrencyColumn # {}
     /\ \A c \in s[n].cols \cap CurrencyColumn : \A cols \in {x.cols : x \in s[n].indexes} \cup {s[n].key} :
          cols = <<>> \/ cols[1] # c}

\* DW-021
columnarIndexMethods == {"brin", "columnstore"}
NoColumnarIndex(s, roles) ==
  {n \in Proven(s, In(s, roles, "fact")) : \A x \in s[n].indexes : x.method \notin columnarIndexMethods}

\* DW-005: no dimension is one of time, by its name or by its key.
TimeDimensionName(n) == Nominated(n) /\ Stripped(n) \in calendarNames
IsTimeDimension(s, n) ==
  \/ TimeDimensionName(n)
  \/ Len(s[n].key) = 1 /\ s[n].key[1] \in s[n].cols /\ TypeOf[s[n].key[1]] = "datetime"

\* Mutant: a table that is not proven is left out, and does not hold the count back.
TimeCensusOfProven(s, roles) ==
  {n \in Proven(s, In(s, roles, "fact") \cup In(s, roles, "dimension")) : ~IsPartitionChild(s[n])}

TimeCensus(s, roles) ==
  {n \in In(s, roles, "fact") \cup In(s, roles, "dimension") : ~IsPartitionChild(s[n])}
TimeDimensions(s, roles) ==
  {n \in TimeCensus(s, roles) : roles[n] = "dimension" /\ IsTimeDimension(s, n)} \cup
  {s[n].of : n \in {m \in DOMAIN s : IsPartitionChild(s[m]) /\ TimeDimensionName(s[m].of)}}
NoTimeDimension(s, roles) ==
  /\ ~CensusAbstains(s, TimeCensus(s, roles))
  /\ TimeCensus(s, roles) \cap In(s, roles, "fact") # {}
  /\ TimeDimensions(s, roles) = {}

\* DW-011: dimensions that keep history, and dimensions that do not.
HistoryCensus(s, roles) ==
  {n \in In(s, roles, "dimension") : ~IsTimeDimension(s, n) /\ ~IsPartitionChild(s[n])}
KeepsHistory(t) == t.cols \cap ValidityColumn # {}
MixedHistory(s, roles) ==
  LET census == HistoryCensus(s, roles)
  IN  IF CensusAbstains(s, census) \/ \A n \in census : ~KeepsHistory(s[n]) THEN {}
      ELSE {n \in census : ~KeepsHistory(s[n])}

\* DW-020: the facts that declare no partitioning; a partition is not a fact of its own.
PartitioningCensus(s, roles) == {n \in In(s, roles, "fact") : ~IsPartitionChild(s[n])}
NotPartitioned(s, roles) ==
  LET census == PartitioningCensus(s, roles)
  IN  IF CensusAbstains(s, census) THEN {} ELSE {n \in census : ~s[n].partitioned}

-----------------------------------------------------------------------------
(* suppress3NF: the 1NF items of the tables of a warehouse. *)

FirstNormalForm(s) == R!Multivalued(s) \cup R!RepeatingGroups(s)

Suppressed(s, class, override) ==
  CASE override = "oltp" -> {}
    [] override = "olap" -> FirstNormalForm(s)
    [] OTHER -> {x \in FirstNormalForm(s) : class.roles[x[1]] \in {"fact", "dimension", "mart"}}

\* schemaGateNote: of a closed gate the roles it withheld, of an open one those that are held.
SchemaGateNote(s, class) ==
  IF class.open
  THEN [withheld |-> {}, holders |-> {n \in DOMAIN s : class.roles[n] # "unclassified"},
        signals |-> IF class.byOverride THEN {} ELSE WarehouseSignals(s) \cap decidingSignals]
  ELSE [withheld |-> {n \in DOMAIN s : Earned(s)[n] # "unclassified"}, holders |-> {}, signals |-> {}]

-----------------------------------------------------------------------------
(* Properties *)

\* What a DW rule concludes from an absence is so in the warehouse: of the tables that were read
\* the fact refers to no dimension, the dimension has no such key or index, and the counts of
\* DW-011 and DW-020 are of facts and dimensions the warehouse has, and leave out none that was
\* counted.
Hold(s, roles, d) ==
  LET earned == Earned(d)
      partitioning == NotPartitioned(s, roles)
  IN  /\ \A n \in NoFactDimensionFK(s, roles) :
           \A ref \in d[n].refs : earned[ref] = "dimension" => ref \in unreduced \ DOMAIN s
      /\ NoSurrogateKey(s, roles) \subseteq NoSurrogateKey(d, earned)
      /\ NoCurrencyIndex(s, roles) \subseteq NoCurrencyIndex(d, earned)
      /\ NoColumnarIndex(s, roles) \subseteq NoColumnarIndex(d, earned)
      /\ MixedHistory(s, roles) \subseteq {n \in HistoryCensus(d, earned) : ~KeepsHistory(d[n])}
      /\ partitioning # {} =>
           partitioning = {n \in PartitioningCensus(d, earned) \cap PartitioningCensus(s, roles) : ~d[n].partitioned}

ClaimsHoldInTheWarehouse ==
  LET s == Schema  d == Declared
  IN  \A roles \in {Resolve(s, override).roles : override \in Override} : Hold(s, roles, d)

\* DW-005 says that the facts have no time dimension only where the warehouse has none, or where
\* the one it has is a table codefit says it could not decide or could not find.
NoTimeDimensionIsSo ==
  LET s == Schema  d == Declared  class == Detect(s)
  IN  NoTimeDimension(s, class.roles) =>
        unreduced # {} \/ TimeDimensions(d, Earned(d)) \subseteq class.unprovable

\* The schema decides before any of its tables: a 1NF item is withheld only of a schema with the
\* evidence of a warehouse, or by the developer's word, and never against it; a table that is
\* named and joined like a dimension cannot silence its own items.  And no item goes without the
\* note: unless the developer's olap withheld them all, its table is said to hold a role, on the
\* signals that decided or on the developer's word.
SilencedOnlyInWarehouses ==
  LET s == Schema
  IN  \A override \in Override :
        LET class == Resolve(s, override)  gate == SchemaGateNote(s, class)
        IN  \A x \in Suppressed(s, class, override) :
              /\ \/ override \in {"olap", "mixed"}
                 \/ override = "auto" /\ WarehouseSignals(s) \cap decidingSignals # {}
              /\ override = "olap" \/ x[1] \in gate.holders
              /\ override = "auto" => gate.signals # {}
=============================================================================
