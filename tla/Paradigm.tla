------------------------------ MODULE Paradigm ------------------------------
(***************************************************************************)
(* core/paradigm: is this schema a warehouse, and which of its tables are  *)
(* its facts and dimensions.  A schema is a function from the names of its *)
(* tables to records of which this module reads `cols' (a set of columns), *)
(* `refs' (the tables its foreign keys refer to) and `proven'.             *)
(*                                                                         *)
(* A name is its words: Words[n] is the name split at its underscores, and *)
(* Pascal[n] is <<token, rest>> when the name begins with a token followed *)
(* by an upper and a lower case letter, and <<>> when it does not.         *)
(***************************************************************************)
EXTENDS Integers, Sequences, FiniteSets

CONSTANTS
  Name, Column,
  Words, Pascal,
  TypeOf,       \* of a column
  Ending,       \* the last word of a column's name, "" when it has only one
  AuditColumn   \* columns IsAuditTimestampColumn recognizes

ASSUME ParadigmAssumption ==
  /\ Name # {} /\ IsFiniteSet(Name) /\ IsFiniteSet(Column)
  /\ DOMAIN Words = Name /\ DOMAIN Pascal = Name
  /\ DOMAIN TypeOf = Column /\ DOMAIN Ending = Column
  /\ AuditColumn \subseteq Column

WarehouseRole == {"fact", "dimension", "staging", "mart"}
Role == WarehouseRole \cup {"unclassified"}

-----------------------------------------------------------------------------
(* Names. *)

prefixTokens ==
  [fact |-> "fact", fct |-> "fact", f |-> "fact", dim |-> "dimension", d |-> "dimension",
   stg |-> "staging", mart |-> "mart"]
suffixTokens == [fact |-> "fact", facts |-> "fact", dim |-> "dimension", dims |-> "dimension"]
pascalTokens == [fact |-> "fact", dim |-> "dimension"]

First(n) == Head(Words[n])
Last(n) == Words[n][Len(Words[n])]
Segmented(n) == Len(Words[n]) >= 2

ByPrefix(n) == Segmented(n) /\ First(n) \in DOMAIN prefixTokens
BySuffix(n) == Segmented(n) /\ ~ByPrefix(n) /\ Last(n) \in DOMAIN suffixTokens
ByPascal(n) == ~ByPrefix(n) /\ ~BySuffix(n) /\ Pascal[n] # <<>> /\ Pascal[n][1] \in DOMAIN pascalTokens

Nominated(n) == ByPrefix(n) \/ BySuffix(n) \/ ByPascal(n)

\* candidateRole: the role a name nominates.
CandidateRole(n) ==
  CASE ByPrefix(n) -> prefixTokens[First(n)]
    [] BySuffix(n) -> suffixTokens[Last(n)]
    [] ByPascal(n) -> pascalTokens[Pascal[n][1]]
    [] OTHER       -> "unclassified"

\* StripRoleToken, of a name that nominates a role.
Stripped(n) ==
  CASE ByPrefix(n) -> Tail(Words[n])
    [] BySuffix(n) -> SubSeq(Words[n], 1, Len(Words[n]) - 1)
    [] OTHER       -> << Pascal[n][2] >>

calendarNames == { <<"date">>, <<"time">>, <<"calendar">> }

-----------------------------------------------------------------------------
(* schemagate.go: the evidence of the schema as a whole. *)

minJudgeableTables == 3
surrogateKeyColumnsMin == 3
surrogateKeyTablesMin == 2
bulkKeyColumnsInOneTableMin == 4
bulkKeyColumnsSchemaMin == 8
starFanOutMin == 2
numericPolePct == 60
numericPoleTextMaxPct == 15
numericPoleMinColumns == 8
textPolePct == 50
textPoleMinColumns == 4
numericPoleMinTables == 1
textPoleMinTables == 2
numericPoleMinSharePct == 10
maxUnclassifiedPct == 20
minProfiledCoveragePct == 50

EndingIn(t, endings) == {c \in t.cols : Ending[c] \in endings}

HasCalendarTable(s) ==
  \E n \in DOMAIN s : (IF Nominated(n) THEN Stripped(n) ELSE Words[n]) \in calendarNames

HasSurrogateKeyVocabulary(s) ==
  LET keyed == {n \in DOMAIN s : EndingIn(s[n], {"sk"}) # {}}
  IN  /\ Cardinality(keyed) >= surrogateKeyTablesMin
      /\ Cardinality(UNION {{n} \X EndingIn(s[n], {"sk"}) : n \in keyed}) >= surrogateKeyColumnsMin

HasBulkLoadShape(s) ==
  LET keys(n) == EndingIn(s[n], {"key", "sk", "id"})
  IN  /\ \A n \in DOMAIN s : s[n].proven /\ s[n].refs = {}
      /\ \E n \in DOMAIN s : Cardinality(keys(n)) >= bulkKeyColumnsInOneTableMin
      /\ Cardinality(UNION {{n} \X keys(n) : n \in DOMAIN s}) >= bulkKeyColumnsSchemaMin

HasNoAuditTimestamps(s) ==
  \A n \in DOMAIN s : s[n].proven /\ s[n].cols # {} /\ s[n].cols \cap AuditColumn = {}

HasStarTopology(s) ==
  \E hub \in DOMAIN s :
    /\ Cardinality(s[hub].refs) >= starFanOutMin
    /\ \A spoke \in s[hub].refs : spoke \in DOMAIN s /\ s[spoke].proven /\ s[spoke].refs = {}

\* profileOf: the columns of a proven table by the poles of their types.
Typed(t, types) == Cardinality({c \in t.cols : TypeOf[c] \in types})
Numeric(t) == Typed(t, {"int", "float"})
Descriptive(t) == Typed(t, {"string", "text"})
Unread(t) == Cardinality(t.cols) - Typed(t, {"int", "float", "string", "text", "bool", "datetime",
                                       "json", "bytes", "enum"})
Profiled(t) ==
  /\ t.proven /\ t.cols # {}
  /\ Unread(t) * 100 <= Cardinality(t.cols) * maxUnclassifiedPct

NumericDominated(t) ==
  /\ Cardinality(t.cols) >= numericPoleMinColumns
  /\ Numeric(t) * 100 >= Cardinality(t.cols) * numericPolePct
  /\ Descriptive(t) * 100 <= Cardinality(t.cols) * numericPoleTextMaxPct
TextDominated(t) ==
  /\ Cardinality(t.cols) >= textPoleMinColumns
  /\ Descriptive(t) * 100 >= Cardinality(t.cols) * textPolePct

HasTypeProfileSplit(s) ==
  LET profiled == {n \in DOMAIN s : Profiled(s[n])}
      numericPole == {n \in profiled : NumericDominated(s[n])}
      textPole == {n \in profiled \ numericPole : TextDominated(s[n])}
  IN  /\ Cardinality(profiled) >= minJudgeableTables
      /\ Cardinality(profiled) * 100 >= Cardinality(DOMAIN s) * minProfiledCoveragePct
      /\ Cardinality(numericPole) >= numericPoleMinTables
      /\ Cardinality(numericPole) * 100 >= Cardinality(profiled) * numericPoleMinSharePct
      /\ Cardinality(textPole) >= textPoleMinTables

Signal == {"calendar_table", "surrogate_key_names", "bulk_load_shape", "no_audit_timestamps",
           "star_topology", "type_profile_split"}
decidingSignals == {"calendar_table", "surrogate_key_names", "type_profile_split"}

Fires(s, signal) ==
  CASE signal = "calendar_table"      -> HasCalendarTable(s)
    [] signal = "surrogate_key_names" -> HasSurrogateKeyVocabulary(s)
    [] signal = "bulk_load_shape"     -> HasBulkLoadShape(s)
    [] signal = "no_audit_timestamps" -> HasNoAuditTimestamps(s)
    [] signal = "star_topology"       -> HasStarTopology(s)
    [] OTHER                          -> HasTypeProfileSplit(s)

\* WarehouseSignals: a schema of too few tables is not judged.
Judgeable(s) == Cardinality(DOMAIN s) >= minJudgeableTables
WarehouseSignals(s) == IF Judgeable(s) THEN {signal \in Signal : Fires(s, signal)} ELSE {}
Qualifies(s) == WarehouseSignals(s) \cap decidingSignals # {}

-----------------------------------------------------------------------------
(* paradigm.go: the roles. *)

factFanOutMin == 2

FanIn(s, n) == {m \in DOMAIN s : n \in s[m].refs}

\* Mutant: the name of a table that is not proven is taken at its word.
RoleForUnproven(s, n) ==
  CASE CandidateRole(n) = "fact" /\ Cardinality(s[n].refs) < factFanOutMin /\ s[n].proven -> "unclassified"
    [] CandidateRole(n) = "dimension" /\ FanIn(s, n) = {} /\ s[n].proven -> "unclassified"
    [] OTHER -> CandidateRole(n)

\* roleFor: the name nominates, and the foreign keys corroborate.
RoleFor(s, n) ==
  CASE CandidateRole(n) = "fact" /\ Cardinality(s[n].refs) < factFanOutMin -> "unclassified"
    [] CandidateRole(n) = "dimension" /\ FanIn(s, n) = {}           -> "unclassified"
    [] OTHER -> CandidateRole(n)

Earned(s) == [n \in DOMAIN s |-> RoleFor(s, n)]
NoRoles(s) == [n \in DOMAIN s |-> "unclassified"]

\* Mutant: a table is decided when its own structure is proven.
UnprovableOwn(s) ==
  {n \in DOMAIN s : RoleFor(s, n) = "unclassified" /\ Nominated(n) /\ ~s[n].proven}

\* unprovableDemotions: a foreign key lost anywhere may be the one that would have corroborated.
Unprovable(s) ==
  {n \in DOMAIN s : /\ RoleFor(s, n) = "unclassified" /\ Nominated(n)
                    /\ \E m \in DOMAIN s : ~s[m].proven}

\* fold
Fold(roles) ==
  LET held == {roles[n] : n \in DOMAIN roles}
  IN  CASE held \cap WarehouseRole # {} /\ "unclassified" \in held -> "mixed"
        [] {"fact", "dimension"} \subseteq held /\ "unclassified" \notin held -> "olap"
        [] OTHER -> "oltp"

\* Mutant: a closed gate is reported, and its roles are kept.
DetectUngated(s) ==
  [ paradigm |-> Fold(Earned(s)), roles |-> Earned(s), unprovable |-> Unprovable(s),
    open |-> Qualifies(s), byOverride |-> FALSE ]

\* Detect: a schema without a deciding signal holds no warehouse role, whatever its names say.
Detect(s) ==
  LET open == Qualifies(s)
      roles == IF open THEN Earned(s) ELSE NoRoles(s)
  IN  [ paradigm |-> Fold(roles), roles |-> roles, unprovable |-> IF open THEN Unprovable(s) ELSE {},
        open |-> open, byOverride |-> FALSE ]

\* Resolve: the developer's olap or mixed restores what a closed gate withheld.
Resolve(s, override) ==
  LET detected == Detect(s)
  IN  CASE override = "auto" -> detected
        [] override \in {"olap", "mixed"} /\ ~detected.open ->
             [detected EXCEPT !.paradigm = override, !.roles = Earned(s), !.open = TRUE,
                              !.byOverride = TRUE]
        [] OTHER -> [detected EXCEPT !.paradigm = override]
=============================================================================
