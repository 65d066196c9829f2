---------------------------- MODULE SchemaRules ----------------------------
(***************************************************************************)
(* core/dbrules and core/crossrules over a schema: a function from the     *)
(* names of its tables to records of their columns (a set of names), key,  *)
(* indexes and foreign keys, and whether the structure is proven.  The     *)
(* rules read nothing else of it.  A filter is a table and the set of the  *)
(* columns the code filters it by.                                         *)
(***************************************************************************)
EXTENDS Integers, Sequences, SequencesExt, FiniteSets

CONSTANTS
  Column,
  TypeOf,        \* of a column: "int", "string", "text", "bytes", "bool", "enum", "datetime", ...
  ListColumn,    \* columns of an array type
  AuditStamp,    \* columns named for when their row was created or changed
  Sensitive,     \* columns with a sensitive token in their name
  BaseOf,        \* the name of a numbered column without its number, "" of another
  Filter

Elements(cols) == {cols[i] : i \in DOMAIN cols}

-----------------------------------------------------------------------------
(* core/db/indexcover.go *)

IndexLike(t) == {x.cols : x \in t.indexes} \cup ({t.key} \ {<<>>})

UniqueKeys(t) == {x.cols : x \in {y \in t.indexes : y.unique}} \cup ({t.key} \ {<<>>})

\* The columns lead an index, in their order.
CoveredByOrderedPrefix(t, cols) == cols # <<>> /\ \E c \in IndexLike(t) : IsPrefix(cols, c)

\* The columns lead an index, in any order.
CoveredBySetPrefix(t, S) ==
  S # {} /\ \E c \in IndexLike(t) :
              Len(c) >= Cardinality(S) /\ Elements(SubSeq(c, 1, Cardinality(S))) = S

\* A filter by every column of a unique key finds at most one row.
CoveredByUniqueSubset(t, S) ==
  S # {} /\ \E k \in UniqueKeys(t) : k # <<>> /\ Elements(k) \subseteq S

\* An audit timestamp is a moment, or a number that can be one.
IsAuditTimestamp(c) == c \in AuditStamp /\ TypeOf[c] \in {"datetime", "int"}

-----------------------------------------------------------------------------
(* core/dbrules: what each rule raises, by the element it is anchored to. *)

\* DB-050: affirmed of a proven table; of an unproven one it is a question.
\* Mutant: affirmed of any table.
NoPrimaryKeyAnywhere(s) == {n \in DOMAIN s : s[n].key = <<>>}

NoPrimaryKey(s) == {n \in DOMAIN s : s[n].key = <<>> /\ s[n].proven}
UnprovenTable(s) == {n \in DOMAIN s : s[n].key = <<>> /\ ~s[n].proven}

\* DB-001, of the foreign keys of a proven table.
ForeignKeyNoIndex(s) ==
  UNION {{n} \X {f \in s[n].foreign : s[n].proven /\ ~CoveredByOrderedPrefix(s[n], f.cols)} : n \in DOMAIN s}

\* DB-011a: of the indexes over the same columns, all but the first in the text.
Earlier(x, y) ==
  \/ x.at[2] < y.at[2]
  \/ x.at[2] = y.at[2] /\ x.at[1] < y.at[1]
  \/ x.at[2] = y.at[2] /\ x.at[1] = y.at[1] /\ x.at[3] < y.at[3]
\* Mutant: the first of them too.
DuplicatesAll(t) ==
  {x \in t.indexes : x.cols # <<>> /\
     \E y \in t.indexes \ {x} : y.cols = x.cols /\ y.unique = x.unique}

Duplicates(t) ==
  {x \in t.indexes : x.cols # <<>> /\
     \E y \in t.indexes : y.cols = x.cols /\ y.unique = x.unique /\ Earlier(y, x)}

\* DB-011b: an index that enforces nothing and leads a longer one.
StrictPrefix(short, long) == short # <<>> /\ IsStrictPrefix(short, long)
Subsumed(t) ==
  {x \in t.indexes : ~x.unique /\
     (StrictPrefix(x.cols, t.key) \/ \E y \in t.indexes : StrictPrefix(x.cols, y.cols))}

\* DB-002
Multivalued(s) == UNION {{n} \X (s[n].cols \cap ListColumn) : n \in DOMAIN s}

\* DB-003: two or more columns of one base and one type.
Members(t, base) == {c \in t.cols : BaseOf[c] = base}
RepeatingGroups(s) ==
  LET groups(t) == {base \in {BaseOf[c] : c \in t.cols} \ {""} :
                      /\ Cardinality(Members(t, base)) >= 2
                      /\ \A c, d \in Members(t, base) : TypeOf[c] = TypeOf[d]}
  IN  UNION {{n} \X groups(s[n]) : n \in DOMAIN s}

\* DB-051: a foreign key of text, or of a string where the column it refers to is a number.
TextKey(s, n, f) ==
  \/ \E i \in DOMAIN f.cols : f.cols[i] \in s[n].cols /\ TypeOf[f.cols[i]] = "text"
  \/ \E i \in DOMAIN f.cols \cap DOMAIN f.to :
       /\ f.cols[i] \in s[n].cols /\ TypeOf[f.cols[i]] = "string"
       /\ f.ref \in DOMAIN s /\ f.to[i] \in s[f.ref].cols /\ TypeOf[f.to[i]] = "int"
ForeignKeyTextType(s) ==
  UNION {{n} \X {f \in s[n].foreign : TextKey(s, n, f)} : n \in DOMAIN s}

\* DB-052, of a proven table.
NoTimestamps(s) == {n \in DOMAIN s : s[n].proven /\ \A c \in s[n].cols : ~IsAuditTimestamp(c)}

\* DB-053
SensitiveUnencrypted(s) ==
  UNION {{n} \X {c \in s[n].cols \cap Sensitive : TypeOf[c] \in {"string", "text", "bytes"}} : n \in DOMAIN s}

-----------------------------------------------------------------------------
(* core/crossrules: the filters of the code against the schema. *)

\* reconcile: the columns of the filter that are columns of its table.
RealColumns(s, f) == IF f.model \in DOMAIN s THEN f.cols \cap s[f.model].cols ELSE {}

arityAbstainThreshold == 4

\* DB-010: one column, unless its type has few values.
FilteredColumnNoIndex(s) ==
  {<<f.model, RealColumns(s, f)>> :
     f \in {g \in Filter :
              LET S == RealColumns(s, g)  t == s[g.model]
              IN  /\ Cardinality(S) = 1
                  /\ ~CoveredByUniqueSubset(t, S)
                  /\ \A c \in S : ~CoveredByOrderedPrefix(t, <<c>>) /\ TypeOf[c] \notin {"bool", "enum"}}}

\* DB-013: two or more columns, but not so many that no index would serve them.
NoCompositeIndex(s) ==
  {<<f.model, RealColumns(s, f)>> :
     f \in {g \in Filter :
              LET S == RealColumns(s, g)  t == s[g.model]
              IN  /\ Cardinality(S) >= 2
                  /\ Cardinality(S) < arityAbstainThreshold
                  /\ ~CoveredByUniqueSubset(t, S)
                  /\ ~CoveredBySetPrefix(t, S)}}
=============================================================================
