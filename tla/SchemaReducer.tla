--------------------------- MODULE SchemaReducer ---------------------------
(***************************************************************************)
(* providers/sqlddl: the fold of a project's SQL sources, in their order,  *)
(* into the neutral schema (builder.apply and what it calls).              *)
(*                                                                         *)
(* A statement of the text is a record: the heads it matches (`shapes'),   *)
(* and what those branches read of it.  A CREATE TABLE body and the parts  *)
(* of an ALTER TABLE are reduced one item per step, as the loops do.  The  *)
(* position of an element is <<file, statement, item>>: two elements of    *)
(* the same columns at two positions are two elements.  A slice of the     *)
(* schema is a set of such elements.                                       *)
(***************************************************************************)
EXTENDS Integers, Sequences, FiniteSets

CONSTANTS
  Name,          \* relations, by their normalized names
  Column,
  IndexName,
  Method,        \* access methods an index may name
  Scheme, PartitionFunction, Strategy,
  Id,            \* the statements are told apart by their place in the text
  Statement,
  Files,         \* the sources are read in the order 1..Files
  Dialect,       \* inlineTriggers, partitionSchemes, hashTemps
  None           \* an absent name, statement, table, file or strategy

File == 1..Files

NoPartition == [declared |-> FALSE, strategy |-> None, of |-> None]

\* The items of a body, and what an ALTER TABLE adds.  Two spellings are left out, which the code
\* misreads: a column named like an index keyword and of a type with arguments that the dialect does
\* not know, which is read as an index, and a key or an index said of a column in other words than
\* PRIMARY KEY and UNIQUE (a bare KEY, SERIAL, an inline INDEX), which is not read.
ColumnItem == [kind : {"column"}, name : Column, inline : SUBSET {"key", "unique"},
               ref : Name \cup {None}, to : Seq(Column)]
KeyItem    == [kind : {"primaryKey", "unique", "index"}, cols : Seq(Column), method : Method]
ForeignItem == [kind : {"foreignKey"}, cols : Seq(Column), ref : Name \cup {None}, to : Seq(Column)]
OtherItem  == [kind : {"check", "garbled"}]
PlainItem  == ColumnItem \cup KeyItem \cup ForeignItem \cup OtherItem

\* Two items with no comma between them.  `headed' is whether the words of the second, past its
\* CONSTRAINT name, run straight to the parenthesis of a column list.
GluedItem  == [kind : {"glued"}, host : PlainItem, rest : PlainItem, headed : BOOLEAN]
Item == PlainItem \cup GluedItem

\* A part of an ALTER TABLE, by its leading word.
AddPart  == [verb : {"add", "bare"}, prefixed : BOOLEAN, guarded : BOOLEAN, item : PlainItem]
\* What is dropped is a column, or a key, an index or a constraint by its name, of which the
\* statement says no columns: `cols' are those it was declared over.
DropPart == [verb : {"drop"}, what : {"column"}, column : Column, cols : {<<>>}] \cup
            [verb : {"drop"}, what : {"key", "index", "foreignKey", "check"}, column : {None},
             cols : Seq(Column)]
RestPart == [verb : {"skip", "toggle", "rename", "other"}]
Part == AddPart \cup DropPart \cup RestPart

TailClause == [kind : {"none"}] \cup [kind : {"by"}, strategy : Strategy] \cup
        [kind : {"on"}, scheme : Scheme]

\* The heads, in the order in which apply tries them.
Dispatch == << "createTable", "partitionOf", "partitionScheme", "partitionFunction",
               "sequence", "alterTable", "dataOrPermission", "createIndex", "columnstore",
               "view", "routine", "trigger", "dropTable", "indexShaped", "sessionScoped",
               "hashPrefixed", "tableShaped" >>

\* The heads only some dialects have.
Spoken(shape) ==
  /\ shape \in {"partitionScheme", "partitionFunction"} => Dialect.partitionSchemes
  /\ shape = "hashPrefixed" => Dialect.hashTemps

\* The branch of apply that takes the statement.
Branch(st) ==
  LET taken == {i \in DOMAIN Dispatch : Dispatch[i] \in st.shapes /\ Spoken(Dispatch[i])}
  IN  IF taken = {} THEN "default"
      ELSE Dispatch[CHOOSE i \in taken : \A j \in taken : i <= j]

ASSUME ReducerAssumption ==
  /\ Files \in Nat \ {0}
  /\ None \notin Name /\ None \notin Column /\ None \notin IndexName /\ None \notin Strategy
  /\ None \notin Id /\ None \notin PartitionFunction
  /\ \A st, other \in Statement : st.id = other.id => st = other
  /\ \A st \in Statement :
       /\ st.id \in Id
       /\ Branch(st) = "createTable" =>
            /\ st.name \in Name
            /\ st.guarded \in BOOLEAN
            /\ st.balanced \in BOOLEAN
            /\ st.items \in Seq(Item)
            /\ st.tail \in TailClause
            /\ st.runOn \in Id \cup {None}
       /\ Branch(st) = "partitionOf" => st.name \in Name /\ st.parent \in Name
       /\ Branch(st) = "partitionScheme" => st.scheme \in Scheme /\ st.function \in PartitionFunction
       /\ Branch(st) = "partitionFunction" => st.function \in PartitionFunction /\ st.strategy \in Strategy
       /\ Branch(st) \in {"sequence", "view"} => st.name \in Name
       /\ Branch(st) = "alterTable" => st.name \in Name \cup {None} /\ st.parts \in Seq(Part)
       /\ Branch(st) = "createIndex" =>
            /\ st.table \in Name
            /\ st.index \in IndexName \cup {None}
            /\ st.guarded \in BOOLEAN
            /\ st.unique \in BOOLEAN
            /\ st.cols \in Seq(Column)
            /\ st.method \in Method
            /\ st.captured \in BOOLEAN
       /\ Branch(st) = "columnstore" =>
            st.table \in Name /\ st.index \in IndexName /\ st.guarded \in BOOLEAN
       /\ Branch(st) = "dropTable" => st.names \in Seq(Name) \ {<<>>}
       /\ Branch(st) = "indexShaped" => st.table \in Name \cup {None}
  /\ "columnstore" \in Method /\ "" \in Method

-----------------------------------------------------------------------------
VARIABLES
  file,          \* the source being read
  left,          \* the places of the statements not read yet
  pending,       \* the place of a statement found after a CREATE TABLE that no delimiter ended
  work,          \* the item loop in progress
  tables,        \* builder.tables; None is no table of that name
  nonTable,      \* nonTableRelations
  seenIndex,
  elements,      \* views, procedures and triggers
  unreduced, withheld,   \* Schema.Unreduced, Schema.Withheld: their positions
  total, satisfied, silent,   \* the census: statements met, and the two outcomes
  schemeFunction, functionStrategy

vars == << file, left, pending, work, tables, nonTable, seenIndex, elements, unreduced,
           withheld, total, satisfied, silent, schemeFunction, functionStrategy >>

Position == File \X Id \X Nat
At(st, i) == << file, st.id, i >>

Reason == {"unreducedStatement", "malformedBody", "neverDeclared", "partitionChild"}

Table ==
  [ at : Position,
    cols : SUBSET [name : Column, at : Position],
    key : Seq(Column),
    foreign : SUBSET [cols : Seq(Column), ref : Name, to : Seq(Column), at : Position],
    indexes : SUBSET [cols : Seq(Column), unique : BOOLEAN, method : Method, at : Position],
    partition : [declared : BOOLEAN, strategy : Strategy \cup {None}, of : Name \cup {None}],
    unreduced : SUBSET [reason : Reason, at : Position] ]

\* Table.Complete: created TRUE, and set FALSE by MarkUnproven alone.
StructureProven(t) == t.unreduced = {}

Names(t) == {c.name : c \in t.cols}

NewTable(at) ==
  [ at |-> at, cols |-> {}, key |-> <<>>, foreign |-> {}, indexes |-> {},
    partition |-> NoPartition, unreduced |-> {} ]

MarkUnproven(t, reason, at) ==
  [t EXCEPT !.unreduced = @ \cup {[reason |-> reason, at |-> at]}]

\* getTable, and the reason a table met before any CREATE TABLE of its name gets.
GetTable(n, at) == IF tables[n] = None THEN NewTable(at) ELSE tables[n]
GetMentioned(n, at) ==
  IF tables[n] = None THEN MarkUnproven(NewTable(at), "neverDeclared", at) ELSE tables[n]

IsKnownNonTable(n) == tables[n] = None /\ n \in nonTable

NoWork == [kind |-> "none", table |-> None, items |-> <<>>, adding |-> FALSE,
           satisfied |-> FALSE, first |-> FALSE, id |-> None, next |-> 0, tail |-> [kind |-> "none"]]
Idle == work = NoWork

-----------------------------------------------------------------------------
(* What an item makes of the table. *)

\* applyColumn: the modifiers are read outside parentheses and quotes.
ApplyColumn(t, c, at) ==
  [t EXCEPT
    !.cols = @ \cup {[name |-> c.name, at |-> at]},
    !.key = IF "key" \in c.inline THEN Append(@, c.name) ELSE @,
    !.indexes = IF "unique" \in c.inline
                THEN @ \cup {[cols |-> <<c.name>>, unique |-> TRUE, method |-> "", at |-> at]}
                ELSE @,
    !.foreign = IF c.ref = None THEN @
                ELSE @ \cup {[cols |-> <<c.name>>, ref |-> c.ref, to |-> c.to, at |-> at]}]

\* A key, an index or a foreign key whose columns cannot be read is recorded, never guessed.
Readable(c) ==
  CASE c.kind \in {"primaryKey", "unique", "index"} -> c.cols # <<>>
    [] c.kind = "foreignKey" -> c.cols # <<>> /\ c.ref # None
    [] OTHER -> c.kind = "check"

\* applyTableConstraint
ApplyConstraint(t, c, at) ==
  IF ~Readable(c) THEN MarkUnproven(t, "unreducedStatement", at)
  ELSE CASE c.kind = "primaryKey" -> [t EXCEPT !.key = c.cols]
         [] c.kind = "foreignKey" ->
              [t EXCEPT !.foreign = @ \cup {[cols |-> c.cols, ref |-> c.ref, to |-> c.to, at |-> at]}]
         [] c.kind \in {"unique", "index"} ->
              [t EXCEPT !.indexes = @ \cup {[cols |-> c.cols, unique |-> c.kind = "unique",
                                             method |-> c.method, at |-> at]}]
         [] OTHER -> t

\* applyTableItem, of an item without a missing comma.
ApplyItem(t, item, at) ==
  IF item.kind = "column" THEN ApplyColumn(t, item, at) ELSE ApplyConstraint(t, item, at)

\* isTableConstraintHead: the one thing the words PRIMARY KEY, UNIQUE and FOREIGN KEY can mean before
\* a column list is a constraint of the table.  Any other second item is part of the first one.
Cut(item) == item.headed /\ item.rest.kind \in {"primaryKey", "unique", "foreignKey"}

\* What applyColumn reads of a column whose definition runs into another item: the words PRIMARY KEY,
\* UNIQUE and REFERENCES are modifiers of the column, wherever they come from.
KeyWords(item) ==
  CASE item.kind = "column" -> item.inline
    [] item.kind = "primaryKey" -> {"key"}
    [] item.kind = "unique" -> {"unique"}
    [] OTHER -> {}
Refers(item) == item.kind \in {"column", "foreignKey"} /\ item.ref # None
Absorbed(host, rest) ==
  IF host.kind # "column" THEN host
  ELSE [host EXCEPT !.inline = @ \cup KeyWords(rest),
                    !.ref = IF @ = None /\ Refers(rest) THEN rest.ref ELSE @,
                    !.to = IF host.ref = None /\ Refers(rest) THEN rest.to ELSE @]

\* dropColumn: the keys and indexes over the column stay.
DropColumn(t, c) == [t EXCEPT !.cols = {d \in @ : d.name # c}]

\* readPartitioning: a scheme nobody declared leaves the strategy empty.
ReadPartitioning(tail) ==
  CASE tail.kind = "by" -> [declared |-> TRUE, strategy |-> tail.strategy, of |-> None]
    [] tail.kind = "on" /\ Dialect.partitionSchemes ->
         [declared |-> TRUE, of |-> None,
          strategy |-> LET f == schemeFunction[tail.scheme]
                       IN  IF f = None THEN None ELSE functionStrategy[f]]
    [] OTHER -> NoPartition

-----------------------------------------------------------------------------
(* Reading a statement: what every branch of apply shares. *)

Put(n, t) == tables' = [tables EXCEPT ![n] = t]

\* The next statement of the source, or the one found after the last CREATE TABLE.
Due(st) == Idle /\ (IF pending = None THEN st.id \in left ELSE st.id = pending)

\* countStatement, and the statement's removal from what is still to be read.
Take(st, runOn) ==
  /\ Due(st)
  /\ left' = left \ {st.id}
  /\ pending' = runOn
  /\ total' = [total EXCEPT ![file] = @ + 1]
  /\ UNCHANGED file

Unaccounted == UNCHANGED << satisfied, silent >>
Unpartitioned == UNCHANGED << schemeFunction, functionStrategy >>
Undeclared == UNCHANGED << unreduced, withheld >>
NoLoop == UNCHANGED work
Unnamed == UNCHANGED << nonTable, seenIndex, elements >>

\* A statement found after a CREATE TABLE leaves a trace even when no branch knows it.
RecordResidual(st) ==
  unreduced' = IF pending = None THEN unreduced ELSE unreduced \cup {At(st, 0)}

\* applyCreateTable: a repeated declaration is satisfied if it is guarded, else unproven.
CreateTable(st) ==
  /\ Branch(st) = "createTable"
  /\ Take(st, IF st.balanced THEN st.runOn ELSE None)
  /\ CASE tables[st.name] # None /\ st.guarded ->
            /\ satisfied' = [satisfied EXCEPT ![file] = @ + 1]
            /\ UNCHANGED << tables, work >>
       [] tables[st.name] # None /\ ~st.guarded ->
            /\ Put(st.name, MarkUnproven(tables[st.name], "unreducedStatement", At(st, 0)))
            /\ UNCHANGED << satisfied, work >>
       [] tables[st.name] = None /\ ~st.balanced ->
            /\ Put(st.name, MarkUnproven(NewTable(At(st, 0)), "malformedBody", At(st, 0)))
            /\ UNCHANGED << satisfied, work >>
       [] OTHER ->
            /\ Put(st.name, NewTable(At(st, 0)))
            /\ work' = [NoWork EXCEPT !.kind = "body", !.table = st.name, !.items = st.items,
                                      !.id = st.id, !.next = 1, !.tail = st.tail]
            /\ UNCHANGED satisfied
  /\ UNCHANGED silent /\ Unpartitioned /\ Undeclared /\ Unnamed

\* applyCreateTablePartitionOf: the structure is the parent's, and not in this statement.
CreatePartitionOf(st) ==
  /\ Branch(st) = "partitionOf"
  /\ Take(st, None)
  /\ Put(st.name, MarkUnproven([GetTable(st.name, At(st, 0)) EXCEPT
                                  !.partition = [declared |-> TRUE, strategy |-> None, of |-> st.parent]],
                               "partitionChild", At(st, 0)))
  /\ Unaccounted /\ Unpartitioned /\ Undeclared /\ Unnamed /\ NoLoop

CreatePartitionScheme(st) ==
  /\ Branch(st) = "partitionScheme"
  /\ Take(st, None)
  /\ schemeFunction' = [schemeFunction EXCEPT ![st.scheme] = st.function]
  /\ UNCHANGED << tables, functionStrategy >>
  /\ Unaccounted /\ Undeclared /\ Unnamed /\ NoLoop

CreatePartitionFunction(st) ==
  /\ Branch(st) = "partitionFunction"
  /\ Take(st, None)
  /\ functionStrategy' = [functionStrategy EXCEPT ![st.function] = st.strategy]
  /\ UNCHANGED << tables, schemeFunction >>
  /\ Unaccounted /\ Undeclared /\ Unnamed /\ NoLoop

CreateSequence(st) ==
  /\ Branch(st) = "sequence"
  /\ Take(st, None)
  /\ nonTable' = nonTable \cup {st.name}
  /\ UNCHANGED << tables, seenIndex, elements >>
  /\ Unaccounted /\ Unpartitioned /\ Undeclared /\ NoLoop

CreateView(st) ==
  /\ Branch(st) = "view"
  /\ Take(st, None)
  /\ nonTable' = nonTable \cup {st.name}
  /\ elements' = elements \cup {At(st, 0)}
  /\ UNCHANGED << tables, seenIndex >>
  /\ Unaccounted /\ Unpartitioned /\ Undeclared /\ NoLoop

CreateRoutineOrTrigger(st) ==
  /\ Branch(st) \in {"routine", "trigger"}
  /\ Take(st, None)
  /\ elements' = elements \cup {At(st, 0)}
  /\ UNCHANGED << tables, nonTable, seenIndex >>
  /\ Unaccounted /\ Unpartitioned /\ Undeclared /\ NoLoop

\* applyAlterTable, up to its loop: of a table no grammar reads the name of, of a view or a
\* sequence, or of a table, which it creates if it was never declared.
AlterTable(st) ==
  /\ Branch(st) = "alterTable"
  /\ Take(st, None)
  /\ CASE st.name = None ->
            /\ unreduced' = unreduced \cup {At(st, 0)}
            /\ UNCHANGED << tables, work >>
       [] st.name # None /\ IsKnownNonTable(st.name) -> UNCHANGED << unreduced, tables, work >>
       [] OTHER ->
            /\ Put(st.name, GetMentioned(st.name, At(st, 0)))
            /\ work' = [NoWork EXCEPT !.kind = "alter", !.table = st.name, !.items = st.parts,
                                      !.id = st.id, !.next = 1, !.first = TRUE,
                                      !.satisfied = st.parts # <<>>]
            /\ UNCHANGED unreduced
  /\ UNCHANGED withheld /\ Unaccounted /\ Unpartitioned /\ Unnamed

\* Data and permissions: recognized, and no schema in them.
DataOrPermission(st) ==
  /\ Branch(st) = "dataOrPermission"
  /\ Take(st, None)
  /\ RecordResidual(st)
  /\ silent' = [silent EXCEPT ![file] = @ + 1]
  /\ UNCHANGED << tables, satisfied, withheld >> /\ Unpartitioned /\ Unnamed /\ NoLoop

\* markUnrecognizedIndexShape: on the table it names, else on the schema.
UnreadIndex(st) ==
  /\ IF st.table # None /\ ~IsKnownNonTable(st.table)
     THEN /\ Put(st.table,
                 IF tables[st.table] = None THEN GetMentioned(st.table, At(st, 0))
                 ELSE MarkUnproven(tables[st.table], "unreducedStatement", At(st, 0)))
          /\ UNCHANGED unreduced
     ELSE /\ unreduced' = unreduced \cup {At(st, 0)}
          /\ UNCHANGED tables
  /\ UNCHANGED seenIndex

AddIndex(st, cols, unique, method) ==
  LET t == GetMentioned(st.table, At(st, 0))
  IN  Put(st.table, [t EXCEPT !.indexes = @ \cup {[cols |-> cols, unique |-> unique,
                                                   method |-> method, at |-> At(st, 0)]}])

\* An index of a view or a sequence, and one IF NOT EXISTS already created, add nothing.
Skipped(st) ==
  \/ IsKnownNonTable(st.table)
  \/ st.index # None /\ st.guarded /\ st.index \in seenIndex

Remember(st) ==
  seenIndex' = IF st.index = None \/ IsKnownNonTable(st.table) THEN seenIndex
               ELSE seenIndex \cup {st.index}

\* applyCreateIndex: a column list the grammar did not capture whole is not read.
CreateIndex(st) ==
  /\ Branch(st) = "createIndex"
  /\ Take(st, None)
  /\ CASE ~st.captured -> UnreadIndex(st)
       [] st.captured /\ Skipped(st) -> UNCHANGED << tables, unreduced, seenIndex >>
       [] OTHER -> /\ Remember(st)
                   /\ AddIndex(st, st.cols, st.unique, st.method)
                   /\ UNCHANGED unreduced
  /\ UNCHANGED << withheld, nonTable, elements >> /\ Unaccounted /\ Unpartitioned /\ NoLoop

\* applyCreateColumnstoreIndex: over no column list.
CreateColumnstore(st) ==
  /\ Branch(st) = "columnstore"
  /\ Take(st, None)
  /\ IF Skipped(st) THEN UNCHANGED << tables, seenIndex >>
     ELSE Remember(st) /\ AddIndex(st, <<>>, FALSE, "columnstore")
  /\ UNCHANGED << nonTable, elements >> /\ Undeclared /\ Unaccounted /\ Unpartitioned /\ NoLoop

IndexShaped(st) ==
  /\ Branch(st) = "indexShaped"
  /\ Take(st, None)
  /\ UnreadIndex(st)
  /\ UNCHANGED << withheld, nonTable, elements >> /\ Unaccounted /\ Unpartitioned /\ NoLoop

\* dropTable, of the first name alone.
DropTable(st) ==
  /\ Branch(st) = "dropTable"
  /\ Take(st, None)
  /\ Put(Head(st.names), None)
  /\ Unaccounted /\ Unpartitioned /\ Undeclared /\ Unnamed /\ NoLoop

\* withholdSessionScopedTable
SessionScoped(st) ==
  /\ Branch(st) \in {"sessionScoped", "hashPrefixed"}
  /\ Take(st, None)
  /\ withheld' = withheld \cup {At(st, 0)}
  /\ UNCHANGED << tables, unreduced >> /\ Unaccounted /\ Unpartitioned /\ Unnamed /\ NoLoop

\* Mutant: a table-shaped statement nothing reads is skipped like any other.
TableShapedSkipped(st) ==
  /\ Branch(st) = "tableShaped"
  /\ Take(st, None)
  /\ RecordResidual(st)
  /\ UNCHANGED << tables, withheld >> /\ Unaccounted /\ Unpartitioned /\ Unnamed /\ NoLoop

\* declareUnrecognizedTableShape: the statement is kept, and no table is guessed.
TableShaped(st) ==
  /\ Branch(st) = "tableShaped"
  /\ Take(st, None)
  /\ unreduced' = unreduced \cup {At(st, 0)}
  /\ UNCHANGED << tables, withheld >> /\ Unaccounted /\ Unpartitioned /\ Unnamed /\ NoLoop

\* The default branch: a kind of statement that is skipped on purpose.
Skip(st) ==
  /\ Branch(st) = "default"
  /\ Take(st, None)
  /\ RecordResidual(st)
  /\ UNCHANGED << tables, withheld >> /\ Unaccounted /\ Unpartitioned /\ Unnamed /\ NoLoop

Apply(st) ==
  \/ CreateTable(st) \/ CreatePartitionOf(st)
  \/ CreatePartitionScheme(st) \/ CreatePartitionFunction(st)
  \/ CreateSequence(st) \/ CreateView(st) \/ CreateRoutineOrTrigger(st)
  \/ AlterTable(st) \/ DataOrPermission(st)
  \/ CreateIndex(st) \/ CreateColumnstore(st) \/ IndexShaped(st)
  \/ DropTable(st) \/ SessionScoped(st) \/ TableShaped(st) \/ Skip(st)

-----------------------------------------------------------------------------
(* The loops over a body's items and an ALTER TABLE's parts. *)

InLoop == UNCHANGED << file, left, pending, nonTable, seenIndex, elements, unreduced, withheld,
                       total, silent, schemeFunction, functionStrategy >>

Looping(kind) == work.kind = kind /\ work.items # <<>>
Here == << file, work.id, work.next >>
Subject == tables[work.table]
Continue == [work EXCEPT !.items = Tail(@), !.next = @ + 1, !.first = FALSE]

\* Mutant: the key after a missing comma is read as modifiers of the column before it.
BodyItemUncut ==
  /\ Looping("body")
  /\ LET item == Head(work.items)
     IN  Put(work.table, ApplyItem(Subject, IF item.kind = "glued" THEN Absorbed(item.host, item.rest)
                                            ELSE item, Here))
  /\ work' = Continue
  /\ InLoop /\ UNCHANGED satisfied

\* applyTableItem, of an item that is cut, of two that are read as one, or of one.
BodyItem ==
  /\ Looping("body")
  /\ LET item == Head(work.items)
     IN  Put(work.table,
             CASE item.kind = "glued" /\ Cut(item) ->
                    ApplyItem(ApplyItem(Subject, item.host, Here), item.rest, Here)
               [] item.kind = "glued" /\ ~Cut(item) ->
                    ApplyItem(Subject, Absorbed(item.host, item.rest), Here)
               [] OTHER -> ApplyItem(Subject, item, Here))
  /\ work' = Continue
  /\ InLoop /\ UNCHANGED satisfied

BodyEnd ==
  /\ work.kind = "body" /\ work.items = <<>>
  /\ Put(work.table, [Subject EXCEPT !.partition = ReadPartitioning(work.tail)])
  /\ work' = NoWork
  /\ InLoop /\ UNCHANGED satisfied

\* WITH CHECK is read past in the first part only.
Verb(part) ==
  IF part.verb \in {"add", "bare"} /\ part.prefixed /\ ~work.first THEN "other" ELSE part.verb

\* isAddListContinuation: after an ADD, a table constraint needs no ADD of its own.
Adds(part) ==
  \/ Verb(part) = "add"
  \/ Verb(part) = "bare" /\ work.adding /\ part.item.kind \notin {"column", "index"}

AlreadyThere(part) == part.item.kind = "column" /\ part.item.name \in Names(Subject)

\* applyAlterAdd, of a column the table already has.
AlterAddExisting ==
  /\ Looping("alter")
  /\ Adds(Head(work.items)) /\ AlreadyThere(Head(work.items))
  /\ work' = [Continue EXCEPT !.adding = TRUE]
  /\ InLoop /\ UNCHANGED << tables, satisfied >>

AlterAdd ==
  /\ Looping("alter")
  /\ Adds(Head(work.items)) /\ ~AlreadyThere(Head(work.items))
  /\ Put(work.table, ApplyItem(Subject, Head(work.items).item, Here))
  /\ work' = [Continue EXCEPT !.adding = TRUE, !.satisfied = FALSE]
  /\ InLoop /\ UNCHANGED satisfied

\* Mutant: a part that drops a column leaves the statement satisfied.
AlterDropSatisfied ==
  /\ Looping("alter")
  /\ Head(work.items).verb = "drop"
  /\ Put(work.table, DropColumn(Subject, Head(work.items).column))
  /\ work' = [Continue EXCEPT !.adding = FALSE]
  /\ InLoop /\ UNCHANGED satisfied

\* applyAlterAction: DROP takes the word after it for a column, so that DROP CONSTRAINT, PRIMARY KEY
\* and INDEX drop a column nobody has; the recognized skips; and what nothing recognizes.
AlterDrop ==
  /\ Looping("alter")
  /\ Head(work.items).verb = "drop"
  /\ Put(work.table, DropColumn(Subject, Head(work.items).column))
  /\ work' = [Continue EXCEPT !.adding = FALSE, !.satisfied = FALSE]
  /\ InLoop /\ UNCHANGED satisfied

AlterSkip ==
  /\ Looping("alter")
  /\ Head(work.items).verb \in {"skip", "toggle", "rename"}
  /\ work' = [Continue EXCEPT !.adding = FALSE, !.satisfied = FALSE]
  /\ InLoop /\ UNCHANGED << tables, satisfied >>

AlterUnread ==
  /\ Looping("alter")
  /\ Head(work.items).verb \in {"add", "bare", "other"} /\ ~Adds(Head(work.items))
  /\ Put(work.table, MarkUnproven(Subject, "unreducedStatement", Here))
  /\ work' = [Continue EXCEPT !.adding = FALSE, !.satisfied = FALSE]
  /\ InLoop /\ UNCHANGED satisfied

\* The statement is accounted for only if each of its parts was satisfied.
AlterEnd ==
  /\ work.kind = "alter" /\ work.items = <<>>
  /\ satisfied' = IF work.satisfied THEN [satisfied EXCEPT ![file] = @ + 1] ELSE satisfied
  /\ work' = NoWork
  /\ InLoop /\ UNCHANGED tables

Loop == \/ BodyItem \/ BodyEnd
        \/ AlterAddExisting \/ AlterAdd \/ AlterDrop \/ AlterSkip \/ AlterUnread \/ AlterEnd

\* The next source.
NextFile ==
  /\ Idle /\ pending = None /\ file < Files
  /\ file' = file + 1
  /\ UNCHANGED << left, pending, work, tables, nonTable, seenIndex, elements, unreduced, withheld,
                  total, satisfied, silent, schemeFunction, functionStrategy >>

Init ==
  /\ file = 1
  /\ left = {st.id : st \in Statement}
  /\ pending = None
  /\ work = NoWork
  /\ tables = [n \in Name |-> None]
  /\ nonTable = {} /\ seenIndex = {} /\ elements = {}
  /\ unreduced = {} /\ withheld = {}
  /\ total = [f \in File |-> 0] /\ satisfied = [f \in File |-> 0] /\ silent = [f \in File |-> 0]
  /\ schemeFunction = [s \in Scheme |-> None]
  /\ functionStrategy = [f \in PartitionFunction |-> None]

Next == (\E st \in Statement : Apply(st)) \/ Loop \/ NextFile

Spec == Init /\ [][Next]_vars
=============================================================================
