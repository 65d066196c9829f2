-------------------------- MODULE DeclaredSchema ---------------------------
(***************************************************************************)
(* What the statements of a project's sources make of its database, next   *)
(* to what codefit's reducer makes of them: the database executes each     *)
(* statement as a whole, with its own rules, and refuses the ones it       *)
(* cannot execute; the reducer works through the text.                     *)
(***************************************************************************)
EXTENDS SchemaReducer

CONSTANTS
  Before,    \* databases the sources may find: tables no source declares
  PerSource  \* a bound on the statements of a source

ASSUME PerSourceAssumption == PerSource \in Nat

\* What a statement of each head may mean to the database, and what it then says.  An ALTER TABLE
\* that reshapes its table renames, retypes or drops columns in words the reducer has no reading for;
\* one that means nothing is of a view or a sequence, or of a name no grammar reads; an index is of a
\* table the reducer reads the name of.  Inside an IF, a CREATE SCHEMA or a SELECT INTO no head is
\* matched, whatever the statement does.
Means(branch) ==
  CASE branch = "createTable" -> {"createTable"}
    [] branch = "partitionOf" -> {"createPartition"}
    [] branch = "alterTable" -> {"alterTable", "reshapeTable", "renameTable", "nothing"}
    [] branch \in {"createIndex", "columnstore", "indexShaped"} -> {"createIndex", "nothing"}
    [] branch = "dropTable" -> {"dropTable"}
    [] branch = "tableShaped" -> {"createTable", "createPartition", "nothing"}
    [] branch = "default" -> {"createTable", "alterTable", "reshapeTable", "renameTable", "createIndex",
                               "dropTable", "dropIndex", "nothing"}
    [] OTHER -> {"nothing"}

ASSUME MeaningAssumption ==
  \A st \in Statement :
    /\ st.does \in Means(Branch(st))
    /\ st.does = "createTable" => st.name \in Name /\ st.guarded \in BOOLEAN /\ st.items \in Seq(Item)
    /\ st.does = "createPartition" => st.name \in Name /\ st.parent \in Name
    /\ st.does = "alterTable" => st.name \in Name /\ st.parts \in Seq(Part)
    /\ st.does = "reshapeTable" =>
         st.name \in Name /\ st.takes \subseteq Column /\ st.gives \subseteq PlainItem
    /\ st.does = "renameTable" => st.name \in Name /\ st.to \in Name
    /\ st.does = "createIndex" =>
         /\ st.table \in Name /\ st.index \in IndexName \cup {None}
         /\ st.guarded \in BOOLEAN /\ st.unique \in BOOLEAN /\ st.cols \in Seq(Column)
    /\ st.does = "dropTable" => st.names \in Seq(Name)
    /\ st.does = "dropIndex" => st.index \in IndexName
    /\ Branch(st) = "alterTable" /\ st.does = "nothing" =>
         \A i \in DOMAIN st.parts : st.parts[i] \in RestPart
    /\ Branch(st) = "columnstore" /\ st.does = "createIndex" => st.cols = <<>> /\ ~st.unique

DBTable ==
  [ cols : SUBSET Column,
    keys : SUBSET Seq(Column),
    indexes : SUBSET [cols : Seq(Column), unique : BOOLEAN, name : IndexName \cup {None}],
    foreign : SUBSET [cols : Seq(Column), ref : Name \cup {None}] ]

ASSUME NoneAssumption == None \notin Table /\ None \notin DBTable

ASSUME BeforeAssumption == Before \subseteq [Name -> DBTable \cup {None}]

VARIABLES
  db,      \* the tables of the database
  blind,   \* tables a form the reducer skips by name has made it lose track of
  changed, \* sources of which a statement changed the database
  keyless  \* tables of which the reducer may have a key that the database has not

allVars == << vars, db, blind, changed, keyless >>

-----------------------------------------------------------------------------
(* What a set of items declares. *)

Flat(items) ==
  UNION {IF i.kind = "glued" THEN {i.host, i.rest} ELSE {i} : i \in {items[j] : j \in DOMAIN items}}

ColumnsIn(S) == {i \in S : i.kind = "column"}

Declares(S) ==
  [ cols |-> {i.name : i \in ColumnsIn(S)},
    keys |-> {i.cols : i \in {k \in S : k.kind = "primaryKey"}} \cup
             {<<i.name>> : i \in {k \in ColumnsIn(S) : "key" \in k.inline}},
    indexes |-> {[cols |-> i.cols, unique |-> i.kind = "unique", name |-> None]
                   : i \in {k \in S : k.kind \in {"unique", "index"}}} \cup
                {[cols |-> <<i.name>>, unique |-> TRUE, name |-> None]
                   : i \in {k \in ColumnsIn(S) : "unique" \in k.inline}},
    foreign |-> {[cols |-> i.cols, ref |-> i.ref] : i \in {k \in S : k.kind = "foreignKey"}} \cup
                {[cols |-> <<i.name>>, ref |-> i.ref] : i \in {k \in ColumnsIn(S) : k.ref # None}} ]

Join(t, u) ==
  [ cols |-> t.cols \cup u.cols, keys |-> t.keys \cup u.keys,
    indexes |-> t.indexes \cup u.indexes, foreign |-> t.foreign \cup u.foreign ]

\* The table without what the parts of an ALTER TABLE drop by its name.
Unconstrained(t, parts) ==
  LET dropped(what, cols) ==
        \E i \in DOMAIN parts : parts[i].verb = "drop" /\ parts[i].what = what /\ parts[i].cols = cols
  IN  [ cols |-> t.cols,
        keys |-> {k \in t.keys : ~dropped("key", k)},
        indexes |-> {x \in t.indexes : ~dropped("index", x.cols)},
        foreign |-> {f \in t.foreign : ~dropped("foreignKey", f.cols)} ]

\* The table without some columns, and without what was declared over them.
Without(t, C) ==
  LET apart(cols) == \A i \in DOMAIN cols : cols[i] \notin C
  IN  [ cols |-> t.cols \ C,
        keys |-> {k \in t.keys : apart(k)},
        indexes |-> {x \in t.indexes : apart(x.cols)},
        foreign |-> {f \in t.foreign : apart(f.cols)} ]

\* The parts of an ALTER TABLE.  What it drops it drops first, wherever it says so.
IsAdd(part) == part.verb \in {"add", "bare"}
AddsColumn(part, c) == IsAdd(part) /\ part.item.kind = "column" /\ part.item.name = c
Dropped(parts) == {parts[i].column : i \in {j \in DOMAIN parts : parts[j].verb = "drop"}} \ {None}
Remaining(t, parts) == Without(Unconstrained(t, parts), Dropped(parts))

\* IF NOT EXISTS leaves a column alone that is among the others, or was added by an earlier part.
Present(cols, parts, i) ==
  /\ parts[i].item.kind = "column"
  /\ \/ parts[i].item.name \in cols
     \/ \E j \in 1 .. i - 1 : AddsColumn(parts[j], parts[i].item.name)
Effective(cols, parts) == {i \in DOMAIN parts : IsAdd(parts[i]) /\ ~Present(cols, parts, i)}
AddedItems(cols, parts) == {parts[i].item : i \in Effective(cols, parts)}

\* A table has one primary key.
GivesKey(item) == item.kind = "primaryKey" \/ (item.kind = "column" /\ "key" \in item.inline)
OneKey(items) ==
  LET pieces(i) == Flat(<<items[i]>>)
  IN  /\ \A i, j \in DOMAIN items :
           (\E p \in pieces(i) : GivesKey(p)) /\ (\E p \in pieces(j) : GivesKey(p)) => i = j
      /\ \A i \in DOMAIN items :
           items[i].kind = "glued" => ~(GivesKey(items[i].host) /\ GivesKey(items[i].rest))
OneKeyAdded(cols, parts) ==
  \A i, j \in Effective(cols, parts) : GivesKey(parts[i].item) /\ GivesKey(parts[j].item) => i = j

-----------------------------------------------------------------------------
(* Execution.  `does' is what the statement means to the database. *)

Holds(t, index) == t # None /\ \E x \in t.indexes : x.name = index
Exists(index) == \E n \in Name : Holds(db[n], index)
Fresh(st) == st.index = None \/ ~Exists(st.index)

AcceptsParts(t, parts) ==
  LET rest == Remaining(t, parts)
  IN  /\ Dropped(parts) \subseteq t.cols
      /\ \A i \in DOMAIN parts : IsAdd(parts[i]) /\ Present(rest.cols, parts, i) => parts[i].guarded
      /\ OneKeyAdded(rest.cols, parts)
      /\ rest.keys # {} => \A item \in AddedItems(rest.cols, parts) : ~GivesKey(item)

Reshaped(t, st) == Join(Without(t, st.takes), Declares(st.gives))

Accepts(st) ==
  CASE st.does = "createTable" -> (db[st.name] = None \/ st.guarded) /\ OneKey(st.items)
    [] st.does = "createPartition" -> db[st.name] = None /\ db[st.parent] # None
    [] st.does = "alterTable" -> db[st.name] # None /\ AcceptsParts(db[st.name], st.parts)
    [] st.does = "reshapeTable" -> /\ db[st.name] # None /\ st.takes \subseteq db[st.name].cols
                                     /\ Cardinality(Reshaped(db[st.name], st).keys) <= 1
    [] st.does = "renameTable" -> db[st.name] # None /\ db[st.to] = None
    [] st.does = "createIndex" ->
         /\ db[st.table] # None
         /\ Fresh(st) \/ st.guarded
         /\ \A i \in DOMAIN st.cols : st.cols[i] \in db[st.table].cols
    [] st.does = "dropTable" -> \A i \in DOMAIN st.names : db[st.names[i]] # None
    [] st.does = "dropIndex" -> Exists(st.index)
    [] OTHER -> TRUE

WithIndex(t, index) == [t EXCEPT !.indexes = @ \cup {index}]

Altered(t, parts) ==
  LET rest == Remaining(t, parts)
  IN  Join(rest, Declares(AddedItems(rest.cols, parts)))

Execute(st) ==
  CASE st.does = "createTable" ->
         IF db[st.name] # None THEN db ELSE [db EXCEPT ![st.name] = Declares(Flat(st.items))]
    [] st.does = "createPartition" -> [db EXCEPT ![st.name] = db[st.parent]]
    [] st.does = "alterTable" ->
         [db EXCEPT ![st.name] = Altered(@, st.parts)]
    [] st.does = "reshapeTable" -> [db EXCEPT ![st.name] = Reshaped(@, st)]
    [] st.does = "renameTable" -> [db EXCEPT ![st.to] = db[st.name], ![st.name] = None]
    [] st.does = "createIndex" /\ Fresh(st) ->
         [db EXCEPT ![st.table] =
            WithIndex(@, [cols |-> st.cols, unique |-> st.unique, name |-> st.index])]
    [] st.does = "dropTable" ->
         [n \in Name |-> IF \E i \in DOMAIN st.names : st.names[i] = n THEN None ELSE db[n]]
    [] st.does = "dropIndex" ->
         [n \in Name |-> IF db[n] = None THEN None
                         ELSE [db[n] EXCEPT !.indexes = {x \in @ : x.name # st.index}]]
    [] OTHER -> db

\* A part drops the column an earlier part adds: the reducer takes the parts in their order.
AddsThenDrops(parts) ==
  \E i, j \in DOMAIN parts : i < j /\ parts[j].verb = "drop" /\ AddsColumn(parts[i], parts[j].column)

\* Two items of a body are read as one (dbcoverage's known limit 12).
RunTogether(items) == \E i \in DOMAIN items : items[i].kind = "glued" /\ ~Cut(items[i])

\* Of a statement no head matches the reducer reads no table.
Targets(st) ==
  CASE st.does \in {"createTable", "alterTable", "reshapeTable"} -> {st.name}
    [] st.does = "renameTable" -> {st.name, st.to}
    [] st.does = "createIndex" -> {st.table}
    [] st.does = "dropTable" -> {st.names[i] : i \in DOMAIN st.names}
    [] OTHER -> {}

\* The forms the reducer is known to lose: a table created, altered, renamed, indexed or dropped by a
\* statement no head matches, a RENAME of a table, the parts of an ALTER TABLE that rename or redefine
\* a column, the later names of a DROP TABLE or a DROP COLUMN, an ALTER TABLE that adds and then
\* drops, an index re-created IF NOT EXISTS after its table or itself was dropped, a guarded
\* CREATE TABLE of a table no source declares, and a body of which two items are read as one.
LosesTrackOf(st) ==
  IF Branch(st) = "default" THEN Targets(st)
  ELSE CASE st.does = "renameTable" -> {st.name, st.to}
         [] st.does = "reshapeTable" -> {st.name}
         [] st.does = "dropTable" -> {st.names[i] : i \in DOMAIN st.names \ {1}}
         [] st.does = "alterTable" /\ AddsThenDrops(st.parts) -> {st.name}
         [] st.does = "createIndex" /\ st.guarded /\ st.index \in seenIndex /\ Fresh(st) -> {st.table}
         [] st.does = "createTable" /\ st.guarded /\ (tables[st.name] = None) # (db[st.name] = None) ->
              {st.name}
         [] st.does = "createTable" /\ tables[st.name] = None /\ RunTogether(st.items) -> {st.name}
         [] OTHER -> {}

\* A guarded ADD of a key column the database has already, and the reducer, which did not read the
\* whole table, has not.
InventsKey(n, parts) ==
  LET rest  == Remaining(db[n], parts).cols
      known == IF tables[n] = None THEN {} ELSE Names(tables[n]) \ Dropped(parts)
  IN  \E i \in DOMAIN parts :
        /\ IsAdd(parts[i]) /\ GivesKey(parts[i].item)
        /\ Present(rest, parts, i) /\ parts[i].item.name \notin known

\* The reducer keeps a key whose column goes, and one that is dropped by its name.
LosesKey(st) ==
  {n \in Name : /\ st.does = "alterTable" /\ n = st.name
                /\ \/ Remaining(db[n], st.parts).keys # db[n].keys
                   \/ InventsKey(n, st.parts)}

ReadStatement(st) ==
  /\ Due(st) /\ Accepts(st)
  /\ pending # None \/ total[file] < PerSource
  /\ Apply(st)
  /\ db' = Execute(st)
  /\ blind' = blind \cup LosesTrackOf(st)
  /\ changed' = IF db' = db THEN changed ELSE changed \cup {file}
  /\ keyless' = keyless \cup LosesKey(st)

DInit == Init /\ db \in Before /\ blind = {} /\ changed = {} /\ keyless = {}

DNext == \/ \E st \in Statement : ReadStatement(st)
         \/ Loop /\ UNCHANGED << db, blind, changed, keyless >>
         \/ NextFile /\ UNCHANGED << db, blind, changed, keyless >>

DSpec == DInit /\ [][DNext]_allVars

-----------------------------------------------------------------------------
TypeOK ==
  /\ file \in File
  /\ left \subseteq Id
  /\ pending \in Id \cup {None}
  /\ work.kind \in {"none", "body", "alter"}
  /\ tables \in [Name -> Table \cup {None}]
  /\ work.table \in Name \cup {None}
  /\ nonTable \subseteq Name
  /\ seenIndex \subseteq IndexName
  /\ elements \subseteq Position
  /\ unreduced \subseteq Position
  /\ withheld \subseteq Position
  /\ total \in [File -> Nat]
  /\ satisfied \in [File -> Nat]
  /\ silent \in [File -> Nat]
  /\ db \in [Name -> DBTable \cup {None}]
  /\ blind \subseteq Name
  /\ changed \subseteq File
  /\ keyless \subseteq Name

\* What the model of a table says it declares.
Claims(t) ==
  [ cols |-> Names(t),
    indexes |-> {[cols |-> x.cols, unique |-> x.unique] : x \in t.indexes},
    foreign |-> {[cols |-> f.cols, ref |-> f.ref] : f \in t.foreign} ]

\* Everything the database has of the table is in the model of it.
Whole(n) ==
  /\ db[n] # None
  /\ db[n].cols = Names(tables[n])
  /\ db[n].keys # {} => tables[n].key # <<>>
  /\ {[cols |-> x.cols, unique |-> x.unique] : x \in db[n].indexes} \subseteq Claims(tables[n]).indexes
  /\ db[n].foreign \subseteq Claims(tables[n]).foreign

\* Table.Complete: a table codefit calls proven has every column, key, index and foreign key the
\* statements gave it, however they were spelled, repeated or guarded, over several statements and
\* several sources, with two CREATE TABLEs run together or a key that lacks its comma.  The forms of
\* LosesTrackOf are excepted, any other missing comma among them.
ProvenIsWhole ==
  Idle => \A n \in Name \ blind :
            tables[n] # None /\ StructureProven(tables[n]) => Whole(n)
=============================================================================
