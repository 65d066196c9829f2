------------------------------ MODULE MCSchema ------------------------------
(* Short histories of two declared tables, one the sources never declare, and a view. *)
EXTENDS DatabaseAudit, TLC

CONSTANTS t1, t2, t3, v1, a, b, ix, iy

MCName == {t1, t2, t3, v1}
MCColumn == {a, b}
MCDialect == [inlineTriggers |-> TRUE, partitionSchemes |-> TRUE, hashTemps |-> TRUE]

Col(c) == [kind |-> "column", name |-> c, inline |-> {}, ref |-> None, to |-> << >>]
Inline(c, words) == [Col(c) EXCEPT !.inline = words]
Ref(c, n, to) == [Col(c) EXCEPT !.ref = n, !.to = to]
Key(cols) == [kind |-> "primaryKey", cols |-> cols, method |-> ""]
UniqueOn(cols) == [kind |-> "unique", cols |-> cols, method |-> ""]
KeyIndex(cols) == [kind |-> "index", cols |-> cols, method |-> ""]
Foreign(cols, n, to) == [kind |-> "foreignKey", cols |-> cols, ref |-> n, to |-> to]
Garbled == [kind |-> "garbled"]
Check == [kind |-> "check"]
Glued(h, r) == [kind |-> "glued", host |-> h, rest |-> r, headed |-> TRUE]

Plain == [kind |-> "none"]
Table0(i, n, items) ==
  [id |-> i, shapes |-> {"createTable", "tableShaped"}, does |-> "createTable", name |-> n,
   guarded |-> FALSE, balanced |-> TRUE, items |-> items, tail |-> Plain, runOn |-> None]
Guarded(st) == [st EXCEPT !.guarded = TRUE]

Add(item) == [verb |-> "add", prefixed |-> FALSE, guarded |-> FALSE, item |-> item]
AddGuarded(item) == [Add(item) EXCEPT !.guarded = TRUE]
Bare(item) == [Add(item) EXCEPT !.verb = "bare"]
WithCheck(p) == [p EXCEPT !.prefixed = TRUE]
Drop(c) == [verb |-> "drop", what |-> "column", column |-> c, cols |-> << >>]
DropNamed(what, cols) == [verb |-> "drop", what |-> what, column |-> None, cols |-> cols]
Rest(word) == [verb |-> word]
Alter(i, n, parts) ==
  [id |-> i, shapes |-> {"alterTable"}, does |-> "alterTable", name |-> n, parts |-> parts]
Index(i, x, n, cols, unique) ==
  [id |-> i, shapes |-> {"createIndex", "indexShaped"}, does |-> "createIndex", index |-> x,
   table |-> n, cols |-> cols, unique |-> unique, method |-> "", guarded |-> FALSE, captured |-> TRUE]

AddKeyLater == Alter(30, t1, << WithCheck(Add(Key(<<a>>))) >>)

MCStatement ==
  { Table0(1, t1, << Col(a), Col(b) >>),
    Guarded(Table0(2, t1, << Inline(a, {"key"}), Inline(b, {"unique"}) >>)),
    Table0(3, t1, << Inline(a, {"key"}), Glued(Ref(b, t2, <<a>>), UniqueOn(<<a, b>>)) >>),
    [Table0(4, t1, << Col(a), Check >>) EXCEPT !.runOn = 30],
    [Table0(5, t2, << Col(a), KeyIndex(<<a>>), Garbled >>) EXCEPT !.balanced = FALSE],
    [id |-> 6, shapes |-> {"partitionOf", "tableShaped"}, does |-> "createPartition",
     name |-> t2, parent |-> t1],
    Alter(7, t1, << AddGuarded(Inline(b, {"unique"})) >>),
    Alter(8, t1, << Add(Foreign(<<b>>, t2, <<a>>)), Bare(UniqueOn(<<a, b>>)) >>),
    Alter(9, t1, << Drop(b), Rest("skip") >>),
    Alter(10, t1, << Rest("toggle"), Bare(Key(<<b>>)) >>),
    Alter(11, t3, << Add(Col(b)) >>),
    [Alter(12, None, << >>) EXCEPT !.does = "nothing"],
    [Alter(13, v1, << Rest("skip") >>) EXCEPT !.does = "nothing"],
    [id |-> 14, shapes |-> {"alterTable"}, does |-> "renameTable", name |-> t1, to |-> t2,
     parts |-> << Rest("rename") >>],
    Index(15, ix, t1, <<a>>, FALSE),
    Guarded(Index(16, ix, t1, <<a>>, FALSE)),
    Index(17, iy, t1, <<a, b>>, TRUE),
    [Index(18, iy, t2, <<a>>, FALSE) EXCEPT !.captured = FALSE],
    [Index(19, iy, v1, <<a>>, FALSE) EXCEPT !.does = "nothing"],
    [id |-> 20, shapes |-> {"columnstore", "indexShaped"}, does |-> "createIndex", index |-> ix,
     table |-> t1, cols |-> << >>, unique |-> FALSE, guarded |-> FALSE],
    [id |-> 21, shapes |-> {"indexShaped"}, does |-> "createIndex", index |-> ix, table |-> t1,
     cols |-> <<b>>, unique |-> FALSE, guarded |-> FALSE],
    [id |-> 22, shapes |-> {"view"}, does |-> "nothing", name |-> v1],
    [id |-> 23, shapes |-> {"sequence"}, does |-> "nothing", name |-> v1],
    [id |-> 24, shapes |-> {"trigger"}, does |-> "nothing"],
    [id |-> 25, shapes |-> {"sessionScoped", "tableShaped"}, does |-> "nothing"],
    [Table0(26, t2, << Col(a) >>) EXCEPT !.shapes = {"tableShaped"}],
    [id |-> 27, shapes |-> {"dataOrPermission"}, does |-> "nothing"],
    [id |-> 28, shapes |-> {"dropTable"}, does |-> "dropTable", names |-> << t1 >>],
    [id |-> 29, shapes |-> {"dropTable"}, does |-> "dropTable", names |-> << t2, t1 >>],
    AddKeyLater,
    [id |-> 31, shapes |-> {}, does |-> "dropIndex", index |-> ix],
    [id |-> 32, shapes |-> {"partitionScheme"}, does |-> "nothing", scheme |-> "ps", function |-> "pf"],
    [id |-> 33, shapes |-> {"partitionFunction"}, does |-> "nothing", function |-> "pf",
     strategy |-> "range"],
    [Table0(34, t2, << Inline(a, {"key"}) >>) EXCEPT !.tail = [kind |-> "on", scheme |-> "ps"]],
    Alter(35, t1, << AddGuarded(Inline(b, {"unique"})), Rest("other") >>),
    Alter(36, t1, << AddGuarded(Col(a)), Drop(b) >>),
    Index(37, None, t1, <<b>>, FALSE),
    Table0(38, t2, << Col(a), Col(b), UniqueOn(<<a>>), UniqueOn(<<a>>), KeyIndex(<<b>>), KeyIndex(<<b, a>>) >>),
    Alter(39, t1, << Add(Key(<<b>>)) >>),
    Alter(40, t1, << Drop(b), Add(Inline(b, {"unique"})) >>),
    Alter(41, t2, << AddGuarded(Inline(a, {"key"})) >>),
    Table0(42, t1, << Col(a), Glued(Col(b), KeyIndex(<<a>>)) >>),
    Alter(43, t1, << DropNamed("key", <<a>>) >>),
    Alter(44, t1, << DropNamed("index", <<a>>), DropNamed("foreignKey", <<b>>) >>),
    [Table0(45, t2, << Col(a) >>) EXCEPT !.shapes = {}],
    [id |-> 46, shapes |-> {"alterTable"}, does |-> "reshapeTable", name |-> t1,
     parts |-> << Rest("rename") >>, takes |-> {a}, gives |-> {Inline(b, {"key"})}]
  }

MCId == 1..46

MCBefore ==
  {[n \in MCName |-> IF n = t3 THEN Declares({Col(a)}) ELSE None]}

MCTypeOf == a :> "int" @@ b :> "string"
MCBaseOf == a :> "" @@ b :> ""
MCFilter == {[model |-> t1, cols |-> {b}], [model |-> t1, cols |-> {a, b}], [model |-> t2, cols |-> {a}]}
MCPaths == << {}, {1, 2} >>
=============================================================================
