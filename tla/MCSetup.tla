------------------------------- MODULE MCSetup -------------------------------
(***************************************************************************)
(* A project with two migration directories, one inside the other, a copy  *)
(* of them a build makes, and one below the depth init walks to.  The      *)
(* files create a table, drop it again in a later version, carry no        *)
(* version, follow the grammar of MySQL, or cannot be read.                *)
(***************************************************************************)
EXTENDS ProjectSetup

MCDir      == {"db", "db/migration", "target", "deep"}
MCAbove    == [d \in MCDir |-> IF d = "db/migration" THEN {"db"} ELSE {}]
MCDepth    == [d \in MCDir |-> CASE d = "deep" -> 7 [] d = "db/migration" -> 2 [] OTHER -> 1]
MCBaseName == [d \in MCDir |-> IF d = "db/migration" THEN "migration" ELSE d]
MCPathRank == [d \in MCDir |-> CASE d = "db" -> 1 [] d = "db/migration" -> 2 [] d = "deep" -> 3 [] OTHER -> 4]

MCFile    == {"V2__init", "V10__drop", "seed", "V3__mysql", "V4__gone"}
MCUnreadable == {"V4__gone"}
MCVersion == [f \in MCFile |-> CASE f = "V2__init" -> 2 [] f = "V10__drop" -> 10 [] f = "V3__mysql" -> 3
                                 [] f = "V4__gone" -> 4 [] OTHER -> None]
MCRank    == [f \in MCFile |-> CASE f = "V10__drop" -> 1 [] f = "V2__init" -> 2 [] f = "V3__mysql" -> 3
                                 [] f = "V4__gone" -> 4 [] OTHER -> 5]
MCCreates == [f \in MCFile |-> CASE f = "V2__init" -> {"orders"} [] f = "V3__mysql" -> {"items"} [] OTHER -> {}]
MCDrops   == [f \in MCFile |-> IF f = "V10__drop" THEN {"orders"} ELSE {}]
MCReadBy  == [f \in MCFile |-> IF f = "V3__mysql" THEN {"mysql"} ELSE {"postgresql", "mysql", "sqlserver"}]

Tree(outer, inner) == [d \in MCDir |-> CASE d = "db" -> outer [] d = "db/migration" -> inner
                                        [] d = "target" -> inner [] OTHER -> None]

MCProjects ==
  {[tree |-> t, prisma |-> p, present |-> m] :
     t \in {Tree(None, None), Tree({}, {"V2__init"}), Tree({"V2__init"}, {"V10__drop"})},
     p \in {"absent", "bare"}, m \in {{}, {"go.mod"}, {"package.json", "CLAUDE.md"}}}

MCRootFiles == {".codex", "package.json"}

Hand(type, paths) == [language |-> "typescript", type |-> type, paradigm |-> "", paths |-> paths, note |-> NoNote]
MCHandWritten == {Hand("mysql", <<"db", "db/migration">>), Hand("oracle", <<"db">>), Hand("", <<>>)}
=============================================================================
