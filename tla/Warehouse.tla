----------------------------- MODULE Warehouse ------------------------------
(***************************************************************************)
(* A data warehouse as its DDL declares it, and as codefit's reader has    *)
(* it: a statement may be read whole, in part (the table is then not       *)
(* proven), or not at all (a CREATE TABLE in a shape the reader does not   *)
(* know leaves a record on the schema, and no table).  Roles are computed  *)
(* from what was read and speak of what was declared.                      *)
(***************************************************************************)
EXTENDS Paradigm

CONSTANTS
  Body,       \* Body[n]: the columns, keys and indexes a CREATE TABLE of n may declare
  Link,       \* the foreign keys that may be declared: pairs of tables
  Index,      \* indexes a CREATE INDEX may add: their columns and method
  Garbled,    \* columns whose item may be in a form that is not read
  MaxLost,    \* a bound on the statements that are not read whole
  Override,   \* the values of database.paradigm
  None        \* no table

Structure ==
  [ cols : SUBSET Column, key : Seq(Column), refs : SUBSET Name,
    indexes : SUBSET [cols : Seq(Column), method : STRING],
    partitioned : BOOLEAN, of : Name \cup {None}, proven : BOOLEAN ]

ASSUME WarehouseAssumption ==
  /\ None \notin Name /\ None \notin Structure
  /\ \A n \in Name : Body[n] \subseteq {t \in Structure : t.proven /\ t.of = None /\ t.refs = {}}
  /\ Link \subseteq Name \X Name /\ Garbled \subseteq Column /\ MaxLost \in Nat
  /\ Index \subseteq [cols : Seq(Column), method : STRING]
  /\ Override \subseteq {"auto", "oltp", "olap", "mixed"}

VARIABLES
  declared,   \* the tables of the warehouse
  read,       \* builder.tables
  unreduced,  \* tables whose CREATE TABLE is on Schema.Unreduced
  lost        \* statements not read whole

vars == << declared, read, unreduced, lost >>

Absent == [ cols |-> {}, key |-> <<>>, refs |-> {}, indexes |-> {}, partitioned |-> FALSE,
            of |-> None, proven |-> FALSE ]

\* Mutant: a table first met in an ALTER TABLE counts as read.
GetTableProven(n) == IF read[n] = None THEN [Absent EXCEPT !.proven = TRUE] ELSE read[n]

\* getTable: a table met before any CREATE TABLE was read of it is not proven.
GetTable(n) == IF read[n] = None THEN Absent ELSE read[n]

Present(tables) == [n \in {m \in Name : tables[m] # None} |-> tables[n]]

\* What a partition has is what its parent has.
Inherited(t) ==
  IF t.of = None THEN t
  ELSE [t EXCEPT !.cols = declared[t.of].cols, !.key = declared[t.of].key,
                 !.refs = declared[t.of].refs, !.indexes = declared[t.of].indexes]
Declared == [n \in DOMAIN Present(declared) |-> Inherited(declared[n])]
Schema == Present(read)

-----------------------------------------------------------------------------
Init ==
  /\ declared = [n \in Name |-> None]
  /\ read = [n \in Name |-> None]
  /\ unreduced = {}
  /\ lost = 0

Loses(really) == IF really THEN lost < MaxLost /\ lost' = lost + 1 ELSE UNCHANGED lost

\* A body of which an item could not be read.
InPart(body) ==
  {[body EXCEPT !.key = <<>>, !.proven = FALSE]} \cup
  {[body EXCEPT !.cols = @ \ {c}, !.proven = FALSE] : c \in body.cols \cap Garbled}

CreateTable(n, body, seen) ==
  /\ declared[n] = None
  /\ declared' = [declared EXCEPT ![n] = body]
  /\ read' = [read EXCEPT ![n] = seen]
  /\ Loses(seen # body)
  /\ UNCHANGED unreduced

CreateTableUnread(n, body) ==
  /\ declared[n] = None
  /\ declared' = [declared EXCEPT ![n] = body]
  /\ unreduced' = unreduced \cup {n}
  /\ Loses(TRUE)
  /\ UNCHANGED read

\* CREATE TABLE n PARTITION OF p: nothing of the structure is in the statement.
CreatePartitionOf(n, p) ==
  /\ declared[n] = None /\ declared[p] # None /\ n # p
  /\ declared[p].partitioned /\ declared[p].of = None
  /\ declared' = [declared EXCEPT ![n] = [Absent EXCEPT !.proven = TRUE, !.of = p]]
  /\ read' = [read EXCEPT ![n] = [GetTable(n) EXCEPT !.of = p, !.proven = FALSE]]
  /\ UNCHANGED << unreduced, lost >>

\* ALTER TABLE n ADD FOREIGN KEY, read or not.
AddForeignKey(n, ref, understood) ==
  /\ declared[n] # None /\ declared[n].of = None
  /\ <<n, ref>> \in Link /\ declared[ref] # None /\ ref \notin declared[n].refs
  /\ declared' = [declared EXCEPT ![n].refs = @ \cup {ref}]
  /\ read' = [read EXCEPT ![n] =
                IF understood THEN [GetTable(n) EXCEPT !.refs = @ \cup {ref}]
                ELSE [GetTable(n) EXCEPT !.proven = FALSE]]
  /\ Loses(~understood)
  /\ UNCHANGED unreduced

CreateIndex(n, index, understood) ==
  /\ declared[n] # None /\ declared[n].of = None
  /\ index \notin declared[n].indexes
  /\ \A i \in DOMAIN index.cols : index.cols[i] \in declared[n].cols
  /\ declared' = [declared EXCEPT ![n].indexes = @ \cup {index}]
  /\ read' = [read EXCEPT ![n] =
                IF understood THEN [GetTable(n) EXCEPT !.indexes = @ \cup {index}]
                ELSE [GetTable(n) EXCEPT !.proven = FALSE]]
  /\ Loses(~understood)
  /\ UNCHANGED unreduced

Next ==
  \/ \E n \in Name : \E body \in Body[n] : \E seen \in {body} \cup InPart(body) : CreateTable(n, body, seen)
  \/ \E n \in Name : \E body \in Body[n] : CreateTableUnread(n, body)
  \/ \E n, p \in Name : CreatePartitionOf(n, p)
  \/ \E n, ref \in Name, understood \in BOOLEAN : AddForeignKey(n, ref, understood)
  \/ \E n \in Name, index \in Index, understood \in BOOLEAN : CreateIndex(n, index, understood)

Spec == Init /\ [][Next]_vars

-----------------------------------------------------------------------------
(* Properties *)

TypeOK ==
  /\ declared \in [Name -> Structure \cup {None}]
  /\ read \in [Name -> Structure \cup {None}]
  /\ unreduced \subseteq Name
  /\ lost \in 0..MaxLost

\* What the rules may rely on: a table that is proven is the declared one; of one that is not,
\* foreign keys are missing and none is invented; and a table is missing only if its CREATE TABLE
\* is on the schema's record of what was not reduced.
ReaderContract ==
  /\ TypeOK
  /\ \A n \in Name :
       /\ declared[n] = None => read[n] = None
       /\ declared[n] # None /\ read[n] = None => n \in unreduced
       /\ declared[n] # None /\ declared[n].of # None => declared[n].refs = {}
       /\ read[n] # None =>
            /\ read[n].of = declared[n].of
            /\ read[n].refs \subseteq declared[n].refs
            /\ read[n].proven => read[n] = declared[n] /\ read[n].of = None

\* Promotion is safe: a foreign key the reader lost can only take a role away.  A table that holds
\* a role by what was read holds it by what was declared.
PromotionIsSafe ==
  \A n \in DOMAIN Schema :
    RoleFor(Schema, n) # "unclassified" => RoleFor(Declared, n) = RoleFor(Schema, n)

\* A table that lost its role to a statement that was not read is named as undecided, unless the
\* statement is one no table could be found for, which the schema has a record of.
UndecidedAreNamed ==
  Qualifies(Schema) => \A n \in DOMAIN Schema :
    \/ RoleFor(Schema, n) = RoleFor(Declared, n)
    \/ n \in Detect(Schema).unprovable
    \/ unreduced # {}
=============================================================================
