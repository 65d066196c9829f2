--------------------------- MODULE WarehouseProofs --------------------------
(***************************************************************************)
(* What the reader keeps of a warehouse, that the roles codefit gives from *)
(* it are safe, and that what it asks or withholds because of them is so,  *)
(* for every name, body and number of lost statements.                     *)
(***************************************************************************)
EXTENDS WarehouseAudit, FiniteSetTheorems, TLAPS

-----------------------------------------------------------------------------
(* The structures the actions build. *)

\* A table nothing was read of is a table, of a structure that is not proven.
LEMMA AbsentType == Absent \in Structure
  BY WarehouseAssumption DEF Absent, Structure

\* The structure met or created by a statement is a table's, and refers to no table not there.
LEMMA GetTableType ==
  ASSUME TypeOK, NEW n \in Name
  PROVE  /\ GetTable(n) \in Structure
         /\ read[n] # None => GetTable(n) = read[n]
         /\ read[n] = None => GetTable(n) = Absent
  BY AbsentType DEF TypeOK, GetTable

\* A body, and one an item of which was not read, are tables without foreign keys; of the latter
\* nothing is proven.
LEMMA BodyType ==
  ASSUME NEW n \in Name, NEW body \in Body[n], NEW seen \in {body} \cup InPart(body)
  PROVE  /\ body \in Structure /\ body.of = None /\ body.refs = {} /\ body.proven
         /\ seen \in Structure /\ seen.of = None /\ seen.refs = {}
         /\ seen.proven => seen = body
<1>1. body \in Structure /\ body.of = None /\ body.refs = {} /\ body.proven
  BY WarehouseAssumption
<1>2. CASE seen = body
  BY <1>1, <1>2
<1>3. CASE seen \in InPart(body)
  <2>1. CASE seen = [body EXCEPT !.key = <<>>, !.proven = FALSE]
    <3>1. << >> \in Seq(Column) /\ seen.proven = FALSE
      BY <1>1, <2>1 DEF Structure
    <3>2. \A k \in Seq(Column) : [body EXCEPT !.key = k, !.proven = FALSE] \in Structure
      BY <1>1 DEF Structure
    <3>3. seen.of = None /\ seen.refs = {}
      BY <1>1, <2>1 DEF Structure
    <3>4. seen \in Structure
      <4> DEFINE k == << >>
      <4>1. k \in Seq(Column) /\ seen = [body EXCEPT !.key = k, !.proven = FALSE]
        BY <2>1, <3>1
      <4> HIDE DEF k
      <4>2. QED
        BY <4>1, <3>2
    <3>5. QED
      BY <1>1, <3>1, <3>3, <3>4
  <2>2. ASSUME NEW c \in Column, seen = [body EXCEPT !.cols = @ \ {c}, !.proven = FALSE]
        PROVE  /\ seen \in Structure /\ seen.of = None /\ seen.refs = {}
               /\ seen.proven => seen = body
    BY <1>1, <2>2 DEF Structure
  <2>3. QED
    BY <1>1, <1>3, <2>1, <2>2 DEF InPart, Structure
<1>4. QED
  BY <1>1, <1>2, <1>3

\* Adding a foreign key, an index, or nothing but the doubt, to a table gives a table.
LEMMA GrownType ==
  ASSUME NEW t \in Structure, NEW ref \in Name, NEW index \in Index
  PROVE  /\ [t EXCEPT !.refs = @ \cup {ref}] \in Structure
         /\ [t EXCEPT !.indexes = @ \cup {index}] \in Structure
         /\ [t EXCEPT !.proven = FALSE] \in Structure
  BY WarehouseAssumption DEF Structure

-----------------------------------------------------------------------------
(* The reader's contract is kept. *)

\* At the start nothing is declared, and nothing read.
LEMMA InitContract == Init => ReaderContract
  BY WarehouseAssumption DEF Init, ReaderContract, TypeOK

\* What the contract says of one table.
Kept(n, d, r, u) ==
  /\ d \in Structure \cup {None} /\ r \in Structure \cup {None}
  /\ d = None => r = None
  /\ d # None /\ r = None => n \in u
  /\ d # None /\ d.of # None => d.refs = {}
  /\ r # None => /\ r.of = d.of
                 /\ r.refs \subseteq d.refs
                 /\ r.proven => r = d /\ r.of = None

\* The contract is what it says of each table, with the types of the rest.
LEMMA ContractByTable ==
  ReaderContract <=>
    /\ declared \in [Name -> Structure \cup {None}] /\ read \in [Name -> Structure \cup {None}]
    /\ unreduced \subseteq Name /\ lost \in 0..MaxLost
    /\ \A n \in Name : Kept(n, declared[n], read[n], unreduced)
  BY DEF ReaderContract, TypeOK, Kept

\* A step that replaces one table in both, keeps the record of the unread ones and counts what is
\* lost keeps the contract, if the new pair does.
LEMMA Replaced ==
  ASSUME ReaderContract, NEW n \in Name, NEW d \in Structure, NEW r \in Structure \cup {None},
         NEW u \in SUBSET Name, unreduced \subseteq u, Kept(n, d, r, u),
         declared' = [declared EXCEPT ![n] = d], read' = [read EXCEPT ![n] = r],
         unreduced' = u, lost' \in 0..MaxLost
  PROVE  ReaderContract'
<1>1. /\ declared \in [Name -> Structure \cup {None}] /\ read \in [Name -> Structure \cup {None}]
      /\ \A m \in Name : Kept(m, declared[m], read[m], unreduced)
  BY ContractByTable
<1>2. declared' \in [Name -> Structure \cup {None}] /\ read' \in [Name -> Structure \cup {None}]
  BY <1>1
<1>3. ASSUME NEW m \in Name PROVE Kept(m, declared'[m], read'[m], unreduced')
  <2>1. CASE m = n
    BY <1>1, <2>1
  <2>2. CASE m # n
    <3>1. declared'[m] = declared[m] /\ read'[m] = read[m] /\ Kept(m, declared[m], read[m], unreduced)
      BY <1>1, <2>2
    <3>2. QED
      BY <3>1 DEF Kept
  <2>3. QED
    BY <2>1, <2>2
<1>4. QED
  BY <1>2, <1>3 DEF ReaderContract, TypeOK, Kept

\* The count of lost statements stays within its bound.
LEMMA LosesType ==
  ASSUME TypeOK, NEW really \in BOOLEAN, Loses(really)
  PROVE  lost' \in 0..MaxLost
  BY WarehouseAssumption DEF TypeOK, Loses

\* Every statement keeps the contract.
LEMMA NextContract == ReaderContract /\ [Next]_vars => ReaderContract'
<1> SUFFICES ASSUME ReaderContract, [Next]_vars PROVE ReaderContract'
  OBVIOUS
<1>0. TypeOK
  BY DEF ReaderContract
<1>k. \A n \in Name : Kept(n, declared[n], read[n], unreduced)
  BY ContractByTable
<1>1. ASSUME NEW n \in Name, NEW body \in Body[n], NEW seen \in {body} \cup InPart(body),
             CreateTable(n, body, seen)
      PROVE  ReaderContract'
  <2>1. Kept(n, body, seen, unreduced)
    BY BodyType, WarehouseAssumption DEF Kept, Structure
  <2>2. lost' \in 0..MaxLost
    BY <1>0, <1>1, LosesType DEF CreateTable
  <2>3. body \in Structure /\ seen \in Structure
    BY BodyType
  <2>4. QED
    BY <1>1, <1>0, <2>1, <2>2, <2>3, Replaced DEF CreateTable, TypeOK
<1>2. ASSUME NEW n \in Name, NEW body \in Body[n], CreateTableUnread(n, body)
      PROVE  ReaderContract'
  <2>1. body \in Structure /\ body.of = None
    BY BodyType
  <2>2. read[n] = None /\ read = [read EXCEPT ![n] = None]
    BY <1>0, <1>2, <1>k DEF CreateTableUnread, Kept, TypeOK
  <2>3. Kept(n, body, None, unreduced \cup {n})
    BY <2>1, WarehouseAssumption DEF Kept, Structure
  <2>4. lost' \in 0..MaxLost
    BY <1>0, <1>2, LosesType DEF CreateTableUnread
  <2>5. /\ declared' = [declared EXCEPT ![n] = body]
        /\ read' = [read EXCEPT ![n] = None]
        /\ unreduced' = unreduced \cup {n} /\ unreduced \cup {n} \in SUBSET Name
    BY <1>0, <1>2, <2>2 DEF CreateTableUnread, TypeOK
  <2>6. QED
    BY <2>1, <2>3, <2>4, <2>5, Replaced
<1>3. ASSUME NEW n \in Name, NEW p \in Name, CreatePartitionOf(n, p)
      PROVE  ReaderContract'
  <2> DEFINE d == [Absent EXCEPT !.proven = TRUE, !.of = p]
             r == [GetTable(n) EXCEPT !.of = p, !.proven = FALSE]
  <2>1. read[n] = None /\ GetTable(n) = Absent
    BY <1>0, <1>3, <1>k, GetTableType DEF CreatePartitionOf, Kept
  <2>a. d \in Structure /\ r \in Structure
    BY <2>1, AbsentType DEF Structure
  <2>b. d.of = p /\ r.of = p /\ d.refs = {} /\ r.refs = {} /\ r.proven = FALSE
    BY <2>1 DEF Absent
  <2>2. d \in Structure /\ r \in Structure /\ Kept(n, d, r, unreduced)
    <3> HIDE DEF d, r
    <3>1. QED
      BY <2>a, <2>b, WarehouseAssumption DEF Kept
  <2>3. declared' = [declared EXCEPT ![n] = d] /\ read' = [read EXCEPT ![n] = r]
    BY <1>3 DEF CreatePartitionOf
  <2> HIDE DEF d, r
  <2>4. QED
    BY <1>0, <1>3, <2>2, <2>3, Replaced DEF CreatePartitionOf, TypeOK
<1>4. ASSUME NEW n \in Name, NEW ref \in Name, NEW understood \in BOOLEAN,
             AddForeignKey(n, ref, understood)
      PROVE  ReaderContract'
  <2> DEFINE d == [declared[n] EXCEPT !.refs = @ \cup {ref}]
             r == IF understood THEN [GetTable(n) EXCEPT !.refs = @ \cup {ref}]
                  ELSE [GetTable(n) EXCEPT !.proven = FALSE]
  <2>1. /\ declared[n] \in Structure /\ declared[n].of = None
        /\ Kept(n, declared[n], read[n], unreduced)
    BY <1>0, <1>4, <1>k DEF AddForeignKey, TypeOK
  <2>2. GetTable(n) \in Structure /\ Absent.refs = {} /\ Absent.of = None /\ Absent.proven = FALSE
    BY <1>0, GetTableType DEF Absent
  <2>3. d \in Structure /\ r \in Structure
    BY <2>1, <2>2 DEF Structure
  <2>4. Kept(n, d, r, unreduced)
    <3>1. CASE read[n] = None
      BY <1>0, <2>1, <2>2, <2>3, <3>1, GetTableType, WarehouseAssumption, ZenonT(40) DEF Kept, Structure
    <3>2. CASE read[n] # None
      BY <1>0, <2>1, <2>2, <2>3, <3>2, GetTableType, WarehouseAssumption, ZenonT(40) DEF Kept, Structure
    <3>3. QED
      BY <3>1, <3>2
  <2>5. declared' = [declared EXCEPT ![n] = d] /\ read' = [read EXCEPT ![n] = r]
    BY <1>4 DEF AddForeignKey
  <2>6. lost' \in 0..MaxLost
    BY <1>0, <1>4, LosesType DEF AddForeignKey
  <2> HIDE DEF d, r
  <2>7. QED
    BY <1>0, <1>4, <2>3, <2>4, <2>5, <2>6, Replaced DEF AddForeignKey, TypeOK
<1>5. ASSUME NEW n \in Name, NEW index \in Index, NEW understood \in BOOLEAN,
             CreateIndex(n, index, understood)
      PROVE  ReaderContract'
  <2> DEFINE d == [declared[n] EXCEPT !.indexes = @ \cup {index}]
             r == IF understood THEN [GetTable(n) EXCEPT !.indexes = @ \cup {index}]
                  ELSE [GetTable(n) EXCEPT !.proven = FALSE]
  <2>1. /\ declared[n] \in Structure /\ declared[n].of = None
        /\ Kept(n, declared[n], read[n], unreduced)
    BY <1>0, <1>5, <1>k DEF CreateIndex, TypeOK
  <2>2. GetTable(n) \in Structure /\ Absent.refs = {} /\ Absent.of = None /\ Absent.proven = FALSE
    BY <1>0, GetTableType DEF Absent
  <2>3. d \in Structure /\ r \in Structure
    BY <2>1, <2>2, WarehouseAssumption, ZenonT(40) DEF Structure
  <2>4. Kept(n, d, r, unreduced)
    <3>1. CASE read[n] = None
      BY <1>0, <2>1, <2>2, <2>3, <3>1, GetTableType, WarehouseAssumption, ZenonT(40) DEF Kept, Structure
    <3>2. CASE read[n] # None
      BY <1>0, <2>1, <2>2, <2>3, <3>2, GetTableType, WarehouseAssumption, ZenonT(40) DEF Kept, Structure
    <3>3. QED
      BY <3>1, <3>2
  <2>5. declared' = [declared EXCEPT ![n] = d] /\ read' = [read EXCEPT ![n] = r]
    BY <1>5 DEF CreateIndex
  <2>6. lost' \in 0..MaxLost
    BY <1>0, <1>5, LosesType DEF CreateIndex
  <2> HIDE DEF d, r
  <2>7. QED
    BY <1>0, <1>5, <2>3, <2>4, <2>5, <2>6, Replaced DEF CreateIndex, TypeOK
<1>6. CASE UNCHANGED vars
  BY <1>6 DEF vars, ReaderContract, TypeOK
<1>7. QED
  BY <1>1, <1>2, <1>3, <1>4, <1>5, <1>6 DEF Next

\* What the rules rely on of a schema, always holds: proven tables are whole, foreign keys are
\* lost and never invented, and a table that is missing has left its record.
THEOREM ReaderContractAlways == Spec => []ReaderContract
  BY InitContract, NextContract, PTL DEF Spec

-----------------------------------------------------------------------------
(* Roles. *)

\* Under the contract each table that was read is declared, and so are its foreign keys; and a
\* table that is proven is read as it is.
LEMMA ReadIsDeclared ==
  ASSUME ReaderContract
  PROVE  /\ DOMAIN Schema \subseteq DOMAIN Declared /\ DOMAIN Declared \subseteq Name
         /\ \A n \in DOMAIN Schema : Schema[n].refs \subseteq Declared[n].refs
         /\ \A n \in DOMAIN Schema : Schema[n].proven => Schema[n] = Declared[n]
<1>1. \A n \in Name : Kept(n, declared[n], read[n], unreduced)
  BY ContractByTable
<1>2. /\ DOMAIN Schema = {n \in Name : read[n] # None}
      /\ DOMAIN Declared = {n \in Name : declared[n] # None}
      /\ \A n \in DOMAIN Schema : Schema[n] = read[n]
      /\ \A n \in DOMAIN Declared : Declared[n] = Inherited(declared[n])
  BY DEF Schema, Declared, Present
<1>3. DOMAIN Schema \subseteq DOMAIN Declared
  BY <1>1, <1>2 DEF Kept
<1>4. ASSUME NEW n \in DOMAIN Schema
      PROVE  /\ Schema[n].refs \subseteq Declared[n].refs
             /\ Schema[n].proven => Schema[n] = Declared[n]
  <2>1. Kept(n, declared[n], read[n], unreduced) /\ read[n] # None /\ declared[n] # None
    BY <1>1, <1>2, <1>3
  <2>2. Schema[n] = read[n] /\ Declared[n] = Inherited(declared[n])
    BY <1>2, <1>3
  <2>3. CASE declared[n].of = None
    <3>1. Declared[n] = declared[n]
      BY <2>2, <2>3 DEF Inherited
    <3>2. QED
      BY <2>1, <2>2, <3>1 DEF Kept
  <2>4. CASE declared[n].of # None
    <3>1. read[n].refs = {} /\ ~read[n].proven
      BY <2>1, <2>4 DEF Kept
    <3>2. QED
      BY <2>2, <3>1
  <2>5. QED
    BY <2>3, <2>4
<1>5. QED
  BY <1>2, <1>3, <1>4

\* The role a table holds is the one its name nominates.
LEMMA RoleIsNominated ==
  ASSUME NEW s, NEW n, RoleFor(s, n) # "unclassified"
  PROVE  /\ RoleFor(s, n) = CandidateRole(n)
         /\ CandidateRole(n) # "unclassified" /\ Nominated(n)
         /\ CandidateRole(n) = "fact" => ~(Cardinality(s[n].refs) < factFanOutMin)
         /\ CandidateRole(n) = "dimension" => FanIn(s, n) # {}
<1>1. RoleFor(s, n) = CandidateRole(n)
  BY DEF RoleFor
<1>2. CandidateRole(n) # "unclassified" => Nominated(n)
  BY DEF CandidateRole, Nominated
<1>3. QED
  BY <1>1, <1>2 DEF RoleFor

\* A schema with more tables and more foreign keys gives the same roles, and perhaps more of them.
LEMMA RolesGrow ==
  ASSUME NEW s, NEW d, DOMAIN s \subseteq DOMAIN d, NEW n \in DOMAIN s,
         \A m \in DOMAIN s : s[m].refs \subseteq d[m].refs,
         s[n].refs # {} => IsFiniteSet(d[n].refs),
         RoleFor(s, n) # "unclassified"
  PROVE  RoleFor(d, n) = RoleFor(s, n)
<1>1. /\ RoleFor(s, n) = CandidateRole(n)
      /\ CandidateRole(n) = "fact" => ~(Cardinality(s[n].refs) < factFanOutMin)
      /\ CandidateRole(n) = "dimension" => FanIn(s, n) # {}
  BY RoleIsNominated
<1>2. FanIn(s, n) \subseteq FanIn(d, n)
  BY DEF FanIn
<1>3. CandidateRole(n) = "fact" => ~(Cardinality(d[n].refs) < factFanOutMin)
  <2>1. CASE s[n].refs = {}
    BY <1>1, <2>1, FS_EmptySet DEF factFanOutMin
  <2>2. CASE s[n].refs # {}
    <3>1. /\ Cardinality(s[n].refs) \in Nat /\ Cardinality(d[n].refs) \in Nat
          /\ Cardinality(s[n].refs) <= Cardinality(d[n].refs)
      BY <2>2, FS_Subset, FS_CardinalityType
    <3>2. QED
      BY <1>1, <3>1 DEF factFanOutMin
  <2>3. QED
    BY <2>1, <2>2
<1>4. CandidateRole(n) = "dimension" => FanIn(d, n) # {}
  BY <1>1, <1>2
<1>5. QED
  BY <1>1, <1>3, <1>4 DEF RoleFor

\* The foreign keys of a table that has any refer to tables, of which there are finitely many.
LEMMA DeclaredRefsFinite ==
  ASSUME ReaderContract, NEW n \in DOMAIN Schema, Schema[n].refs # {}
  PROVE  IsFiniteSet(Declared[n].refs)
<1>1. n \in Name /\ Kept(n, declared[n], read[n], unreduced) /\ read[n] # None /\ Schema[n] = read[n]
  BY ContractByTable DEF Schema, Present
<1>2. declared[n] \in Structure /\ declared[n].of = None
  BY <1>1 DEF Kept
<1>3. Declared[n] = declared[n]
  BY <1>1, <1>2 DEF Declared, Present, Inherited, Kept
<1>4. declared[n].refs \subseteq Name
  BY <1>2 DEF Structure
<1>5. QED
  BY <1>3, <1>4, FS_Subset, ParadigmAssumption

\* A role given from what was read is held by what was declared, in every state.
THEOREM PromotionAlwaysSafe == Spec => []PromotionIsSafe
<1>1. ReaderContract => PromotionIsSafe
  BY ReadIsDeclared, RolesGrow, DeclaredRefsFinite DEF PromotionIsSafe
<1>2. QED
  BY <1>1, ReaderContractAlways, PTL

\* A role that what was declared gives and what was read does not is one codefit says it could not
\* decide, when no table is missing whole.
LEMMA LostRoleIsNamed ==
  ASSUME ReaderContract, Qualifies(Schema), NEW n \in DOMAIN Schema, unreduced = {},
         RoleFor(Schema, n) # RoleFor(Declared, n)
  PROVE  n \in Detect(Schema).unprovable
<1>1. RoleFor(Schema, n) = "unclassified"
  BY ReadIsDeclared, RolesGrow, DeclaredRefsFinite
<1>2. Nominated(n)
  BY <1>1, RoleIsNominated
<1>3. \E m \in DOMAIN Schema : ~Schema[m].proven
  <2>1. SUFFICES ASSUME \A m \in DOMAIN Schema : Schema[m].proven PROVE FALSE
    OBVIOUS
  <2>2. DOMAIN Schema = DOMAIN Declared
    BY ContractByTable DEF Schema, Declared, Present, Kept
  <2>3. \A m \in DOMAIN Schema : Schema[m] = Declared[m]
    BY <2>1, ReadIsDeclared
  <2>4. FanIn(Schema, n) = FanIn(Declared, n) /\ Schema[n] = Declared[n]
    BY <2>2, <2>3 DEF FanIn
  <2>5. RoleFor(Schema, n) = RoleFor(Declared, n)
    BY <2>4 DEF RoleFor
  <2>6. QED
    BY <2>5
<1>4. n \in Unprovable(Schema)
  BY <1>1, <1>2, <1>3 DEF Unprovable
<1>5. Detect(Schema).unprovable = Unprovable(Schema)
  BY DEF Detect
<1>6. QED
  BY <1>4, <1>5

\* A role lost to an unread statement is named as undecided, in every state in which no table is
\* missing whole.
THEOREM UndecidedAlwaysNamed == Spec => []UndecidedAreNamed
<1>1. ReaderContract => UndecidedAreNamed
  BY LostRoleIsNamed DEF UndecidedAreNamed
<1>2. QED
  BY <1>1, ReaderContractAlways, PTL

-----------------------------------------------------------------------------
(* What is withheld. *)

\* The developer's word changes the roles in one way only: it restores what a closed gate withheld.
LEMMA ResolvedRoles ==
  ASSUME NEW s, NEW override
  PROVE  LET class == Resolve(s, override)
         IN  /\ class.roles = IF class.open THEN Earned(s) ELSE NoRoles(s)
             /\ override \in {"olap", "mixed"} => class.open
             /\ override = "auto" => class.open = Qualifies(s) /\ class.byOverride = FALSE
<1>1. /\ Detect(s).roles = IF Detect(s).open THEN Earned(s) ELSE NoRoles(s)
      /\ Detect(s).open = Qualifies(s) /\ Detect(s).byOverride = FALSE
      /\ DOMAIN Detect(s) = {"paradigm", "roles", "unprovable", "open", "byOverride"}
  BY DEF Detect
<1>2. CASE override = "auto"
  BY <1>1, <1>2 DEF Resolve
<1>3. CASE override \in {"olap", "mixed"} /\ ~Detect(s).open
  BY <1>1, <1>3 DEF Resolve
<1>4. CASE override # "auto" /\ ~(override \in {"olap", "mixed"} /\ ~Detect(s).open)
  BY <1>1, <1>4 DEF Resolve
<1>5. QED
  BY <1>2, <1>3, <1>4

\* A 1NF item is of a table of the schema.
LEMMA ItemsAreOfTables ==
  ASSUME NEW s, NEW x \in FirstNormalForm(s)
  PROVE  x[1] \in DOMAIN s
<1>1. CASE x \in R!Multivalued(s)
  BY <1>1 DEF R!Multivalued
<1>2. CASE x \in R!RepeatingGroups(s)
  <2> DEFINE groups(t) == {base \in {BaseOf[c] : c \in t.cols} \ {""} :
                             /\ R!Cardinality(R!Members(t, base)) >= 2
                             /\ \A c, d \in R!Members(t, base) : TypeOf[c] = TypeOf[d]}
  <2>1. x \in UNION {{n} \X groups(s[n]) : n \in DOMAIN s}
    BY <1>2, Zenon DEF R!RepeatingGroups
  <2> HIDE DEF groups
  <2>2. QED
    BY <2>1
<1>3. QED
  BY <1>1, <1>2 DEF FirstNormalForm

\* No table's items are withheld but in a warehouse or on the developer's word, and none without
\* a note: by what suppress3NF does with any schema, whatever was read.
THEOREM SilencedAlwaysInWarehouses == Spec => []SilencedOnlyInWarehouses
<1>1. SilencedOnlyInWarehouses
  <2> SUFFICES ASSUME NEW override \in Override, NEW x \in Suppressed(Schema, Resolve(Schema, override), override)
               PROVE  /\ \/ override \in {"olap", "mixed"}
                         \/ override = "auto" /\ WarehouseSignals(Schema) \cap decidingSignals # {}
                      /\ \/ override = "olap"
                         \/ x[1] \in SchemaGateNote(Schema, Resolve(Schema, override)).holders
                      /\ override = "auto" =>
                           SchemaGateNote(Schema, Resolve(Schema, override)).signals # {}
    BY DEF SilencedOnlyInWarehouses
  <2> DEFINE class == Resolve(Schema, override)
  <2>1. override \in {"auto", "olap", "mixed"}
    BY WarehouseAssumption DEF Suppressed
  <2>2. CASE override = "olap"
    BY <2>2
  <2>3. CASE override \in {"auto", "mixed"}
    <3>1. x \in FirstNormalForm(Schema) /\ class.roles[x[1]] \in {"fact", "dimension", "mart"}
      BY <2>3 DEF Suppressed
    <3>2. x[1] \in DOMAIN Schema /\ class.roles[x[1]] # "unclassified"
      BY <3>1, ItemsAreOfTables
    <3>3. class.open
      BY <3>2, ResolvedRoles DEF NoRoles
    <3>4. x[1] \in SchemaGateNote(Schema, class).holders
      BY <3>2, <3>3 DEF SchemaGateNote
    <3>5. override = "auto" => /\ WarehouseSignals(Schema) \cap decidingSignals # {}
                               /\ SchemaGateNote(Schema, class).signals # {}
      BY <3>3, ResolvedRoles DEF SchemaGateNote, Qualifies
    <3>6. QED
      BY <2>3, <3>4, <3>5
  <2>4. QED
    BY <2>1, <2>2, <2>3
<1>2. QED
  BY <1>1, PTL

-----------------------------------------------------------------------------
(* What is concluded from an absence. *)

\* The roles a rule is given are those of the schema that was read, or none.
RolesOf(roles) == roles \in {Earned(Schema), NoRoles(Schema)}

\* Under the contract, a table that holds a role holds it in the warehouse; and whether a table is
\* a partition, and of which, is as declared.
LEMMA HeldInTheWarehouse ==
  ASSUME ReaderContract, NEW roles, RolesOf(roles), NEW n \in DOMAIN Schema
  PROVE  /\ n \in DOMAIN Declared /\ Schema[n].of = Declared[n].of
         /\ roles[n] # "unclassified" =>
              /\ roles = Earned(Schema)
              /\ roles[n] = RoleFor(Schema, n) /\ Earned(Declared)[n] = roles[n]
         /\ Schema[n].proven => Schema[n] = Declared[n]
<1>1. Schema[n].of = Declared[n].of
  <2>1. n \in Name /\ Kept(n, declared[n], read[n], unreduced) /\ read[n] # None /\ Schema[n] = read[n]
    BY ContractByTable DEF Schema, Present
  <2>2. declared[n] \in Structure /\ declared[n].of = read[n].of
    BY <2>1 DEF Kept
  <2>3. Declared[n] = Inherited(declared[n])
    BY <2>1 DEF Declared, Present, Kept
  <2>4. Inherited(declared[n]).of = declared[n].of
    BY <2>2 DEF Inherited, Structure
  <2>5. QED
    BY <2>1, <2>2, <2>3, <2>4
<1>2. ASSUME roles[n] # "unclassified"
      PROVE  /\ roles = Earned(Schema)
             /\ roles[n] = RoleFor(Schema, n) /\ Earned(Declared)[n] = roles[n]
  <2>1. roles = Earned(Schema) /\ roles[n] = RoleFor(Schema, n)
    BY <1>2 DEF RolesOf, Earned, NoRoles
  <2>2. RoleFor(Declared, n) = RoleFor(Schema, n)
    BY <1>2, <2>1, ReadIsDeclared, RolesGrow, DeclaredRefsFinite
  <2>3. n \in DOMAIN Declared
    BY ReadIsDeclared
  <2>4. QED
    BY <2>1, <2>2, <2>3 DEF Earned
<1>3. QED
  BY <1>1, <1>2, ReadIsDeclared

\* DW-005 asks only where the warehouse has no time dimension, or has one codefit said it could
\* not decide.
THEOREM NoTimeDimensionAlwaysSo == Spec => []NoTimeDimensionIsSo
<1>1. ReaderContract => NoTimeDimensionIsSo
  <2> DEFINE s == Schema  d == Declared  class == Detect(Schema)
  <2>0. SUFFICES ASSUME ReaderContract, NoTimeDimension(s, class.roles), unreduced = {},
                        NEW n \in TimeDimensions(d, Earned(d))
                 PROVE  n \in class.unprovable
    BY DEF NoTimeDimensionIsSo
  <2>1. /\ \A m \in TimeCensus(s, class.roles) : s[m].proven
        /\ TimeCensus(s, class.roles) \cap In(s, class.roles, "fact") # {}
        /\ TimeDimensions(s, class.roles) = {}
    BY <2>0 DEF NoTimeDimension, CensusAbstains
  <2>2. Qualifies(s) /\ class.roles = Earned(s)
    <3>1. PICK m \in DOMAIN s : class.roles[m] = "fact"
      BY <2>1 DEF In
    <3>2. QED
      BY <3>1 DEF Detect, NoRoles
  <2>3. RolesOf(class.roles)
    BY <2>2 DEF RolesOf
  <2>4. DOMAIN s = DOMAIN d
    BY <2>0, ContractByTable DEF Schema, Declared, Present, Kept
  <2>5. CASE n \in TimeCensus(d, Earned(d)) /\ Earned(d)[n] = "dimension" /\ IsTimeDimension(d, n)
    <3>1. n \in DOMAIN s /\ d[n].of = None /\ RoleFor(d, n) = "dimension"
      BY <2>4, <2>5 DEF TimeCensus, In, IsPartitionChild, Earned
    <3>2. SUFFICES ASSUME RoleFor(s, n) = RoleFor(d, n) PROVE FALSE
      BY <2>0, <2>2, <3>1, LostRoleIsNamed
    <3>3. class.roles[n] = "dimension" /\ s[n].of = None
      BY <2>0, <2>2, <2>3, <3>1, <3>2, HeldInTheWarehouse DEF Earned
    <3>4. n \in TimeCensus(s, class.roles)
      BY <3>1, <3>3 DEF TimeCensus, In, IsPartitionChild
    <3>5. s[n] = d[n]
      BY <2>0, <2>1, <2>3, <3>1, <3>4, HeldInTheWarehouse
    <3>6. IsTimeDimension(s, n)
      BY <2>5, <3>5 DEF IsTimeDimension
    <3>7. n \in TimeDimensions(s, class.roles)
      BY <3>3, <3>4, <3>6 DEF TimeDimensions
    <3>8. QED
      BY <2>1, <3>7
  <2>6. ASSUME NEW m \in DOMAIN d, IsPartitionChild(d[m]), TimeDimensionName(d[m].of)
        PROVE  FALSE
    <3>1. m \in DOMAIN s /\ s[m].of = d[m].of
      BY <2>0, <2>3, <2>4, HeldInTheWarehouse
    <3>2. s[m].of \in TimeDimensions(s, class.roles)
      BY <2>6, <3>1 DEF TimeDimensions, IsPartitionChild
    <3>3. QED
      BY <2>1, <3>2
  <2>7. QED
    BY <2>0, <2>5, <2>6 DEF TimeDimensions
<1>2. QED
  BY <1>1, ReaderContractAlways, PTL

\* No foreign key refers to a table that was not declared.
RefsAreDeclared ==
  \A n \in Name : declared[n] # None => \A ref \in declared[n].refs : ref \in Name /\ declared[ref] # None

\* A foreign key is added to a table that is there, and no table goes.
LEMMA RefsStep == ReaderContract /\ RefsAreDeclared /\ [Next]_vars => RefsAreDeclared'
<1>0. SUFFICES ASSUME ReaderContract, RefsAreDeclared, [Next]_vars PROVE RefsAreDeclared'
  OBVIOUS
<1>t. declared \in [Name -> Structure \cup {None}] /\ None \notin Structure
  BY <1>0, WarehouseAssumption DEF ReaderContract, TypeOK
<1>1. ASSUME NEW n \in Name, NEW t \in Structure, declared' = [declared EXCEPT ![n] = t],
             \A ref \in t.refs : ref \in Name /\ declared[ref] # None
      PROVE  RefsAreDeclared'
  <2>1. \A m \in Name : declared'[m] = IF m = n THEN t ELSE declared[m]
    BY <1>t, <1>1
  <2>2. \A m \in Name : declared[m] # None => declared'[m] # None
    BY <1>t, <2>1
  <2>3. QED
    BY <1>0, <1>1, <2>1, <2>2 DEF RefsAreDeclared
<1>2. ASSUME NEW n \in Name, NEW body \in Body[n],
             \/ \E seen \in {body} \cup InPart(body) : CreateTable(n, body, seen)
             \/ CreateTableUnread(n, body)
      PROVE  RefsAreDeclared'
  <2>1. body \in Structure /\ body.refs = {} /\ declared' = [declared EXCEPT ![n] = body]
    BY <1>2, BodyType DEF CreateTable, CreateTableUnread
  <2>2. QED
    BY <1>1, <2>1
<1>3. ASSUME NEW n \in Name, NEW p \in Name, CreatePartitionOf(n, p)
      PROVE  RefsAreDeclared'
  <2> DEFINE t == [Absent EXCEPT !.proven = TRUE, !.of = p]
  <2>1. t \in Structure
    BY AbsentType DEF Structure
  <2>2. t.refs = {}
    BY DEF Absent
  <2>3. declared' = [declared EXCEPT ![n] = t]
    BY <1>3 DEF CreatePartitionOf
  <2> HIDE DEF t
  <2>4. QED
    BY <1>1, <2>1, <2>2, <2>3
<1>4. ASSUME NEW n \in Name, NEW ref \in Name, NEW understood \in BOOLEAN,
             AddForeignKey(n, ref, understood)
      PROVE  RefsAreDeclared'
  <2> DEFINE t == [declared[n] EXCEPT !.refs = @ \cup {ref}]
  <2>1. declared[n] \in Structure /\ declared[n] # None /\ declared[ref] # None
    BY <1>t, <1>4 DEF AddForeignKey
  <2>2. t \in Structure /\ t.refs = declared[n].refs \cup {ref}
    BY <2>1 DEF Structure
  <2>3. declared' = [declared EXCEPT ![n] = t]
    BY <1>4 DEF AddForeignKey
  <2> HIDE DEF t
  <2>4. QED
    BY <1>0, <1>1, <2>1, <2>2, <2>3 DEF RefsAreDeclared
<1>5. ASSUME NEW n \in Name, NEW index \in Index, NEW understood \in BOOLEAN,
             CreateIndex(n, index, understood)
      PROVE  RefsAreDeclared'
  <2> DEFINE t == [declared[n] EXCEPT !.indexes = @ \cup {index}]
  <2>1. declared[n] \in Structure /\ declared[n] # None
    BY <1>t, <1>5 DEF CreateIndex
  <2>2. t \in Structure /\ t.refs = declared[n].refs
    BY <2>1, WarehouseAssumption DEF Structure
  <2>3. declared' = [declared EXCEPT ![n] = t]
    BY <1>5 DEF CreateIndex
  <2> HIDE DEF t
  <2>4. QED
    BY <1>0, <1>1, <2>1, <2>2, <2>3 DEF RefsAreDeclared
<1>6. CASE UNCHANGED vars
  BY <1>0, <1>6 DEF vars, RefsAreDeclared
<1>7. QED
  BY <1>0, <1>2, <1>3, <1>4, <1>5, <1>6 DEF Next

\* A fact of which no foreign key that was read leads to a dimension has none that does, but to a
\* table of which the whole CREATE TABLE was not read.
LEMMA NoFactDimensionFKHolds ==
  ASSUME ReaderContract, RefsAreDeclared, NEW roles, RolesOf(roles),
         NEW n \in NoFactDimensionFK(Schema, roles), NEW ref \in Declared[n].refs,
         Earned(Declared)[ref] = "dimension"
  PROVE  ref \in unreduced \ DOMAIN Schema
<1>1. /\ n \in DOMAIN Schema /\ Schema[n].proven /\ roles[n] = "fact"
      /\ \A m \in Schema[n].refs : m \in DOMAIN Schema => roles[m] # "dimension"
  BY DEF NoFactDimensionFK, Proven, In
<1>2. Schema[n] = Declared[n] /\ roles = Earned(Schema)
  BY <1>1, HeldInTheWarehouse
<1>3. ref \in Name /\ declared[ref] # None /\ ref \in DOMAIN Declared
  <2>1. n \in Name /\ Kept(n, declared[n], read[n], unreduced) /\ read[n] # None /\ Schema[n] = read[n]
    BY <1>1, ContractByTable DEF Schema, Present
  <2>2. declared[n] # None /\ read[n] = declared[n]
    BY <1>1, <2>1 DEF Kept
  <2>3. QED
    BY <1>2, <2>1, <2>2 DEF RefsAreDeclared, Declared, Present
<1>4. RoleFor(Declared, ref) = "dimension"
  BY <1>3 DEF Earned
<1>5. CandidateRole(ref) = "dimension"
  BY <1>4, RoleIsNominated
<1>6. ref \notin DOMAIN Schema
  <2>1. SUFFICES ASSUME ref \in DOMAIN Schema PROVE FALSE
    OBVIOUS
  <2>2. n \in FanIn(Schema, ref)
    BY <1>1, <1>2 DEF FanIn
  <2>3. RoleFor(Schema, ref) = "dimension"
    BY <1>5, <2>2 DEF RoleFor
  <2>4. roles[ref] = "dimension"
    BY <1>2, <2>1, <2>3 DEF Earned
  <2>5. QED
    BY <1>1, <1>2, <2>1, <2>4
<1>7. read[ref] = None
  BY <1>3, <1>6 DEF Schema, Present
<1>8. ref \in unreduced
  BY <1>3, <1>7, ContractByTable DEF Kept
<1>9. QED
  BY <1>6, <1>8

\* What is said of one proven table that holds a role is so of the declared one.
LEMMA TableRulesHold ==
  ASSUME ReaderContract, NEW roles, RolesOf(roles)
  PROVE  /\ NoSurrogateKey(Schema, roles) \subseteq NoSurrogateKey(Declared, Earned(Declared))
         /\ NoCurrencyIndex(Schema, roles) \subseteq NoCurrencyIndex(Declared, Earned(Declared))
         /\ NoColumnarIndex(Schema, roles) \subseteq NoColumnarIndex(Declared, Earned(Declared))
<1>1. ASSUME NEW role \in {"fact", "dimension"}, NEW n \in Proven(Schema, In(Schema, roles, role))
      PROVE  n \in Proven(Declared, In(Declared, Earned(Declared), role)) /\ Schema[n] = Declared[n]
  <2>1. n \in DOMAIN Schema /\ Schema[n].proven /\ roles[n] = role /\ role # "unclassified"
    BY <1>1 DEF Proven, In
  <2>2. n \in DOMAIN Declared /\ Earned(Declared)[n] = role /\ Schema[n] = Declared[n]
    BY <2>1, HeldInTheWarehouse
  <2>3. QED
    BY <2>1, <2>2 DEF Proven, In
<1>2. NoSurrogateKey(Schema, roles) \subseteq NoSurrogateKey(Declared, Earned(Declared))
  BY <1>1, Zenon DEF NoSurrogateKey
<1>3. NoCurrencyIndex(Schema, roles) \subseteq NoCurrencyIndex(Declared, Earned(Declared))
  BY <1>1, Zenon DEF NoCurrencyIndex
<1>4. NoColumnarIndex(Schema, roles) \subseteq NoColumnarIndex(Declared, Earned(Declared))
  BY <1>1, Zenon DEF NoColumnarIndex
<1>5. QED
  BY <1>2, <1>3, <1>4

\* The two counts are of dimensions and of facts the warehouse has; an unproven one among them
\* holds the count back.
LEMMA CensusesHold ==
  ASSUME ReaderContract, NEW roles, RolesOf(roles)
  PROVE  /\ MixedHistory(Schema, roles)
              \subseteq {n \in HistoryCensus(Declared, Earned(Declared)) : ~KeepsHistory(Declared[n])}
         /\ NotPartitioned(Schema, roles) # {} =>
              NotPartitioned(Schema, roles)
                = {n \in PartitioningCensus(Declared, Earned(Declared)) \cap PartitioningCensus(Schema, roles) :
                     ~Declared[n].partitioned}
<1>1. ASSUME NEW n \in MixedHistory(Schema, roles)
      PROVE  n \in HistoryCensus(Declared, Earned(Declared)) /\ ~KeepsHistory(Declared[n])
  <2>1. n \in HistoryCensus(Schema, roles) /\ Schema[n].proven /\ ~KeepsHistory(Schema[n])
    BY <1>1 DEF MixedHistory, CensusAbstains
  <2>2. /\ n \in DOMAIN Schema /\ roles[n] = "dimension"
        /\ ~IsTimeDimension(Schema, n) /\ ~IsPartitionChild(Schema[n])
    BY <2>1 DEF HistoryCensus, In
  <2>3. n \in DOMAIN Declared /\ Earned(Declared)[n] = "dimension" /\ Schema[n] = Declared[n]
    BY <2>1, <2>2, HeldInTheWarehouse
  <2>4. ~IsTimeDimension(Declared, n)
    BY <2>2, <2>3 DEF IsTimeDimension
  <2>5. QED
    BY <2>1, <2>2, <2>3, <2>4 DEF HistoryCensus, In
<1>2. ASSUME NotPartitioned(Schema, roles) # {}
      PROVE  NotPartitioned(Schema, roles)
               = {n \in PartitioningCensus(Declared, Earned(Declared)) \cap PartitioningCensus(Schema, roles) :
                    ~Declared[n].partitioned}
  <2>1. /\ \A n \in PartitioningCensus(Schema, roles) : Schema[n].proven
        /\ NotPartitioned(Schema, roles) = {n \in PartitioningCensus(Schema, roles) : ~Schema[n].partitioned}
    BY <1>2 DEF NotPartitioned, CensusAbstains
  <2>2. ASSUME NEW n \in PartitioningCensus(Schema, roles)
        PROVE  n \in PartitioningCensus(Declared, Earned(Declared)) /\ Schema[n] = Declared[n]
    <3>1. n \in DOMAIN Schema /\ roles[n] = "fact" /\ ~IsPartitionChild(Schema[n])
      BY <2>2 DEF PartitioningCensus, In
    <3>2. n \in DOMAIN Declared /\ Earned(Declared)[n] = "fact" /\ Schema[n] = Declared[n]
      BY <2>1, <2>2, <3>1, HeldInTheWarehouse
    <3>3. QED
      BY <3>1, <3>2 DEF PartitioningCensus, In
  <2>3. QED
    BY <2>1, <2>2
<1>3. QED
  BY <1>1, <1>2

\* What a DW rule concludes from an absence is so in the warehouse, under each word of the
\* developer's, in every state.
THEOREM ClaimsAlwaysHold == Spec => []ClaimsHoldInTheWarehouse
<1>1. Init => RefsAreDeclared
  BY DEF Init, RefsAreDeclared
<1>2. ReaderContract /\ RefsAreDeclared => ClaimsHoldInTheWarehouse
  <2>1. SUFFICES ASSUME ReaderContract, RefsAreDeclared, NEW override \in Override
                 PROVE  Hold(Schema, Resolve(Schema, override).roles, Declared)
    BY DEF ClaimsHoldInTheWarehouse
  <2> DEFINE roles == Resolve(Schema, override).roles
  <2>2. RolesOf(roles)
    BY ResolvedRoles DEF RolesOf
  <2> HIDE DEF roles
  <2>3. Hold(Schema, roles, Declared)
    BY <2>1, <2>2, NoFactDimensionFKHolds, TableRulesHold, CensusesHold, Zenon DEF Hold
  <2>4. QED
    BY <2>3 DEF roles
<1>3. QED
  BY <1>1, <1>2, RefsStep, ReaderContractAlways, PTL DEF Spec
=============================================================================
