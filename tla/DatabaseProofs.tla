--------------------------- MODULE DatabaseProofs ---------------------------
(***************************************************************************)
(* What the reducer says of a database follows the statements that made    *)
(* it, whatever the sources.                                               *)
(***************************************************************************)
EXTENDS DatabaseAudit, FiniteSetTheorems, SequenceTheorems, WellFoundedInduction, TLAPS

-----------------------------------------------------------------------------
(* The invariant. *)

BodyWork ==
  [kind : {"body"}, table : Name, items : Seq(Item), adding : BOOLEAN, satisfied : BOOLEAN,
   first : BOOLEAN, id : Id, next : Nat, tail : TailClause]
AlterWork ==
  [kind : {"alter"}, table : Name, items : Seq(Part), adding : BOOLEAN, satisfied : BOOLEAN,
   first : BOOLEAN, id : Id, next : Nat, tail : TailClause]

\* A loop is over a table that exists, and over one codefit keeps track of only if no part of it
\* drops what an earlier one adds and no two items of it are read as one.
WorkOK ==
  /\ work \in {NoWork} \cup BodyWork \cup AlterWork
  /\ work # NoWork => tables[work.table] # None
  /\ work.kind = "alter" /\ work.table \notin blind => ~AddsThenDrops(work.items)
  /\ work.kind = "body" /\ work.table \notin blind => ~RunTogether(work.items)

PartitionsOK ==
  /\ schemeFunction \in [Scheme -> PartitionFunction \cup {None}]
  /\ functionStrategy \in [PartitionFunction -> Strategy \cup {None}]

Lookups(X) == {[cols |-> x.cols, unique |-> x.unique] : x \in X}
References(X) == {[cols |-> f.cols, ref |-> f.ref] : f \in X}

\* What the items to come make of a table of the columns C is what the database has.
Matches(C, S, t, d) ==
  /\ d.cols = C \cup Declares(S).cols
  /\ d.keys # {} => t.key # <<>> \/ Declares(S).keys # {}
  /\ Lookups(d.indexes) \subseteq Lookups(t.indexes) \cup Lookups(Declares(S).indexes)
  /\ d.foreign \subseteq References(t.foreign) \cup Declares(S).foreign

\* The columns that stay, and the items still to be applied, of a loop over the table.
Staying(w, t) == IF w.kind = "alter" THEN Names(t) \ Dropped(w.items) ELSE Names(t)
Owed(w, t) ==
  CASE w.kind = "body" -> Flat(w.items)
    [] w.kind = "alter" -> AddedItems(Staying(w, t), w.items)
    [] OTHER -> {}
WorkOf(n) == IF work.table = n THEN work ELSE NoWork

Follows(w, t, d) == Matches(Staying(w, t), Owed(w, t), t, d)

Seen(n) == tables[n] # None /\ StructureProven(tables[n])

Tracked(n) == Seen(n) => db[n] # None /\ Follows(WorkOf(n), tables[n], db[n])
MatchInv == \A n \in Name \ blind : Tracked(n)

\* Of a table of which no key was lost the key is the one the database has.
OneKeyLeft(w, t) ==
  CASE w.kind = "body" -> OneKey(w.items)
    [] w.kind = "alter" -> OneKeyAdded(Staying(w, t), w.items)
    [] OTHER -> TRUE
KeyIs(S, t, d) ==
  IF t.key = <<>> THEN d.keys = Declares(S).keys
  ELSE d.keys = {t.key} /\ \A item \in S : ~GivesKey(item)
Keyed(w, t, d) == OneKeyLeft(w, t) /\ KeyIs(Owed(w, t), t, d)

KeyTracked(n) == Seen(n) => Keyed(WorkOf(n), tables[n], db[n])
KeyInv == \A n \in Name \ (blind \cup keyless) : KeyTracked(n)

\* A foreign key has columns, and the indexes are not longer and longer.
Readably(t) ==
  /\ \A f \in t.foreign : f.cols # <<>>
  /\ \E bound \in Nat : \A x \in t.indexes : Len(x.cols) <= bound
ReadableInv == \A n \in Name : tables[n] # None => Readably(tables[n])

SchemaInv == TypeOK /\ PartitionsOK /\ WorkOK /\ MatchInv /\ KeyInv /\ ReadableInv

-----------------------------------------------------------------------------
(* Sets of items, and the items of a sequence. *)

Pieces(item) == IF item.kind = "glued" THEN {item.host, item.rest} ELSE {item}

LEMMA PiecesArePlain ==
  ASSUME NEW item \in Item
  PROVE  Pieces(item) \subseteq PlainItem
BY DEF Pieces, Item, GluedItem, PlainItem, ColumnItem, KeyItem, ForeignItem, OtherItem

LEMMA InFlat ==
  ASSUME NEW items, NEW x
  PROVE  x \in Flat(items) <=> \E j \in DOMAIN items : x \in Pieces(items[j])
BY DEF Flat, Pieces

LEMMA FlatIsPlain ==
  ASSUME NEW items \in Seq(Item)
  PROVE  Flat(items) \subseteq PlainItem
<1>1. SUFFICES ASSUME NEW x \in Flat(items)
               PROVE  x \in PlainItem
  OBVIOUS
<1>2. PICK j \in DOMAIN items : x \in Pieces(items[j])
  BY InFlat
<1>3. items[j] \in Item
  OBVIOUS
<1> QED
  BY <1>2, <1>3, PiecesArePlain

\* The first of the items, and the others.
LEMMA HeadAndTail ==
  ASSUME NEW T, NEW s \in Seq(T), s # <<>>
  PROVE  /\ Head(s) \in T /\ Tail(s) \in Seq(T)
         /\ Head(s) = s[1] /\ 1 \in DOMAIN s
         /\ \A j \in DOMAIN s : j = 1 \/ \E k \in DOMAIN Tail(s) : j = k + 1
         /\ \A k \in DOMAIN Tail(s) : k \in Nat \ {0} /\ k + 1 \in DOMAIN s
         /\ \A j \in DOMAIN Tail(s) : Tail(s)[j] = s[j + 1]
<1>1. Len(s) \in Nat \ {0} /\ DOMAIN s = 1 .. Len(s)
  OBVIOUS
<1>2. Tail(s) \in Seq(T) /\ Len(Tail(s)) = Len(s) - 1 /\ DOMAIN Tail(s) = 1 .. Len(s) - 1
  OBVIOUS
<1>3. \A j \in 1 .. Len(s) - 1 : Tail(s)[j] = s[j + 1]
  OBVIOUS
<1>4. ASSUME NEW j \in DOMAIN s, j # 1
      PROVE  \E k \in DOMAIN Tail(s) : j = k + 1
  <2>1. j - 1 \in 1 .. Len(s) - 1 /\ j = (j - 1) + 1
    BY <1>1, <1>4
  <2> QED
    BY <2>1, <1>2
<1>5. ASSUME NEW k \in DOMAIN Tail(s)
      PROVE  k \in Nat \ {0} /\ k + 1 \in DOMAIN s
  BY <1>1, <1>2
<1>6. Head(s) \in T /\ Head(s) = s[1] /\ 1 \in DOMAIN s
  BY <1>1
<1> QED
  BY <1>2, <1>3, <1>4, <1>5, <1>6

LEMMA FlatHead ==
  ASSUME NEW items \in Seq(Item), items # <<>>
  PROVE  Flat(items) = Pieces(Head(items)) \cup Flat(Tail(items))
<1>1. ASSUME NEW x \in Flat(items)
      PROVE  x \in Pieces(Head(items)) \cup Flat(Tail(items))
  <2>1. PICK j \in DOMAIN items : x \in Pieces(items[j])
    BY InFlat
  <2>2. CASE j = 1
    BY <2>1, <2>2, HeadAndTail
  <2>3. CASE j # 1
    <3>1. PICK k \in DOMAIN Tail(items) : j = k + 1
      BY <2>3, HeadAndTail
    <3>2. x \in Pieces(Tail(items)[k])
      BY <2>1, <3>1, HeadAndTail
    <3> QED
      BY <3>2, InFlat
  <2> QED
    BY <2>2, <2>3
<1>2. ASSUME NEW x \in Pieces(Head(items))
      PROVE  x \in Flat(items)
  BY <1>2, HeadAndTail, InFlat
<1>3. ASSUME NEW x \in Flat(Tail(items))
      PROVE  x \in Flat(items)
  <2>1. PICK k \in DOMAIN Tail(items) : x \in Pieces(Tail(items)[k])
    BY <1>3, InFlat
  <2>2. k + 1 \in DOMAIN items /\ x \in Pieces(items[k + 1])
    BY <2>1, HeadAndTail
  <2> QED
    BY <2>2, InFlat
<1> QED
  BY <1>1, <1>2, <1>3

LEMMA FlatEmpty == Flat(<<>>) = {}
BY DEF Flat

\* What several items declare is what each does.
LEMMA DeclaresBoth ==
  ASSUME NEW S, NEW T
  PROVE  /\ Declares(S \cup T).cols = Declares(S).cols \cup Declares(T).cols
         /\ Declares(S \cup T).keys = Declares(S).keys \cup Declares(T).keys
         /\ Declares(S \cup T).indexes = Declares(S).indexes \cup Declares(T).indexes
         /\ Declares(S \cup T).foreign = Declares(S).foreign \cup Declares(T).foreign
<1>1. Declares(S \cup T).cols = Declares(S).cols \cup Declares(T).cols
  BY DEF Declares, ColumnsIn
<1>2. Declares(S \cup T).keys = Declares(S).keys \cup Declares(T).keys
  BY DEF Declares, ColumnsIn
<1>3. Declares(S \cup T).indexes = Declares(S).indexes \cup Declares(T).indexes
  BY DEF Declares, ColumnsIn
<1>4. Declares(S \cup T).foreign = Declares(S).foreign \cup Declares(T).foreign
  BY DEF Declares, ColumnsIn
<1> QED
  BY <1>1, <1>2, <1>3, <1>4

LEMMA DeclaresNothing ==
  /\ Declares({}).cols = {} /\ Declares({}).keys = {}
  /\ Declares({}).indexes = {} /\ Declares({}).foreign = {}
BY DEF Declares, ColumnsIn

LEMMA LookupsBoth ==
  ASSUME NEW X, NEW Y
  PROVE  Lookups(X \cup Y) = Lookups(X) \cup Lookups(Y)
BY DEF Lookups

LEMMA LookupOfOne ==
  ASSUME NEW cols, NEW unique, NEW name
  PROVE  Lookups({[cols |-> cols, unique |-> unique, name |-> name]}) = {[cols |-> cols, unique |-> unique]}
<1> DEFINE x == [cols |-> cols, unique |-> unique, name |-> name]
<1>1. x.cols = cols /\ x.unique = unique
  OBVIOUS
<1> HIDE DEF x
<1>2. Lookups({x}) = {[cols |-> x.cols, unique |-> x.unique]}
  BY DEF Lookups
<1> QED
  BY <1>1, <1>2 DEF x

-----------------------------------------------------------------------------
(* What an item makes of a table. *)

LEMMA ItemCases ==
  ASSUME NEW item \in PlainItem
  PROVE  \/ item \in ColumnItem /\ item.kind = "column"
         \/ item \in KeyItem /\ item.kind \in {"primaryKey", "unique", "index"}
         \/ item \in ForeignItem /\ item.kind = "foreignKey"
         \/ item \in OtherItem /\ item.kind \in {"check", "garbled"}
BY DEF PlainItem, ColumnItem, KeyItem, ForeignItem, OtherItem

LEMMA LeastOf ==
  ASSUME NEW S \in SUBSET Nat, S # {}
  PROVE  \E i \in S : \A j \in S : i <= j
<1>1. PICK i \in S : \A j \in S : ~(<<j, i>> \in OpToRel(<, Nat))
  BY NatLessThanWellFounded, WFMin
<1>2. \A j \in S : ~(j < i)
  BY <1>1 DEF OpToRel
<1> QED
  BY <1>2

LEMMA MethodsGiven == "" \in Method /\ "columnstore" \in Method
BY ReducerAssumption

LEMMA NoneApart == None \notin Name /\ None \notin Column /\ None \notin Id
BY ReducerAssumption

LEMMA NewTableTyped ==
  ASSUME NEW at \in Position
  PROVE  NewTable(at) \in Table
<1>1. NoPartition \in [declared : BOOLEAN, strategy : Strategy \cup {None}, of : Name \cup {None}]
  BY DEF NoPartition
<1>2. <<>> \in Seq(Column)
  OBVIOUS
<1> QED
  BY <1>1, <1>2 DEF NewTable, Table

LEMMA MarkedTyped ==
  ASSUME NEW t \in Table, NEW at \in Position, NEW reason \in Reason
  PROVE  /\ MarkUnproven(t, reason, at) \in Table
         /\ ~StructureProven(MarkUnproven(t, reason, at))
         /\ MarkUnproven(t, reason, at).foreign = t.foreign
         /\ MarkUnproven(t, reason, at).indexes = t.indexes
<1> DEFINE r == [reason |-> reason, at |-> at]
           u == MarkUnproven(t, reason, at)
<1>1. r \in [reason : Reason, at : Position]
  OBVIOUS
<1> HIDE DEF r
<1>2. u = [t EXCEPT !.unreduced = t.unreduced \cup {r}]
  BY DEF MarkUnproven, r
<1>3. u \in Table /\ u.unreduced = t.unreduced \cup {r} /\ u.foreign = t.foreign /\ u.indexes = t.indexes
  BY <1>1, <1>2 DEF Table
<1> QED
  BY <1>3 DEF StructureProven

\* The table an item leaves.
Became(t, item, u) ==
  /\ t.indexes \subseteq u.indexes /\ t.foreign \subseteq u.foreign
  /\ StructureProven(u) =>
       /\ StructureProven(t)
       /\ Names(u) = Names(t) \cup Declares({item}).cols
       /\ Lookups(Declares({item}).indexes) \subseteq Lookups(u.indexes)
       /\ Declares({item}).foreign \subseteq References(u.foreign)
       /\ IF GivesKey(item) THEN u.key # <<>> /\ (t.key = <<>> => Declares({item}).keys = {u.key})
          ELSE u.key = t.key /\ Declares({item}).keys = {}

LEMMA ColumnApplied ==
  ASSUME NEW t \in Table, NEW item \in ColumnItem, NEW at \in Position
  PROVE  /\ ApplyColumn(t, item, at) \in Table
         /\ Became(t, item, ApplyColumn(t, item, at))
<1> DEFINE u == ApplyColumn(t, item, at)
           cs == t.cols \cup {[name |-> item.name, at |-> at]}
           k  == IF "key" \in item.inline THEN Append(t.key, item.name) ELSE t.key
           xs == IF "unique" \in item.inline
                 THEN t.indexes \cup {[cols |-> <<item.name>>, unique |-> TRUE, method |-> "", at |-> at]}
                 ELSE t.indexes
           fs == IF item.ref = None THEN t.foreign
                 ELSE t.foreign \cup {[cols |-> <<item.name>>, ref |-> item.ref, to |-> item.to, at |-> at]}
<1>1. /\ item.kind = "column" /\ item.name \in Column /\ item.inline \subseteq {"key", "unique"}
      /\ item.ref \in Name \cup {None} /\ item.to \in Seq(Column)
  BY DEF ColumnItem
<1>2. u = [t EXCEPT !.cols = cs, !.key = k, !.indexes = xs, !.foreign = fs]
  BY DEF ApplyColumn
<1>3. /\ u.cols = cs /\ u.key = k /\ u.indexes = xs /\ u.foreign = fs /\ u.unreduced = t.unreduced
  BY <1>2 DEF Table
<1> HIDE DEF u
<1>4. /\ cs \subseteq [name : Column, at : Position]
      /\ k \in Seq(Column)
      /\ xs \subseteq [cols : Seq(Column), unique : BOOLEAN, method : Method, at : Position]
      /\ fs \subseteq [cols : Seq(Column), ref : Name, to : Seq(Column), at : Position]
  <2>1. /\ t.cols \subseteq [name : Column, at : Position]
        /\ t.key \in Seq(Column)
        /\ t.indexes \subseteq [cols : Seq(Column), unique : BOOLEAN, method : Method, at : Position]
        /\ t.foreign \subseteq [cols : Seq(Column), ref : Name, to : Seq(Column), at : Position]
    BY DEF Table
  <2>2. "" \in Method
    BY MethodsGiven
  <2>7. <<item.name>> \in Seq(Column)
    BY <1>1
  <2>3. cs \subseteq [name : Column, at : Position]
    BY <1>1, <2>1
  <2>4. k \in Seq(Column)
    BY <1>1, <2>1
  <2>5. xs \subseteq [cols : Seq(Column), unique : BOOLEAN, method : Method, at : Position]
    <3>1. [cols |-> <<item.name>>, unique |-> TRUE, method |-> "", at |-> at]
            \in [cols : Seq(Column), unique : BOOLEAN, method : Method, at : Position]
      BY <2>2, <2>7
    <3> QED
      BY <2>1, <3>1
  <2>6. fs \subseteq [cols : Seq(Column), ref : Name, to : Seq(Column), at : Position]
    <3>1. item.ref # None => [cols |-> <<item.name>>, ref |-> item.ref, to |-> item.to, at |-> at]
            \in [cols : Seq(Column), ref : Name, to : Seq(Column), at : Position]
      BY <1>1, <2>7
    <3> QED
      BY <2>1, <3>1
  <2> QED
    BY <2>3, <2>4, <2>5, <2>6
<1>5. u \in Table
  <2> HIDE DEF cs, k, xs, fs
  <2> QED
    BY <1>2, <1>4 DEF Table
<1>6. Names(u) = Names(t) \cup {item.name}
  <2>1. Names(u) = {c.name : c \in t.cols} \cup {c.name : c \in {[name |-> item.name, at |-> at]}}
    BY <1>3 DEF Names
  <2> QED
    BY <2>1 DEF Names
<1>7. /\ Declares({item}).cols = {item.name}
      /\ Declares({item}).keys = IF "key" \in item.inline THEN {<<item.name>>} ELSE {}
      /\ Declares({item}).indexes = IF "unique" \in item.inline
                                    THEN {[cols |-> <<item.name>>, unique |-> TRUE, name |-> None]} ELSE {}
      /\ Declares({item}).foreign = IF item.ref # None THEN {[cols |-> <<item.name>>, ref |-> item.ref]} ELSE {}
  BY <1>1 DEF Declares, ColumnsIn
<1>8. Lookups(Declares({item}).indexes) \subseteq Lookups(u.indexes)
  <2>1. CASE "unique" \in item.inline
    <3> DEFINE x == [cols |-> <<item.name>>, unique |-> TRUE, method |-> "", at |-> at]
    <3>1. x \in u.indexes /\ x.cols = <<item.name>> /\ x.unique = TRUE
      BY <1>3, <2>1
    <3> HIDE DEF x
    <3>2. [cols |-> <<item.name>>, unique |-> TRUE] \in Lookups(u.indexes)
      BY <3>1 DEF Lookups
    <3>3. Declares({item}).indexes = {[cols |-> <<item.name>>, unique |-> TRUE, name |-> None]}
      BY <1>7, <2>1
    <3>4. Lookups(Declares({item}).indexes) = {[cols |-> <<item.name>>, unique |-> TRUE]}
      BY <3>3, LookupOfOne, Zenon
    <3> QED
      BY <3>2, <3>4
  <2>2. CASE "unique" \notin item.inline
    BY <1>7, <2>2 DEF Lookups
  <2> QED
    BY <2>1, <2>2
<1>9. Declares({item}).foreign \subseteq References(u.foreign)
  <2> DEFINE f == [cols |-> <<item.name>>, ref |-> item.ref, to |-> item.to, at |-> at]
  <2>1. item.ref # None => f \in u.foreign
    BY <1>3
  <2>2. f.cols = <<item.name>> /\ f.ref = item.ref
    OBVIOUS
  <2> HIDE DEF f
  <2>3. item.ref # None => [cols |-> <<item.name>>, ref |-> item.ref] \in References(u.foreign)
    BY <2>1, <2>2 DEF References
  <2> QED
    BY <1>7, <2>3
<1>10. IF GivesKey(item) THEN u.key # <<>> /\ (t.key = <<>> => Declares({item}).keys = {u.key})
       ELSE u.key = t.key /\ Declares({item}).keys = {}
  <2>1. t.key \in Seq(Column)
    BY DEF Table
  <2>2. GivesKey(item) <=> "key" \in item.inline
    BY <1>1 DEF GivesKey
  <2>3. Append(t.key, item.name) # <<>> /\ Append(<<>>, item.name) = <<item.name>>
    BY <2>1, <1>1
  <2> QED
    BY <1>3, <1>7, <2>2, <2>3
<1>11. t.indexes \subseteq u.indexes /\ t.foreign \subseteq u.foreign
  BY <1>3
<1>12. StructureProven(u) => StructureProven(t)
  BY <1>3 DEF StructureProven
<1>13. Became(t, item, u)
  BY <1>6, <1>7, <1>8, <1>9, <1>10, <1>11, <1>12 DEF Became
<1> QED
  BY <1>5, <1>13 DEF u

LEMMA ConstraintApplied ==
  ASSUME NEW t \in Table, NEW item \in PlainItem \ ColumnItem, NEW at \in Position
  PROVE  /\ ApplyConstraint(t, item, at) \in Table
         /\ Became(t, item, ApplyConstraint(t, item, at))
<1> DEFINE u == ApplyConstraint(t, item, at)
<1>1. \/ item \in KeyItem /\ item.kind \in {"primaryKey", "unique", "index"}
      \/ item \in ForeignItem /\ item.kind = "foreignKey"
      \/ item \in OtherItem /\ item.kind \in {"check", "garbled"}
  BY ItemCases
<1>2. item.kind # "column" /\ ColumnsIn({item}) = {}
  BY <1>1 DEF ColumnsIn
<1>3. CASE ~Readable(item)
  <2>1. u = MarkUnproven(t, "unreducedStatement", at)
    BY <1>3 DEF ApplyConstraint
  <2>2. "unreducedStatement" \in Reason
    BY DEF Reason
  <2> QED
    BY <2>1, <2>2, MarkedTyped DEF Became
<1>4. CASE Readable(item) /\ item.kind = "primaryKey"
  <2>1. item.cols \in Seq(Column) /\ item.cols # <<>>
    BY <1>1, <1>4 DEF KeyItem, Readable
  <2>2. u = [t EXCEPT !.key = item.cols]
    BY <1>4 DEF ApplyConstraint
  <2>3. /\ u \in Table /\ u.key = item.cols /\ u.cols = t.cols /\ u.indexes = t.indexes
        /\ u.foreign = t.foreign /\ u.unreduced = t.unreduced
    BY <2>1, <2>2 DEF Table
  <2>4. /\ Declares({item}).cols = {} /\ Declares({item}).keys = {item.cols}
        /\ Declares({item}).indexes = {} /\ Declares({item}).foreign = {}
    BY <1>2, <1>4 DEF Declares
  <2>5. GivesKey(item) /\ Names(u) = Names(t) /\ (StructureProven(u) => StructureProven(t))
    BY <1>4, <2>3 DEF GivesKey, Names, StructureProven
  <2> HIDE DEF u
  <2>6. Became(t, item, u)
    BY <2>1, <2>3, <2>4, <2>5 DEF Became, Lookups
  <2> QED
    BY <2>3, <2>6 DEF u
<1>5. CASE Readable(item) /\ item.kind = "foreignKey"
  <2>1. item.cols \in Seq(Column) /\ item.ref \in Name /\ item.to \in Seq(Column)
    BY <1>1, <1>5 DEF ForeignItem, Readable
  <2> DEFINE f == [cols |-> item.cols, ref |-> item.ref, to |-> item.to, at |-> at]
  <2>2. u = [t EXCEPT !.foreign = t.foreign \cup {f}]
    BY <1>5 DEF ApplyConstraint
  <2>3. f \in [cols : Seq(Column), ref : Name, to : Seq(Column), at : Position]
    BY <2>1
  <2>4. /\ u \in Table /\ u.key = t.key /\ u.cols = t.cols /\ u.indexes = t.indexes
        /\ u.foreign = t.foreign \cup {f} /\ u.unreduced = t.unreduced
    <3> HIDE DEF f, u
    <3>1. t.foreign \cup {f} \in SUBSET [cols : Seq(Column), ref : Name, to : Seq(Column), at : Position]
      BY <2>3 DEF Table
    <3> QED
      BY <2>2, <3>1 DEF Table
  <2>5. /\ Declares({item}).cols = {} /\ Declares({item}).keys = {}
        /\ Declares({item}).indexes = {} /\ Declares({item}).foreign = {[cols |-> item.cols, ref |-> item.ref]}
    BY <1>2, <1>5 DEF Declares
  <2>6. ~GivesKey(item) /\ Names(u) = Names(t) /\ (StructureProven(u) => StructureProven(t))
    BY <1>5, <2>4 DEF GivesKey, Names, StructureProven
  <2>7. Declares({item}).foreign \subseteq References(u.foreign)
    BY <2>4, <2>5 DEF References
  <2> HIDE DEF u, f
  <2>8. Became(t, item, u)
    BY <2>4, <2>5, <2>6, <2>7 DEF Became, Lookups
  <2> QED
    BY <2>4, <2>8 DEF u
<1>6. CASE Readable(item) /\ item.kind \in {"unique", "index"}
  <2>1. item.cols \in Seq(Column) /\ item.method \in Method
    BY <1>1, <1>6 DEF KeyItem
  <2> DEFINE x == [cols |-> item.cols, unique |-> item.kind = "unique", method |-> item.method, at |-> at]
  <2>2. u = [t EXCEPT !.indexes = t.indexes \cup {x}]
    BY <1>6 DEF ApplyConstraint
  <2>3. x \in [cols : Seq(Column), unique : BOOLEAN, method : Method, at : Position]
    BY <2>1
  <2>4. /\ u \in Table /\ u.key = t.key /\ u.cols = t.cols /\ u.foreign = t.foreign
        /\ u.indexes = t.indexes \cup {x} /\ u.unreduced = t.unreduced
    <3> HIDE DEF x, u
    <3>1. t.indexes \cup {x} \in SUBSET [cols : Seq(Column), unique : BOOLEAN, method : Method, at : Position]
      BY <2>3 DEF Table
    <3> QED
      BY <2>2, <3>1 DEF Table
  <2>5. /\ Declares({item}).cols = {} /\ Declares({item}).keys = {} /\ Declares({item}).foreign = {}
        /\ Declares({item}).indexes = {[cols |-> item.cols, unique |-> item.kind = "unique", name |-> None]}
    BY <1>2, <1>6 DEF Declares
  <2>6. ~GivesKey(item) /\ Names(u) = Names(t) /\ (StructureProven(u) => StructureProven(t))
    BY <1>6, <2>4 DEF GivesKey, Names, StructureProven
  <2>9. x.cols = item.cols /\ x.unique = (item.kind = "unique")
    OBVIOUS
  <2>7. Lookups(Declares({item}).indexes) \subseteq Lookups(u.indexes)
    <3> HIDE DEF x, u
    <3>1. [cols |-> item.cols, unique |-> item.kind = "unique"] \in Lookups(u.indexes)
      BY <2>4, <2>9 DEF Lookups
    <3> DEFINE un == item.kind = "unique"
    <3>2. Declares({item}).indexes = {[cols |-> item.cols, unique |-> un, name |-> None]}
      BY <2>5
    <3>3. [cols |-> item.cols, unique |-> un] \in Lookups(u.indexes)
      BY <3>1
    <3> HIDE DEF un
    <3>4. Lookups(Declares({item}).indexes) = {[cols |-> item.cols, unique |-> un]}
      BY <3>2, LookupOfOne, Zenon
    <3> QED
      BY <3>3, <3>4
  <2> HIDE DEF u, x
  <2>8. Became(t, item, u)
    BY <2>4, <2>5, <2>6, <2>7 DEF Became
  <2> QED
    BY <2>4, <2>8 DEF u
<1>7. CASE Readable(item) /\ item.kind \in {"check", "garbled"}
  <2>1. u = t /\ ~GivesKey(item)
    BY <1>7 DEF ApplyConstraint, GivesKey
  <2>2. /\ Declares({item}).cols = {} /\ Declares({item}).keys = {} /\ Declares({item}).foreign = {}
        /\ Declares({item}).indexes = {}
    BY <1>2, <1>7 DEF Declares
  <2> QED
    BY <2>1, <2>2 DEF Became, Lookups
<1> QED
  BY <1>1, <1>3, <1>4, <1>5, <1>6, <1>7

LEMMA ItemApplied ==
  ASSUME NEW t \in Table, NEW item \in PlainItem, NEW at \in Position
  PROVE  /\ ApplyItem(t, item, at) \in Table
         /\ Became(t, item, ApplyItem(t, item, at))
<1>1. item \in ColumnItem <=> item.kind = "column"
  BY ItemCases DEF ColumnItem, KeyItem, ForeignItem, OtherItem
<1>2. CASE item.kind = "column"
  BY <1>1, <1>2, ColumnApplied DEF ApplyItem
<1>3. CASE item.kind # "column"
  BY <1>1, <1>3, ConstraintApplied DEF ApplyItem
<1> QED
  BY <1>2, <1>3

LEMMA ItemMatches ==
  ASSUME NEW C, NEW S, NEW t, NEW d, NEW u, NEW item,
         Matches(C, {item} \cup S, t, d), Became(t, item, u), StructureProven(u)
  PROVE  Matches(C \cup Declares({item}).cols, S, u, d)
<1> DEFINE D == Declares({item} \cup S)
           I == Declares({item})
           E == Declares(S)
<1>1. /\ D.cols = I.cols \cup E.cols /\ D.keys = I.keys \cup E.keys
      /\ D.indexes = I.indexes \cup E.indexes /\ D.foreign = I.foreign \cup E.foreign
  <2>1. D.cols = I.cols \cup E.cols
    BY DeclaresBoth
  <2>2. D.keys = I.keys \cup E.keys
    BY DeclaresBoth
  <2>3. D.indexes = I.indexes \cup E.indexes
    BY DeclaresBoth
  <2>4. D.foreign = I.foreign \cup E.foreign
    BY DeclaresBoth
  <2> QED
    BY <2>1, <2>2, <2>3, <2>4
<1>2. /\ d.cols = C \cup D.cols
      /\ d.keys # {} => t.key # <<>> \/ D.keys # {}
      /\ Lookups(d.indexes) \subseteq Lookups(t.indexes) \cup Lookups(D.indexes)
      /\ d.foreign \subseteq References(t.foreign) \cup D.foreign
  BY DEF Matches
<1>3. /\ t.indexes \subseteq u.indexes /\ t.foreign \subseteq u.foreign
      /\ Lookups(I.indexes) \subseteq Lookups(u.indexes)
      /\ I.foreign \subseteq References(u.foreign)
      /\ IF GivesKey(item) THEN u.key # <<>> ELSE u.key = t.key /\ I.keys = {}
  BY DEF Became
<1> HIDE DEF D, I, E
<1>4. d.cols = (C \cup I.cols) \cup E.cols
  BY <1>1, <1>2
<1>5. d.keys # {} => u.key # <<>> \/ E.keys # {}
  BY <1>1, <1>2, <1>3
<1>6. Lookups(d.indexes) \subseteq Lookups(u.indexes) \cup Lookups(E.indexes)
  <2>1. Lookups(t.indexes) \subseteq Lookups(u.indexes)
    BY <1>3 DEF Lookups
  <2>2. Lookups(D.indexes) = Lookups(I.indexes) \cup Lookups(E.indexes)
    BY <1>1, LookupsBoth
  <2> QED
    BY <1>2, <1>3, <2>1, <2>2
<1>7. d.foreign \subseteq References(u.foreign) \cup E.foreign
  <2>1. References(t.foreign) \subseteq References(u.foreign)
    BY <1>3 DEF References
  <2> QED
    BY <1>1, <1>2, <1>3, <2>1
<1> QED
  BY <1>4, <1>5, <1>6, <1>7 DEF Matches, I, E

LEMMA NoKeyGiven ==
  ASSUME NEW S, \A item \in S : ~GivesKey(item)
  PROVE  Declares(S).keys = {}
BY DEF Declares, ColumnsIn, GivesKey

LEMMA ItemKeys ==
  ASSUME NEW S, NEW t, NEW d, NEW u, NEW item,
         KeyIs({item} \cup S, t, d), Became(t, item, u), StructureProven(u),
         GivesKey(item) => \A other \in S : ~GivesKey(other)
  PROVE  KeyIs(S, u, d)
<1>1. Declares({item} \cup S).keys = Declares({item}).keys \cup Declares(S).keys
  BY DeclaresBoth
<1>2. IF GivesKey(item) THEN u.key # <<>> /\ (t.key = <<>> => Declares({item}).keys = {u.key})
      ELSE u.key = t.key /\ Declares({item}).keys = {}
  BY DEF Became
<1>3. CASE GivesKey(item)
  <2>1. t.key = <<>> /\ d.keys = Declares({item}).keys \cup Declares(S).keys
    BY <1>1, <1>3 DEF KeyIs
  <2>2. Declares(S).keys = {}
    BY <1>3, NoKeyGiven
  <2> QED
    BY <1>2, <1>3, <2>1, <2>2 DEF KeyIs
<1>4. CASE ~GivesKey(item)
  <2>1. u.key = t.key /\ Declares({item} \cup S).keys = Declares(S).keys
    BY <1>1, <1>2, <1>4
  <2> QED
    BY <2>1 DEF KeyIs
<1> QED
  BY <1>3, <1>4

-----------------------------------------------------------------------------
(* The first of the items or parts still to be applied. *)

LEMMA FlatOfOne ==
  ASSUME NEW item
  PROVE  Flat(<<item>>) = Pieces(item)
BY DEF Flat, Pieces

LEMMA OneKeyTail ==
  ASSUME NEW items \in Seq(Item), items # <<>>, OneKey(items)
  PROVE  /\ OneKey(Tail(items))
         /\ Head(items).kind = "glued" => ~(GivesKey(Head(items).host) /\ GivesKey(Head(items).rest))
         /\ (\E p \in Pieces(Head(items)) : GivesKey(p)) => \A x \in Flat(Tail(items)) : ~GivesKey(x)
<1> DEFINE gives(item) == \E p \in Pieces(item) : GivesKey(p)
<1>1. /\ \A i, j \in DOMAIN items : gives(items[i]) /\ gives(items[j]) => i = j
      /\ \A i \in DOMAIN items :
           items[i].kind = "glued" => ~(GivesKey(items[i].host) /\ GivesKey(items[i].rest))
  BY FlatOfOne DEF OneKey
<1>2. ASSUME NEW k \in DOMAIN Tail(items)
      PROVE  k \in Nat \ {0} /\ k + 1 \in DOMAIN items /\ Tail(items)[k] = items[k + 1]
  BY HeadAndTail
<1>3. 1 \in DOMAIN items /\ Head(items) = items[1]
  BY HeadAndTail
<1>4. \A i, j \in DOMAIN Tail(items) : gives(Tail(items)[i]) /\ gives(Tail(items)[j]) => i = j
  <2>1. SUFFICES ASSUME NEW i \in DOMAIN Tail(items), NEW j \in DOMAIN Tail(items),
                        gives(Tail(items)[i]), gives(Tail(items)[j])
                 PROVE  i = j
    OBVIOUS
  <2>2. gives(items[i + 1]) /\ gives(items[j + 1])
    BY <1>2, <2>1
  <2>3. i + 1 = j + 1
    BY <1>1, <1>2, <2>2
  <2> QED
    BY <1>2, <2>3
<1>5. \A i \in DOMAIN Tail(items) : Tail(items)[i].kind = "glued" =>
        ~(GivesKey(Tail(items)[i].host) /\ GivesKey(Tail(items)[i].rest))
  BY <1>1, <1>2
<1>6. OneKey(Tail(items))
  BY <1>4, <1>5, FlatOfOne DEF OneKey
<1>7. ASSUME gives(Head(items)), NEW x \in Flat(Tail(items))
      PROVE  ~GivesKey(x)
  <2>1. PICK k \in DOMAIN Tail(items) : x \in Pieces(Tail(items)[k])
    BY InFlat
  <2>2. GivesKey(x) => gives(items[k + 1])
    BY <1>2, <2>1
  <2>3. gives(items[1])
    BY <1>3, <1>7
  <2>4. GivesKey(x) => k + 1 = 1
    BY <1>1, <1>2, <1>3, <2>2, <2>3
  <2> QED
    BY <1>2, <2>4
<1> QED
  BY <1>1, <1>3, <1>6, <1>7

\* The columns a part leaves for the next, and whether its item is to be applied.
After(C, part) == IF IsAdd(part) /\ part.item.kind = "column" THEN C \cup {part.item.name} ELSE C
Due1(C, part) == IsAdd(part) /\ ~(part.item.kind = "column" /\ part.item.name \in C)

LEMMA EffectiveTail ==
  ASSUME NEW C, NEW parts \in Seq(Part), parts # <<>>
  PROVE  /\ 1 \in Effective(C, parts) <=> Due1(C, Head(parts))
         /\ \A k \in DOMAIN Tail(parts) :
              k + 1 \in Effective(C, parts) <=> k \in Effective(After(C, Head(parts)), Tail(parts))
<1>1. 1 \in DOMAIN parts /\ Head(parts) = parts[1]
  BY HeadAndTail
<1>2. 1 \in Effective(C, parts) <=> Due1(C, Head(parts))
  BY <1>1 DEF Effective, Present, Due1
<1>3. ASSUME NEW k \in DOMAIN Tail(parts)
      PROVE  k + 1 \in Effective(C, parts) <=> k \in Effective(After(C, Head(parts)), Tail(parts))
  <2>1. k \in Nat \ {0} /\ k + 1 \in DOMAIN parts /\ Tail(parts)[k] = parts[k + 1]
    BY HeadAndTail
  <2> DEFINE c == parts[k + 1].item.name
  <2>2. (\E j \in 1 .. k : AddsColumn(parts[j], c)) <=>
          AddsColumn(Head(parts), c) \/ \E j \in 1 .. k - 1 : AddsColumn(Tail(parts)[j], c)
    <3>1. ASSUME NEW j \in 1 .. k, AddsColumn(parts[j], c)
          PROVE  AddsColumn(Head(parts), c) \/ \E i \in 1 .. k - 1 : AddsColumn(Tail(parts)[i], c)
      <4>1. CASE j = 1
        BY <1>1, <3>1, <4>1
      <4>2. CASE j # 1
        <5>1. j - 1 \in 1 .. k - 1 /\ j - 1 \in DOMAIN Tail(parts) /\ (j - 1) + 1 = j
          BY <2>1, <4>2
        <5>2. Tail(parts)[j - 1] = parts[j]
          BY <5>1, HeadAndTail
        <5> QED
          BY <3>1, <5>1, <5>2
      <4> QED
        BY <4>1, <4>2
    <3>2. ASSUME NEW i \in 1 .. k - 1, AddsColumn(Tail(parts)[i], c)
          PROVE  \E j \in 1 .. k : AddsColumn(parts[j], c)
      <4>1. i \in DOMAIN Tail(parts) /\ i + 1 \in 1 .. k
        BY <2>1
      <4>2. Tail(parts)[i] = parts[i + 1]
        BY <4>1, HeadAndTail
      <4> QED
        BY <3>2, <4>1, <4>2
    <3>3. AddsColumn(Head(parts), c) => \E j \in 1 .. k : AddsColumn(parts[j], c)
      BY <1>1, <2>1
    <3> QED
      BY <3>1, <3>2, <3>3
  <2>3. (k + 1) - 1 = k
    BY <2>1
  <2>4. c \in After(C, Head(parts)) <=> c \in C \/ AddsColumn(Head(parts), c)
    BY DEF After, AddsColumn
  <2>5. Present(C, parts, k + 1) <=> Present(After(C, Head(parts)), Tail(parts), k)
    BY <2>1, <2>2, <2>3, <2>4 DEF Present
  <2> QED
    BY <2>1, <2>5 DEF Effective
<1> QED
  BY <1>2, <1>3

LEMMA AddedTail ==
  ASSUME NEW C, NEW parts \in Seq(Part), parts # <<>>
  PROVE  AddedItems(C, parts) =
           (IF Due1(C, Head(parts)) THEN {Head(parts).item} ELSE {}) \cup
           AddedItems(After(C, Head(parts)), Tail(parts))
<1> DEFINE C2 == After(C, Head(parts))
           h  == IF Due1(C, Head(parts)) THEN {Head(parts).item} ELSE {}
<1>1. Head(parts) = parts[1] /\ \A k \in DOMAIN Tail(parts) : Tail(parts)[k] = parts[k + 1]
  BY HeadAndTail
<1>2. /\ 1 \in Effective(C, parts) <=> Due1(C, Head(parts))
      /\ \A k \in DOMAIN Tail(parts) : k + 1 \in Effective(C, parts) <=> k \in Effective(C2, Tail(parts))
  BY EffectiveTail
<1>3. Effective(C, parts) \subseteq DOMAIN parts /\ Effective(C2, Tail(parts)) \subseteq DOMAIN Tail(parts)
  BY DEF Effective
<1> HIDE DEF C2
<1>4. ASSUME NEW i \in Effective(C, parts)
      PROVE  parts[i].item \in h \cup AddedItems(C2, Tail(parts))
  <2>1. CASE i = 1
    BY <1>1, <1>2, <1>4, <2>1
  <2>2. CASE i # 1
    <3>1. PICK k \in DOMAIN Tail(parts) : i = k + 1
      BY <1>3, <2>2, HeadAndTail
    <3>2. k \in Effective(C2, Tail(parts)) /\ Tail(parts)[k].item = parts[i].item
      BY <1>1, <1>2, <3>1
    <3> QED
      BY <3>2 DEF AddedItems
  <2> QED
    BY <2>1, <2>2
<1>5. h \subseteq AddedItems(C, parts)
  BY <1>1, <1>2 DEF AddedItems
<1>6. ASSUME NEW k \in Effective(C2, Tail(parts))
      PROVE  Tail(parts)[k].item \in AddedItems(C, parts)
  BY <1>1, <1>2, <1>3 DEF AddedItems
<1>7. AddedItems(C, parts) = h \cup AddedItems(C2, Tail(parts))
  BY <1>4, <1>5, <1>6 DEF AddedItems
<1> QED
  BY <1>7 DEF C2

LEMMA OneKeyAddedTail ==
  ASSUME NEW C, NEW parts \in Seq(Part), parts # <<>>, OneKeyAdded(C, parts)
  PROVE  /\ OneKeyAdded(After(C, Head(parts)), Tail(parts))
         /\ Due1(C, Head(parts)) /\ GivesKey(Head(parts).item) =>
              \A x \in AddedItems(After(C, Head(parts)), Tail(parts)) : ~GivesKey(x)
<1> DEFINE C2 == After(C, Head(parts))
<1>1. Head(parts) = parts[1]
  BY HeadAndTail
<1>2. ASSUME NEW k \in Effective(C2, Tail(parts))
      PROVE  k \in Nat \ {0} /\ k + 1 \in Effective(C, parts) /\ Tail(parts)[k] = parts[k + 1]
  BY HeadAndTail, EffectiveTail DEF Effective
<1>3. \A i, j \in Effective(C, parts) : GivesKey(parts[i].item) /\ GivesKey(parts[j].item) => i = j
  BY DEF OneKeyAdded
<1>4. Due1(C, Head(parts)) => 1 \in Effective(C, parts)
  BY EffectiveTail
<1> HIDE DEF C2
<1>5. ASSUME NEW i \in Effective(C2, Tail(parts)), NEW j \in Effective(C2, Tail(parts)),
             GivesKey(Tail(parts)[i].item), GivesKey(Tail(parts)[j].item)
      PROVE  i = j
  <2>1. i + 1 = j + 1
    BY <1>2, <1>3, <1>5
  <2> QED
    BY <1>2, <2>1
<1>6. ASSUME Due1(C, Head(parts)), GivesKey(Head(parts).item),
             NEW k \in Effective(C2, Tail(parts)), GivesKey(Tail(parts)[k].item)
      PROVE  FALSE
  <2>1. 1 = k + 1
    BY <1>1, <1>2, <1>3, <1>4, <1>6
  <2> QED
    BY <1>2, <2>1
<1> QED
  BY <1>5, <1>6 DEF OneKeyAdded, AddedItems, C2

LEMMA DroppedTail ==
  ASSUME NEW parts \in Seq(Part), parts # <<>>
  PROVE  Dropped(parts) =
           (IF Head(parts).verb = "drop" THEN {Head(parts).column} \ {None} ELSE {}) \cup Dropped(Tail(parts))
<1>1. Head(parts) = parts[1] /\ 1 \in DOMAIN parts
  BY HeadAndTail
<1>2. \A j \in DOMAIN parts : j = 1 \/ \E k \in DOMAIN Tail(parts) : j = k + 1
  BY HeadAndTail
<1>3. \A k \in DOMAIN Tail(parts) : k + 1 \in DOMAIN parts /\ Tail(parts)[k] = parts[k + 1]
  BY HeadAndTail
<1> DEFINE h == IF Head(parts).verb = "drop" THEN {Head(parts).column} \ {None} ELSE {}
<1>4. ASSUME NEW c \in Dropped(parts)
      PROVE  c \in h \cup Dropped(Tail(parts))
  <2>1. PICK j \in DOMAIN parts : parts[j].verb = "drop" /\ parts[j].column = c /\ c # None
    BY DEF Dropped
  <2>2. CASE j = 1
    BY <1>1, <2>1, <2>2
  <2>3. CASE j # 1
    <3>1. PICK k \in DOMAIN Tail(parts) : j = k + 1
      BY <1>2, <2>3
    <3>2. Tail(parts)[k].verb = "drop" /\ Tail(parts)[k].column = c
      BY <1>3, <2>1, <3>1
    <3> QED
      BY <2>1, <3>2 DEF Dropped
  <2> QED
    BY <2>2, <2>3
<1>5. h \subseteq Dropped(parts)
  BY <1>1 DEF Dropped
<1>6. Dropped(Tail(parts)) \subseteq Dropped(parts)
  BY <1>3 DEF Dropped
<1> QED
  BY <1>4, <1>5, <1>6

LEMMA AddsThenDropsTail ==
  ASSUME NEW parts \in Seq(Part), parts # <<>>, ~AddsThenDrops(parts)
  PROVE  /\ ~AddsThenDrops(Tail(parts))
         /\ \A c \in Dropped(Tail(parts)) : ~AddsColumn(Head(parts), c)
<1>1. Head(parts) = parts[1] /\ 1 \in DOMAIN parts
  BY HeadAndTail
<1>2. \A k \in DOMAIN Tail(parts) :
        k \in Nat \ {0} /\ k + 1 \in DOMAIN parts /\ Tail(parts)[k] = parts[k + 1]
  BY HeadAndTail
<1>3. ASSUME NEW i \in DOMAIN Tail(parts), NEW j \in DOMAIN Tail(parts), i < j, Tail(parts)[j].verb = "drop",
             AddsColumn(Tail(parts)[i], Tail(parts)[j].column)
      PROVE  FALSE
  <2>1. i + 1 < j + 1
    BY <1>2, <1>3
  <2> QED
    BY <1>2, <1>3, <2>1 DEF AddsThenDrops
<1>4. ASSUME NEW c \in Dropped(Tail(parts)), AddsColumn(Head(parts), c)
      PROVE  FALSE
  <2>1. PICK j \in DOMAIN Tail(parts) : Tail(parts)[j].verb = "drop" /\ Tail(parts)[j].column = c
    BY DEF Dropped
  <2>2. 1 < j + 1
    BY <1>2
  <2> QED
    BY <1>1, <1>2, <1>4, <2>1, <2>2 DEF AddsThenDrops
<1> QED
  BY <1>3, <1>4 DEF AddsThenDrops

-----------------------------------------------------------------------------
(* One step of a loop, of the table t and the table u it makes of it: if u is *)
(* still proven it follows the database as t did.                          *)

BodyFollows(items, t, d) == Matches(Names(t), Flat(items), t, d)
BodyKeyed(items, t, d) == OneKey(items) /\ KeyIs(Flat(items), t, d)

PartsFollow(parts, t, d) ==
  LET C == Names(t) \ Dropped(parts) IN Matches(C, AddedItems(C, parts), t, d)
PartsKeyed(parts, t, d) ==
  LET C == Names(t) \ Dropped(parts) IN OneKeyAdded(C, parts) /\ KeyIs(AddedItems(C, parts), t, d)

BodyApplied(t, item, at) ==
  CASE item.kind = "glued" /\ Cut(item) -> ApplyItem(ApplyItem(t, item.host, at), item.rest, at)
    [] item.kind = "glued" /\ ~Cut(item) -> ApplyItem(t, Absorbed(item.host, item.rest), at)
    [] OTHER -> ApplyItem(t, item, at)

\* What two items read as one are read as.
LEMMA AbsorbedIsPlain ==
  ASSUME NEW host \in PlainItem, NEW rest \in PlainItem
  PROVE  /\ Absorbed(host, rest) \in PlainItem
         /\ Absorbed(host, rest).kind = host.kind
         /\ host.kind = "column" => Absorbed(host, rest).name = host.name
         /\ GivesKey(Absorbed(host, rest)) => GivesKey(host) \/ GivesKey(rest)
<1> DEFINE a == Absorbed(host, rest)
           i == host.inline \cup KeyWords(rest)
           r == IF host.ref = None /\ Refers(rest) THEN rest.ref ELSE host.ref
           c == IF host.ref = None /\ Refers(rest) THEN rest.to ELSE host.to
<1>1. CASE host.kind # "column"
  BY <1>1 DEF Absorbed
<1>2. CASE host.kind = "column"
  <2>1. host \in ColumnItem
    BY <1>2, ItemCases
  <2>2. KeyWords(rest) \subseteq {"key", "unique"} /\ ("key" \in KeyWords(rest) => GivesKey(rest))
    BY ItemCases DEF KeyWords, GivesKey, ColumnItem
  <2>3. Refers(rest) => rest.ref \in Name \cup {None} /\ rest.to \in Seq(Column)
    BY ItemCases DEF Refers, ColumnItem, ForeignItem
  <2>4. i \in SUBSET {"key", "unique"} /\ r \in Name \cup {None} /\ c \in Seq(Column)
    BY <2>1, <2>2, <2>3 DEF ColumnItem
  <2>5. a = [host EXCEPT !.inline = i, !.ref = r, !.to = c]
    BY <1>2 DEF Absorbed
  <2> HIDE DEF a, i, r, c
  <2>6. a \in ColumnItem /\ a.kind = "column" /\ a.name = host.name /\ a.inline = i
    BY <2>1, <2>4, <2>5 DEF ColumnItem
  <2>7. GivesKey(a) => "key" \in i
    BY <2>6 DEF GivesKey
  <2>8. "key" \in i => GivesKey(host) \/ GivesKey(rest)
    BY <1>2, <2>2 DEF GivesKey, i
  <2> QED
    BY <1>2, <2>6, <2>7, <2>8 DEF PlainItem, a
<1> QED
  BY <1>1, <1>2

LEMMA BodyTyped ==
  ASSUME NEW t \in Table, NEW item \in Item, NEW at \in Position
  PROVE  BodyApplied(t, item, at) \in Table
<1>1. CASE item.kind = "glued"
  <2>1. item.host \in PlainItem /\ item.rest \in PlainItem
    BY <1>1, PiecesArePlain DEF Pieces
  <2>2. /\ ApplyItem(t, item.host, at) \in Table
        /\ ApplyItem(ApplyItem(t, item.host, at), item.rest, at) \in Table
    BY <2>1, ItemApplied
  <2>3. ApplyItem(t, Absorbed(item.host, item.rest), at) \in Table
    BY <2>1, AbsorbedIsPlain, ItemApplied
  <2> QED
    BY <1>1, <2>2, <2>3 DEF BodyApplied
<1>2. CASE item.kind # "glued"
  <2>1. item \in PlainItem
    BY <1>2, PiecesArePlain DEF Pieces
  <2> QED
    BY <1>2, <2>1, ItemApplied DEF BodyApplied
<1> QED
  BY <1>1, <1>2

LEMMA RunTogetherTail ==
  ASSUME NEW items \in Seq(Item), items # <<>>, ~RunTogether(items)
  PROVE  /\ ~RunTogether(Tail(items))
         /\ Head(items).kind = "glued" => Cut(Head(items))
<1>1. Head(items) = items[1] /\ 1 \in DOMAIN items
  BY HeadAndTail
<1>2. \A k \in DOMAIN Tail(items) : k + 1 \in DOMAIN items /\ Tail(items)[k] = items[k + 1]
  BY HeadAndTail
<1> QED
  BY <1>1, <1>2 DEF RunTogether

LEMMA BodyStep ==
  ASSUME NEW t \in Table, NEW items \in Seq(Item), items # <<>>, NEW at \in Position, NEW d,
         ~RunTogether(items)
  PROVE  LET u == BodyApplied(t, Head(items), at)
         IN  /\ u \in Table
             /\ StructureProven(u) =>
                  /\ StructureProven(t)
                  /\ BodyFollows(items, t, d) => BodyFollows(Tail(items), u, d)
                  /\ BodyKeyed(items, t, d) => BodyKeyed(Tail(items), u, d)
<1> DEFINE item == Head(items)
           u == BodyApplied(t, item, at)
           S == Flat(Tail(items))
<1>1. item \in Item /\ Flat(items) = Pieces(item) \cup S
  BY HeadAndTail, FlatHead
<1>2. CASE item.kind = "glued"
  <2> DEFINE v == ApplyItem(t, item.host, at)
             T == {item.rest} \cup S
  <2>1. item.host \in PlainItem /\ item.rest \in PlainItem
    BY <1>1, <1>2, PiecesArePlain DEF Pieces
  <2>2. v \in Table /\ Became(t, item.host, v)
    BY <2>1, ItemApplied
  <2>3. u = ApplyItem(v, item.rest, at)
    BY <1>2, RunTogetherTail DEF BodyApplied
  <2> HIDE DEF v
  <2>4. u \in Table /\ Became(v, item.rest, u)
    BY <2>1, <2>2, <2>3, ItemApplied
  <2>5. Flat(items) = {item.host} \cup T
    BY <1>1, <1>2 DEF Pieces
  <2> HIDE DEF u, S, T
  <2>6. StructureProven(u) => StructureProven(v) /\ StructureProven(t)
    BY <2>2, <2>4 DEF Became
  <2>7. ASSUME StructureProven(u)
        PROVE  BodyFollows(items, t, d) => Matches(Names(u), S, u, d)
    <3>1. SUFFICES ASSUME BodyFollows(items, t, d)
                   PROVE  Matches(Names(u), S, u, d)
      OBVIOUS
    <3>2. Names(v) = Names(t) \cup Declares({item.host}).cols
          /\ Names(u) = Names(v) \cup Declares({item.rest}).cols
      BY <2>2, <2>4, <2>6, <2>7 DEF Became
    <3>3. Matches(Names(t), {item.host} \cup T, t, d)
      BY <2>5, <3>1 DEF BodyFollows
    <3>4. Matches(Names(t) \cup Declares({item.host}).cols, T, v, d)
      BY <2>2, <2>6, <2>7, <3>3, ItemMatches
    <3>5. Matches(Names(v), {item.rest} \cup S, v, d)
      BY <3>2, <3>4 DEF T
    <3>6. Matches(Names(v) \cup Declares({item.rest}).cols, S, u, d)
      BY <2>4, <2>7, <3>5, ItemMatches
    <3> QED
      BY <3>2, <3>6
  <2>8. ASSUME StructureProven(u)
        PROVE  BodyKeyed(items, t, d) => OneKey(Tail(items)) /\ KeyIs(S, u, d)
    <3>1. SUFFICES ASSUME BodyKeyed(items, t, d)
                   PROVE  OneKey(Tail(items)) /\ KeyIs(S, u, d)
      OBVIOUS
    <3>2. /\ OneKey(Tail(items)) /\ ~(GivesKey(item.host) /\ GivesKey(item.rest))
          /\ GivesKey(item.host) \/ GivesKey(item.rest) => \A x \in S : ~GivesKey(x)
      BY <1>2, <3>1, OneKeyTail DEF BodyKeyed, Pieces, S
    <3>3. GivesKey(item.host) => \A x \in T : ~GivesKey(x)
      BY <3>2 DEF T
    <3>4. KeyIs(T, v, d)
      BY <2>2, <2>5, <2>6, <2>8, <3>1, <3>3, ItemKeys DEF BodyKeyed
    <3>5. KeyIs(S, u, d)
      BY <2>4, <2>8, <3>2, <3>4, ItemKeys DEF T
    <3> QED
      BY <3>2, <3>5
  <2> QED
    BY <2>4, <2>6, <2>7, <2>8 DEF BodyFollows, BodyKeyed, u, S
<1>3. CASE item.kind # "glued"
  <2>1. item \in PlainItem /\ u = ApplyItem(t, item, at)
    BY <1>1, <1>3, PiecesArePlain DEF BodyApplied, Pieces
  <2>2. u \in Table /\ Became(t, item, u)
    BY <2>1, ItemApplied
  <2>3. Flat(items) = {item} \cup S
    BY <1>1, <1>3 DEF Pieces
  <2> HIDE DEF u, S
  <2>4. StructureProven(u) => StructureProven(t) /\ Names(u) = Names(t) \cup Declares({item}).cols
    BY <2>2 DEF Became
  <2>5. ASSUME StructureProven(u), BodyFollows(items, t, d)
        PROVE  Matches(Names(u), S, u, d)
    <3>1. Matches(Names(t), {item} \cup S, t, d)
      BY <2>3, <2>5 DEF BodyFollows
    <3> HIDE DEF item
    <3>2. Matches(Names(t) \cup Declares({item}).cols, S, u, d)
      BY <2>2, <2>5, <3>1, ItemMatches
    <3> QED
      BY <2>4, <2>5, <3>2
  <2>6. ASSUME StructureProven(u), BodyKeyed(items, t, d)
        PROVE  OneKey(Tail(items)) /\ KeyIs(S, u, d)
    <3>1. /\ OneKey(Tail(items))
          /\ GivesKey(item) => \A x \in S : ~GivesKey(x)
      BY <1>3, <2>6, OneKeyTail DEF BodyKeyed, Pieces, S
    <3>2. KeyIs(S, u, d)
      BY <2>2, <2>3, <2>6, <3>1, ItemKeys DEF BodyKeyed
    <3> QED
      BY <3>1, <3>2
  <2> QED
    BY <2>2, <2>4, <2>5, <2>6 DEF BodyFollows, BodyKeyed, u, S
<1> QED
  BY <1>2, <1>3

LEMMA ItemColumns ==
  ASSUME NEW item \in PlainItem
  PROVE  Declares({item}).cols = IF item.kind = "column" THEN {item.name} ELSE {}
BY DEF Declares, ColumnsIn

LEMMA AddingParts ==
  ASSUME NEW parts \in Seq(Part), parts # <<>>, IsAdd(Head(parts))
  PROVE  Head(parts).item \in PlainItem /\ Head(parts).verb # "drop"
<1>1. Head(parts) \in Part
  BY HeadAndTail
<1> QED
  BY <1>1 DEF Part, AddPart, DropPart, RestPart, IsAdd

LEMMA AddStep ==
  ASSUME NEW t \in Table, NEW parts \in Seq(Part), parts # <<>>, NEW at \in Position, NEW d,
         ~AddsThenDrops(parts), IsAdd(Head(parts)),
         ~(Head(parts).item.kind = "column" /\ Head(parts).item.name \in Names(t))
  PROVE  LET u == ApplyItem(t, Head(parts).item, at)
         IN  StructureProven(u) =>
               /\ PartsFollow(parts, t, d) => PartsFollow(Tail(parts), u, d)
               /\ PartsKeyed(parts, t, d) => PartsKeyed(Tail(parts), u, d)
<1> DEFINE h == Head(parts)
           item == h.item
           u == ApplyItem(t, item, at)
           C == Names(t) \ Dropped(parts)
           S == AddedItems(After(C, h), Tail(parts))
<1>1. item \in PlainItem /\ h.verb # "drop"
  BY AddingParts
<1>2. u \in Table /\ Became(t, item, u)
  BY <1>1, ItemApplied
<1>3. Dropped(parts) = Dropped(Tail(parts))
  BY <1>1, DroppedTail
<1>4. item.kind = "column" => item.name \notin Dropped(parts)
  BY <1>3, AddsThenDropsTail DEF AddsColumn
<1>5. Due1(C, h)
  BY DEF Due1
<1>6. AddedItems(C, parts) = {item} \cup S
  BY <1>5, AddedTail
<1>7. After(C, h) = C \cup Declares({item}).cols
  BY <1>1, ItemColumns DEF After
<1> HIDE DEF u
<1>8. StructureProven(u) => Names(u) = Names(t) \cup Declares({item}).cols
  BY <1>2 DEF Became
<1>9. StructureProven(u) => Names(u) \ Dropped(Tail(parts)) = After(C, h)
  <2>1. Declares({item}).cols \cap Dropped(parts) = {}
    BY <1>1, <1>4, ItemColumns, ZenonT(40)
  <2> QED
    BY <1>3, <1>7, <1>8, <2>1
<1> HIDE DEF C, S, h, item
<1>10. ASSUME StructureProven(u), Matches(C, AddedItems(C, parts), t, d)
       PROVE  Matches(After(C, h), S, u, d)
  <2>1. Matches(C, {item} \cup S, t, d)
    BY <1>6, <1>10
  <2>2. Matches(C \cup Declares({item}).cols, S, u, d)
    BY <1>2, <1>10, <2>1, ItemMatches
  <2> QED
    BY <1>7, <2>2
<1>11. ASSUME StructureProven(u), OneKeyAdded(C, parts), KeyIs(AddedItems(C, parts), t, d)
       PROVE  OneKeyAdded(After(C, h), Tail(parts)) /\ KeyIs(S, u, d)
  <2>1. /\ OneKeyAdded(After(C, h), Tail(parts))
        /\ GivesKey(item) => \A x \in S : ~GivesKey(x)
    BY <1>5, <1>11, OneKeyAddedTail DEF h, item, S
  <2>2. KeyIs(S, u, d)
    BY <1>2, <1>6, <1>11, <2>1, ItemKeys
  <2> QED
    BY <2>1, <2>2
<1> QED
  BY <1>9, <1>10, <1>11 DEF PartsFollow, PartsKeyed, C, S, h, item, u

\* A part with nothing to apply leaves the table as it was, but for a column it drops.
LEMMA RestStep ==
  ASSUME NEW t \in Table, NEW parts \in Seq(Part), parts # <<>>, NEW d, NEW u \in Table,
         ~Due1(Names(t) \ Dropped(parts), Head(parts)),
         After(Names(t) \ Dropped(parts), Head(parts)) = Names(t) \ Dropped(parts),
         Names(u) \ Dropped(Tail(parts)) = Names(t) \ Dropped(parts),
         u.key = t.key, u.indexes = t.indexes, u.foreign = t.foreign
  PROVE  /\ PartsFollow(parts, t, d) => PartsFollow(Tail(parts), u, d)
         /\ PartsKeyed(parts, t, d) => PartsKeyed(Tail(parts), u, d)
<1> DEFINE C == Names(t) \ Dropped(parts)
           S == AddedItems(C, parts)
<1>1. S = AddedItems(C, Tail(parts))
  <2>1. S = (IF Due1(C, Head(parts)) THEN {Head(parts).item} ELSE {}) \cup
            AddedItems(After(C, Head(parts)), Tail(parts))
    BY AddedTail
  <2>2. ~Due1(C, Head(parts)) /\ After(C, Head(parts)) = C
    OBVIOUS
  <2> QED
    BY <2>1, <2>2
<1>2. OneKeyAdded(C, parts) => OneKeyAdded(C, Tail(parts))
  BY OneKeyAddedTail
<1> HIDE DEF C, S
<1>3. Matches(C, S, t, d) => Matches(C, S, u, d)
  BY DEF Matches
<1>4. KeyIs(S, t, d) => KeyIs(S, u, d)
  BY DEF KeyIs
<1>5. Names(u) \ Dropped(Tail(parts)) = C
  BY DEF C
<1>6. PartsFollow(parts, t, d) => PartsFollow(Tail(parts), u, d)
  BY <1>1, <1>3, <1>5 DEF PartsFollow, C, S
<1>7. PartsKeyed(parts, t, d) => PartsKeyed(Tail(parts), u, d)
  BY <1>1, <1>2, <1>4, <1>5 DEF PartsKeyed, C, S
<1> QED
  BY <1>6, <1>7

LEMMA ExistingStep ==
  ASSUME NEW t \in Table, NEW parts \in Seq(Part), parts # <<>>, NEW d,
         ~AddsThenDrops(parts), IsAdd(Head(parts)),
         Head(parts).item.kind = "column", Head(parts).item.name \in Names(t)
  PROVE  /\ PartsFollow(parts, t, d) => PartsFollow(Tail(parts), t, d)
         /\ PartsKeyed(parts, t, d) => PartsKeyed(Tail(parts), t, d)
<1>1. Dropped(parts) = Dropped(Tail(parts))
  BY AddingParts, DroppedTail
<1>2. Head(parts).item.name \in Names(t) \ Dropped(parts)
  BY <1>1, AddsThenDropsTail DEF AddsColumn
<1> QED
  BY <1>1, <1>2, RestStep DEF Due1, After

LEMMA DropStep ==
  ASSUME NEW t \in Table, NEW parts \in Seq(Part), parts # <<>>, NEW d, Head(parts).verb = "drop"
  PROVE  LET u == DropColumn(t, Head(parts).column)
         IN  /\ u \in Table
             /\ StructureProven(u) => StructureProven(t)
             /\ u.indexes = t.indexes /\ u.foreign = t.foreign
             /\ PartsFollow(parts, t, d) => PartsFollow(Tail(parts), u, d)
             /\ PartsKeyed(parts, t, d) => PartsKeyed(Tail(parts), u, d)
<1> DEFINE c == Head(parts).column
           u == DropColumn(t, c)
           rest == {e \in t.cols : e.name # c}
<1>1. u = [t EXCEPT !.cols = rest]
  BY DEF DropColumn
<1>2. rest \subseteq [name : Column, at : Position] /\ None \notin Names(t)
  <2>1. t.cols \subseteq [name : Column, at : Position]
    BY DEF Table
  <2> QED
    BY <2>1, NoneApart DEF Names
<1>3. Names(t) \ {c} = {e.name : e \in rest}
  BY DEF Names
<1> HIDE DEF rest, u
<1>4. /\ u \in Table /\ u.cols = rest /\ u.key = t.key /\ u.indexes = t.indexes
      /\ u.foreign = t.foreign /\ u.unreduced = t.unreduced
  BY <1>1, <1>2 DEF Table
<1>5. Names(u) = Names(t) \ {c}
  BY <1>3, <1>4 DEF Names
<1>6. Dropped(parts) = ({c} \ {None}) \cup Dropped(Tail(parts))
  BY DroppedTail
<1>7. Names(u) \ Dropped(Tail(parts)) = Names(t) \ Dropped(parts)
  BY <1>2, <1>5, <1>6
<1>8. ~IsAdd(Head(parts))
  BY DEF IsAdd
<1>9. /\ PartsFollow(parts, t, d) => PartsFollow(Tail(parts), u, d)
      /\ PartsKeyed(parts, t, d) => PartsKeyed(Tail(parts), u, d)
  BY <1>4, <1>7, <1>8, RestStep DEF Due1, After
<1> QED
  BY <1>4, <1>9 DEF StructureProven, u

LEMMA SkipStep ==
  ASSUME NEW t \in Table, NEW parts \in Seq(Part), parts # <<>>, NEW d,
         ~IsAdd(Head(parts)), Head(parts).verb # "drop"
  PROVE  /\ PartsFollow(parts, t, d) => PartsFollow(Tail(parts), t, d)
         /\ PartsKeyed(parts, t, d) => PartsKeyed(Tail(parts), t, d)
<1>1. Dropped(parts) = Dropped(Tail(parts))
  BY DroppedTail
<1> QED
  BY <1>1, RestStep DEF Due1, After

LEMMA NothingLeft ==
  ASSUME NEW t, NEW d
  PROVE  /\ BodyFollows(<<>>, t, d) => Matches(Names(t), {}, t, d)
         /\ BodyKeyed(<<>>, t, d) => KeyIs({}, t, d)
         /\ PartsFollow(<<>>, t, d) => Matches(Names(t), {}, t, d)
         /\ PartsKeyed(<<>>, t, d) => KeyIs({}, t, d)
<1>1. Dropped(<<>>) = {} /\ \A C : AddedItems(C, <<>>) = {}
  BY DEF Dropped, AddedItems, Effective
<1> QED
  BY <1>1, FlatEmpty DEF BodyFollows, BodyKeyed, PartsFollow, PartsKeyed

-----------------------------------------------------------------------------
(* What a statement makes of the database. *)

\* A branch is one of the heads, or the default.
LEMMA BranchKinds ==
  ASSUME NEW st
  PROVE  Branch(st) \in {"createTable", "partitionOf", "alterTable", "createIndex", "columnstore",
                         "indexShaped", "dropTable", "partitionScheme", "partitionFunction", "sequence", "view",
                         "routine", "trigger", "dataOrPermission", "sessionScoped", "hashPrefixed",
                         "tableShaped", "default"}
<1> DEFINE heads == {"createTable", "partitionOf", "alterTable", "createIndex", "columnstore",
                     "indexShaped", "dropTable", "partitionScheme", "partitionFunction", "sequence", "view",
                     "routine", "trigger", "dataOrPermission", "sessionScoped", "hashPrefixed", "tableShaped"}
           taken == {i \in DOMAIN Dispatch : Dispatch[i] \in st.shapes /\ Spoken(Dispatch[i])}
<1>1. DOMAIN Dispatch = 1 .. 17 /\ \A i \in 1 .. 17 : Dispatch[i] \in heads
  BY DEF Dispatch
<1>2. taken \subseteq 1 .. 17
  BY <1>1
<1>3. CASE taken = {}
  BY <1>3, Zenon DEF Branch
<1>4. CASE taken # {}
  <2>1. \E i \in taken : \A j \in taken : i <= j
    BY <1>2, <1>4, LeastOf, SMTT(30)
  <2>2. (CHOOSE i \in taken : \A j \in taken : i <= j) \in taken
    BY <2>1
  <2>3. Branch(st) = Dispatch[CHOOSE i \in taken : \A j \in taken : i <= j]
    BY <1>4, Zenon DEF Branch
  <2> HIDE DEF taken, heads
  <2>4. Branch(st) \in heads
    BY <1>1, <1>2, <2>2, <2>3
  <2> QED
    BY <2>4 DEF heads
<1> QED
  BY <1>3, <1>4

LEMMA BranchMeans ==
  ASSUME NEW st \in Statement
  PROVE  /\ Branch(st) = "createTable" => st.does = "createTable"
         /\ Branch(st) = "partitionOf" => st.does = "createPartition"
         /\ Branch(st) = "alterTable" => st.does \in {"alterTable", "reshapeTable", "renameTable", "nothing"}
         /\ Branch(st) \in {"createIndex", "columnstore", "indexShaped"} => st.does \in {"createIndex", "nothing"}
         /\ Branch(st) = "dropTable" => st.does = "dropTable"
         /\ Branch(st) \in {"partitionScheme", "partitionFunction", "sequence", "view", "routine", "trigger",
                            "dataOrPermission", "sessionScoped", "hashPrefixed", "tableShaped"} =>
              st.does \in {"createTable", "createPartition", "nothing"}
         /\ Branch(st) = "default" =>
              st.does \in {"createTable", "alterTable", "reshapeTable", "renameTable", "createIndex", "dropTable",
                           "dropIndex", "nothing"}
<1>1. st.does \in Means(Branch(st))
  BY MeaningAssumption
<1>2. Branch(st) = "createTable" => st.does = "createTable"
  BY <1>1 DEF Means
<1>3. Branch(st) = "partitionOf" => st.does = "createPartition"
  BY <1>1 DEF Means
<1>4. Branch(st) = "alterTable" => st.does \in {"alterTable", "reshapeTable", "renameTable", "nothing"}
  BY <1>1 DEF Means
<1>5. Branch(st) \in {"createIndex", "columnstore", "indexShaped"} => st.does \in {"createIndex", "nothing"}
  BY <1>1 DEF Means
<1>6. Branch(st) = "dropTable" => st.does = "dropTable"
  BY <1>1 DEF Means
<1>7. Branch(st) = "tableShaped" => st.does \in {"createTable", "createPartition", "nothing"}
  BY <1>1 DEF Means
<1>8. Branch(st) = "default" =>
        st.does \in {"createTable", "alterTable", "reshapeTable", "renameTable", "createIndex", "dropTable",
                     "dropIndex", "nothing"}
  BY <1>1 DEF Means
<1>9. Branch(st) \in {"partitionScheme", "partitionFunction", "sequence", "view", "routine", "trigger",
                     "dataOrPermission", "sessionScoped", "hashPrefixed"} => st.does = "nothing"
  BY <1>1 DEF Means
<1> QED
  BY <1>2, <1>3, <1>4, <1>5, <1>6, <1>7, <1>8, <1>9

LEMMA WhatItSays ==
  ASSUME NEW st \in Statement
  PROVE  /\ st.does = "createTable" => st.name \in Name /\ st.guarded \in BOOLEAN /\ st.items \in Seq(Item)
         /\ st.does = "createPartition" => st.name \in Name /\ st.parent \in Name
         /\ st.does = "alterTable" => st.name \in Name /\ st.parts \in Seq(Part)
         /\ st.does = "reshapeTable" =>
              st.name \in Name /\ st.takes \subseteq Column /\ st.gives \subseteq PlainItem
         /\ st.does = "renameTable" => st.name \in Name /\ st.to \in Name
         /\ st.does = "createIndex" =>
              /\ st.table \in Name /\ st.index \in IndexName \cup {None}
              /\ st.guarded \in BOOLEAN /\ st.unique \in BOOLEAN /\ st.cols \in Seq(Column)
         /\ st.does = "dropTable" => st.names \in Seq(Name)
         /\ st.does = "dropIndex" => st.index \in IndexName
BY MeaningAssumption

LEMMA DeclaresTyped ==
  ASSUME NEW S \in SUBSET PlainItem
  PROVE  Declares(S) \in DBTable
<1>1. ASSUME NEW i \in S, i.kind = "column"
      PROVE  i.name \in Column /\ i.inline \subseteq {"key", "unique"} /\ i.ref \in Name \cup {None}
             /\ <<i.name>> \in Seq(Column)
  BY <1>1, ItemCases DEF ColumnItem
<1>2. ASSUME NEW i \in S, i.kind \in {"primaryKey", "unique", "index"}
      PROVE  i.cols \in Seq(Column)
  BY <1>2, ItemCases DEF KeyItem
<1>3. ASSUME NEW i \in S, i.kind = "foreignKey"
      PROVE  i.cols \in Seq(Column) /\ i.ref \in Name \cup {None}
  BY <1>3, ItemCases DEF ForeignItem
<1>4. Declares(S).cols \subseteq Column
  BY <1>1 DEF Declares, ColumnsIn
<1>5. Declares(S).keys \subseteq Seq(Column)
  BY <1>1, <1>2 DEF Declares, ColumnsIn
<1>6. Declares(S).indexes \subseteq [cols : Seq(Column), unique : BOOLEAN, name : IndexName \cup {None}]
  <2> DEFINE T == [cols : Seq(Column), unique : BOOLEAN, name : IndexName \cup {None}]
  <2>1. ASSUME NEW i \in S, i.kind \in {"unique", "index"}
        PROVE  [cols |-> i.cols, unique |-> i.kind = "unique", name |-> None] \in T
    BY <1>2, <2>1
  <2>2. ASSUME NEW i \in S, i.kind = "column"
        PROVE  [cols |-> <<i.name>>, unique |-> TRUE, name |-> None] \in T
    BY <1>1, <2>2
  <2> HIDE DEF T
  <2>3. Declares(S).indexes \subseteq T
    BY <2>1, <2>2 DEF Declares, ColumnsIn
  <2> QED
    BY <2>3 DEF T
<1>7. Declares(S).foreign \subseteq [cols : Seq(Column), ref : Name \cup {None}]
  <2> DEFINE T == [cols : Seq(Column), ref : Name \cup {None}]
  <2>1. ASSUME NEW i \in S, i.kind = "foreignKey"
        PROVE  [cols |-> i.cols, ref |-> i.ref] \in T
    BY <1>3, <2>1
  <2>2. ASSUME NEW i \in S, i.kind = "column"
        PROVE  [cols |-> <<i.name>>, ref |-> i.ref] \in T
    BY <1>1, <2>2
  <2> HIDE DEF T
  <2>3. Declares(S).foreign \subseteq T
    BY <2>1, <2>2 DEF Declares, ColumnsIn
  <2> QED
    BY <2>3 DEF T
<1>8. Declares(S) = [cols |-> Declares(S).cols, keys |-> Declares(S).keys,
                     indexes |-> Declares(S).indexes, foreign |-> Declares(S).foreign]
  BY DEF Declares
<1> HIDE DEF DBTable
<1> QED
  BY <1>4, <1>5, <1>6, <1>7, <1>8 DEF DBTable

LEMMA RemainingTyped ==
  ASSUME NEW d \in DBTable, NEW parts
  PROVE  /\ Remaining(d, parts) \in DBTable
         /\ Remaining(d, parts).cols = d.cols \ Dropped(parts) /\ Remaining(d, parts).keys \subseteq d.keys
         /\ Remaining(d, parts).indexes \subseteq d.indexes /\ Remaining(d, parts).foreign \subseteq d.foreign
<1> DEFINE e == Unconstrained(d, parts)
           r == Remaining(d, parts)
<1>1. /\ e \in DBTable /\ e.cols = d.cols /\ e.keys \subseteq d.keys
      /\ e.indexes \subseteq d.indexes /\ e.foreign \subseteq d.foreign
  BY DEF Unconstrained, DBTable
<1>2. r = Without(e, Dropped(parts))
  BY DEF Remaining
<1> HIDE DEF e, r
<1>3. /\ r \in DBTable /\ r.cols = e.cols \ Dropped(parts) /\ r.keys \subseteq e.keys
      /\ r.indexes \subseteq e.indexes /\ r.foreign \subseteq e.foreign
  BY <1>1, <1>2 DEF Without, DBTable
<1> QED
  BY <1>1, <1>3 DEF r

LEMMA JoinTyped ==
  ASSUME NEW d \in DBTable, NEW e \in DBTable
  PROVE  Join(d, e) \in DBTable
BY DEF Join, DBTable

LEMMA AddedArePlain ==
  ASSUME NEW parts \in Seq(Part), NEW C
  PROVE  AddedItems(C, parts) \subseteq PlainItem
<1>1. ASSUME NEW i \in DOMAIN parts, IsAdd(parts[i])
      PROVE  parts[i].item \in PlainItem
  <2>1. parts[i] \in Part
    OBVIOUS
  <2> QED
    BY <1>1, <2>1 DEF Part, AddPart, DropPart, RestPart, IsAdd
<1> QED
  BY <1>1 DEF AddedItems, Effective

LEMMA AlteredTyped ==
  ASSUME NEW d \in DBTable, NEW parts \in Seq(Part)
  PROVE  Altered(d, parts) \in DBTable
BY RemainingTyped, JoinTyped, DeclaresTyped, AddedArePlain DEF Altered

Databases == [Name -> DBTable \cup {None}]
NewIndex(st) == [cols |-> st.cols, unique |-> st.unique, name |-> st.index]

LEMMA CreateExecuted ==
  ASSUME NEW st \in Statement, db \in Databases, Accepts(st), st.does = "createTable"
  PROVE  /\ Execute(st) \in Databases
         /\ \A n \in Name : Execute(st)[n] = IF n = st.name /\ db[n] = None THEN Declares(Flat(st.items)) ELSE db[n]
         /\ db[st.name] = None \/ st.guarded
         /\ OneKey(st.items)
<1>1. st.name \in Name /\ st.items \in Seq(Item)
  BY WhatItSays
<1>2. Declares(Flat(st.items)) \in DBTable
  BY <1>1, FlatIsPlain, DeclaresTyped
<1>3. Execute(st) = IF db[st.name] # None THEN db ELSE [db EXCEPT ![st.name] = Declares(Flat(st.items))]
  BY DEF Execute
<1>4. (db[st.name] = None \/ st.guarded) /\ OneKey(st.items)
  BY DEF Accepts
<1> QED
  BY <1>1, <1>2, <1>3, <1>4 DEF Databases

LEMMA PartitionExecuted ==
  ASSUME NEW st \in Statement, db \in Databases, Accepts(st), st.does = "createPartition"
  PROVE  /\ Execute(st) \in Databases
         /\ \A n \in Name : db[n] # None => Execute(st)[n] = db[n]
<1>1. st.name \in Name /\ st.parent \in Name
  BY WhatItSays
<1>2. Execute(st) = [db EXCEPT ![st.name] = db[st.parent]]
  BY DEF Execute
<1>3. db[st.name] = None
  BY DEF Accepts
<1> QED
  BY <1>1, <1>2, <1>3 DEF Databases

LEMMA AlterExecuted ==
  ASSUME NEW st \in Statement, db \in Databases, Accepts(st), st.does = "alterTable"
  PROVE  /\ Execute(st) \in Databases
         /\ \A n \in Name : Execute(st)[n] = IF n = st.name THEN Altered(db[n], st.parts) ELSE db[n]
         /\ db[st.name] # None /\ AcceptsParts(db[st.name], st.parts)
<1>1. st.name \in Name /\ st.parts \in Seq(Part)
  BY WhatItSays
<1>2. Execute(st) = [db EXCEPT ![st.name] = Altered(db[st.name], st.parts)]
  BY DEF Execute
<1>3. db[st.name] # None /\ AcceptsParts(db[st.name], st.parts)
  BY DEF Accepts
<1>4. Altered(db[st.name], st.parts) \in DBTable
  BY <1>1, <1>3, AlteredTyped DEF Databases
<1> QED
  BY <1>1, <1>2, <1>3, <1>4 DEF Databases

LEMMA ReshapeExecuted ==
  ASSUME NEW st \in Statement, db \in Databases, Accepts(st), st.does = "reshapeTable"
  PROVE  /\ Execute(st) \in Databases
         /\ \A n \in Name \ {st.name} : Execute(st)[n] = db[n]
         /\ db[st.name] # None /\ Execute(st)[st.name] # None
<1> DEFINE t == db[st.name]
           r == Without(t, st.takes)
<1>1. st.name \in Name /\ st.gives \in SUBSET PlainItem
  BY WhatItSays
<1>2. t # None
  BY DEF Accepts
<1>3. t \in DBTable
  BY <1>1, <1>2 DEF Databases
<1>4. r \in DBTable
  BY <1>3 DEF Without, DBTable
<1>5. Reshaped(t, st) \in DBTable
  BY <1>1, <1>4, DeclaresTyped, JoinTyped DEF Reshaped
<1>6. Execute(st) = [db EXCEPT ![st.name] = Reshaped(db[st.name], st)]
  BY DEF Execute
<1> QED
  BY <1>1, <1>2, <1>5, <1>6, NoneAssumption DEF Databases

LEMMA RenameExecuted ==
  ASSUME NEW st \in Statement, db \in Databases, Accepts(st), st.does = "renameTable"
  PROVE  /\ Execute(st) \in Databases
         /\ \A n \in Name \ {st.name, st.to} : Execute(st)[n] = db[n]
<1>1. st.name \in Name /\ st.to \in Name
  BY WhatItSays
<1>2. Execute(st) = [db EXCEPT ![st.to] = db[st.name], ![st.name] = None]
  BY DEF Execute
<1> QED
  BY <1>1, <1>2 DEF Databases

LEMMA IndexExecuted ==
  ASSUME NEW st \in Statement, db \in Databases, Accepts(st), st.does = "createIndex"
  PROVE  /\ Execute(st) \in Databases
         /\ \A n \in Name \ {st.table} : Execute(st)[n] = db[n]
         /\ db[st.table] # None
         /\ IF Fresh(st) THEN Execute(st)[st.table] = WithIndex(db[st.table], NewIndex(st))
            ELSE Execute(st) = db
<1>1. /\ st.table \in Name /\ st.index \in IndexName \cup {None}
      /\ st.unique \in BOOLEAN /\ st.cols \in Seq(Column)
  BY WhatItSays
<1>2. db[st.table] # None
  BY DEF Accepts
<1>3. db[st.table] \in DBTable
  BY <1>1, <1>2 DEF Databases
<1>4. NewIndex(st) \in [cols : Seq(Column), unique : BOOLEAN, name : IndexName \cup {None}]
  BY <1>1 DEF NewIndex
<1>5. WithIndex(db[st.table], NewIndex(st)) \in DBTable
  BY <1>3, <1>4 DEF WithIndex, DBTable
<1>6. CASE Fresh(st)
  <2>1. Execute(st) = [db EXCEPT ![st.table] = WithIndex(db[st.table], NewIndex(st))]
    BY <1>6 DEF Execute, NewIndex
  <2> QED
    BY <1>1, <1>2, <1>5, <1>6, <2>1 DEF Databases
<1>7. CASE ~Fresh(st)
  <2>1. Execute(st) = db
    BY <1>7 DEF Execute
  <2> QED
    BY <1>2, <1>7, <2>1
<1> QED
  BY <1>6, <1>7

LEMMA DropExecuted ==
  ASSUME NEW st \in Statement, db \in Databases, Accepts(st), st.does = "dropTable"
  PROVE  /\ Execute(st) \in Databases
         /\ \A n \in Name : (\A i \in DOMAIN st.names : st.names[i] # n) => Execute(st)[n] = db[n]
<1>1. Execute(st) = [n \in Name |-> IF \E i \in DOMAIN st.names : st.names[i] = n THEN None ELSE db[n]]
  BY DEF Execute
<1> QED
  BY <1>1 DEF Databases

\* The database has no more of the table than before, but for its indexes the same.
Fewer(d, e) ==
  e # None /\ e.cols = d.cols /\ e.keys = d.keys /\ e.foreign = d.foreign /\ e.indexes \subseteq d.indexes

LEMMA DropIndexExecuted ==
  ASSUME NEW st \in Statement, db \in Databases, Accepts(st), st.does = "dropIndex"
  PROVE  /\ Execute(st) \in Databases
         /\ \A n \in Name : db[n] # None => Fewer(db[n], Execute(st)[n])
<1> DEFINE cut(d) == [d EXCEPT !.indexes = {x \in @ : x.name # st.index}]
<1>1. Execute(st) = [n \in Name |-> IF db[n] = None THEN None ELSE cut(db[n])]
  BY DEF Execute
<1>2. ASSUME NEW n \in Name, db[n] # None
      PROVE  cut(db[n]) \in DBTable /\ Fewer(db[n], cut(db[n]))
  <2>1. db[n] \in DBTable
    BY <1>2 DEF Databases
  <2>2. {x \in db[n].indexes : x.name # st.index} \subseteq
          [cols : Seq(Column), unique : BOOLEAN, name : IndexName \cup {None}]
    BY <2>1 DEF DBTable
  <2>3. cut(db[n]) \in DBTable /\ cut(db[n]).cols = db[n].cols /\ cut(db[n]).keys = db[n].keys
        /\ cut(db[n]).foreign = db[n].foreign /\ cut(db[n]).indexes \subseteq db[n].indexes
    BY <2>1, <2>2 DEF DBTable
  <2> HIDE DEF cut
  <2> QED
    BY <2>3, NoneAssumption DEF Fewer
<1> HIDE DEF cut
<1> QED
  BY <1>1, <1>2 DEF Databases

LEMMA NothingExecuted ==
  ASSUME NEW st \in Statement, st.does = "nothing"
  PROVE  Execute(st) = db
BY DEF Execute

LEMMA ExecutedTyped ==
  ASSUME NEW st \in Statement, db \in Databases, Accepts(st)
  PROVE  Execute(st) \in Databases
<1>1. st.does \in {"createTable", "createPartition", "alterTable", "reshapeTable", "renameTable", "createIndex", "dropTable",
                  "dropIndex", "nothing"}
  <2>1. \/ Branch(st) \in {"createTable", "partitionOf", "alterTable", "createIndex", "columnstore",
                           "indexShaped", "dropTable", "default"}
        \/ Branch(st) \in {"partitionScheme", "partitionFunction", "sequence", "view", "routine", "trigger",
                           "dataOrPermission", "sessionScoped", "hashPrefixed", "tableShaped"}
    BY BranchKinds
  <2> QED
    BY <2>1, BranchMeans
<1> QED
  BY <1>1, CreateExecuted, PartitionExecuted, AlterExecuted, ReshapeExecuted, RenameExecuted, IndexExecuted, DropExecuted,
     DropIndexExecuted, NothingExecuted

-----------------------------------------------------------------------------
(* Reading a statement: what holds before, and of the tables it is not about. *)

LEMMA NoWorkFollows ==
  ASSUME NEW t, NEW d
  PROVE  /\ Follows(NoWork, t, d) <=> Matches(Names(t), {}, t, d)
         /\ Keyed(NoWork, t, d) <=> KeyIs({}, t, d)
<1>1. NoWork.kind = "none"
  BY DEF NoWork
<1>2. Owed(NoWork, t) = {} /\ Staying(NoWork, t) = Names(t) /\ OneKeyLeft(NoWork, t)
  BY <1>1 DEF Owed, Staying, OneKeyLeft
<1> QED
  BY <1>2 DEF Follows, Keyed

LEMMA BodyWorkFollows ==
  ASSUME NEW w, w.kind = "body", NEW t, NEW d
  PROVE  /\ Follows(w, t, d) <=> BodyFollows(w.items, t, d)
         /\ Keyed(w, t, d) <=> BodyKeyed(w.items, t, d)
BY DEF Follows, Keyed, Owed, Staying, OneKeyLeft, BodyFollows, BodyKeyed

LEMMA AlterWorkFollows ==
  ASSUME NEW w, w.kind = "alter", NEW t, NEW d
  PROVE  /\ Follows(w, t, d) <=> PartsFollow(w.items, t, d)
         /\ Keyed(w, t, d) <=> PartsKeyed(w.items, t, d)
BY DEF Follows, Keyed, Owed, Staying, OneKeyLeft, PartsFollow, PartsKeyed

LEMMA FewerFollows ==
  ASSUME NEW C, NEW S, NEW t, NEW d, NEW e, e = d \/ Fewer(d, e)
  PROVE  /\ Matches(C, S, t, d) => Matches(C, S, t, e)
         /\ KeyIs(S, t, d) => KeyIs(S, t, e)
<1>1. Fewer(d, e) => Lookups(e.indexes) \subseteq Lookups(d.indexes)
  BY DEF Fewer, Lookups
<1> QED
  BY <1>1 DEF Fewer, Matches, KeyIs

LEMMA ReadContext ==
  ASSUME SchemaInv, NEW st \in Statement, ReadStatement(st)
  PROVE  /\ work = NoWork /\ Accepts(st) /\ Apply(st)
         /\ db \in Databases /\ db' = Execute(st) /\ db' \in Databases
         /\ tables \in [Name -> Table \cup {None}]
         /\ blind' = blind \cup LosesTrackOf(st) /\ keyless' = keyless \cup LosesKey(st)
         /\ file \in File /\ st.id \in Id /\ \A i \in Nat : At(st, i) \in Position
<1>1. /\ work = NoWork /\ Accepts(st) /\ Apply(st) /\ db' = Execute(st)
      /\ blind' = blind \cup LosesTrackOf(st) /\ keyless' = keyless \cup LosesKey(st)
  BY DEF ReadStatement, Due, Idle
<1>2. tables \in [Name -> Table \cup {None}] /\ db \in Databases /\ file \in File
  BY DEF SchemaInv, TypeOK, Databases
<1>3. db' \in Databases
  BY <1>1, <1>2, ExecutedTyped
<1>4. st.id \in Id
  BY ReducerAssumption
<1>5. \A i \in Nat : At(st, i) \in Position
  BY <1>2, <1>4 DEF At, Position
<1> QED
  BY <1>1, <1>2, <1>3, <1>4, <1>5

LEMMA SeenBefore ==
  ASSUME SchemaInv, work = NoWork, NEW n \in Name \ blind, Seen(n)
  PROVE  /\ tables[n] \in Table /\ db[n] # None /\ db[n] \in DBTable
         /\ Matches(Names(tables[n]), {}, tables[n], db[n])
         /\ n \notin keyless => KeyIs({}, tables[n], db[n])
<1>1. tables[n] \in Table
  BY DEF SchemaInv, TypeOK, Seen
<1>2. WorkOf(n) = NoWork
  BY DEF WorkOf
<1>3. db[n] # None /\ Follows(NoWork, tables[n], db[n])
  BY <1>2 DEF SchemaInv, MatchInv, Tracked
<1>4. n \notin keyless => Keyed(NoWork, tables[n], db[n])
  BY <1>2 DEF SchemaInv, KeyInv, KeyTracked
<1>5. db[n] \in DBTable
  BY <1>3 DEF SchemaInv, TypeOK
<1> QED
  BY <1>1, <1>3, <1>4, <1>5, NoWorkFollows

Tame(st, n) ==
  \/ st.does \in {"createTable", "createPartition", "dropIndex", "nothing", "reshapeTable", "renameTable"}
  \/ st.does = "createIndex" /\ (n # st.table \/ ~Fresh(st))
  \/ st.does = "alterTable" /\ n # st.name
  \/ st.does = "dropTable" /\ n # Head(st.names)
  \/ Branch(st) = "default"

\* A statement no head matches leaves the tables it is not about, but for their indexes, as they were.
LEMMA DefaultSpares ==
  ASSUME NEW st \in Statement, Branch(st) = "default", db \in Databases, Accepts(st),
         NEW n \in Name \ Targets(st), db[n] # None \/ st.does # "dropIndex"
  PROVE  Execute(st)[n] = db[n] \/ Fewer(db[n], Execute(st)[n])
<1>1. CASE st.does = "createTable"
  BY <1>1, CreateExecuted DEF Targets
<1>2. CASE st.does = "alterTable"
  BY <1>2, AlterExecuted DEF Targets
<1>3. CASE st.does = "renameTable"
  <2>1. n \notin {st.name, st.to}
    BY <1>3 DEF Targets
  <2> QED
    BY <1>3, <2>1, RenameExecuted
<1>4. CASE st.does = "createIndex"
  <2>1. n # st.table
    BY <1>4 DEF Targets
  <2> QED
    BY <1>4, <2>1, IndexExecuted
<1>5. CASE st.does = "dropTable"
  <2>1. \A i \in DOMAIN st.names : st.names[i] # n
    BY <1>5 DEF Targets
  <2> QED
    BY <1>5, <2>1, DropExecuted
<1>6. CASE st.does = "dropIndex"
  BY <1>6, DropIndexExecuted
<1>7. CASE st.does = "nothing"
  BY <1>7, NothingExecuted
<1>8. CASE st.does = "reshapeTable"
  BY <1>8, ReshapeExecuted DEF Targets
<1> QED
  BY <1>1, <1>2, <1>3, <1>4, <1>5, <1>6, <1>7, <1>8, BranchMeans

LEMMA Spared ==
  ASSUME SchemaInv, NEW st \in Statement, ReadStatement(st), NEW n \in Name \ blind', Seen(n), Tame(st, n)
  PROVE  db'[n] = db[n] \/ Fewer(db[n], db'[n])
<1>1. /\ work = NoWork /\ Accepts(st) /\ db \in Databases /\ db' = Execute(st)
      /\ blind' = blind \cup LosesTrackOf(st)
  BY ReadContext
<1>2. n \notin blind /\ db[n] # None
  BY <1>1, SeenBefore
<1>3. CASE st.does = "createTable"
  BY <1>1, <1>2, <1>3, CreateExecuted
<1>4. CASE st.does = "createPartition"
  BY <1>1, <1>2, <1>4, PartitionExecuted
<1>5. CASE st.does = "dropIndex"
  BY <1>1, <1>2, <1>5, DropIndexExecuted
<1>6. CASE st.does = "nothing"
  BY <1>1, <1>6, NothingExecuted
<1>11. CASE Branch(st) = "default"
  <2>1. n \notin Targets(st)
    BY <1>1, <1>11 DEF LosesTrackOf
  <2> QED
    BY <1>1, <1>2, <1>11, <2>1, DefaultSpares
<1>7. CASE st.does = "renameTable"
  <2>1. LosesTrackOf(st) = {st.name, st.to}
    BY <1>7 DEF LosesTrackOf, Targets
  <2> QED
    BY <1>1, <1>7, <2>1, RenameExecuted
<1>8. CASE st.does = "createIndex" /\ (n # st.table \/ ~Fresh(st))
  BY <1>1, <1>8, IndexExecuted
<1>9. CASE st.does = "alterTable" /\ n # st.name
  BY <1>1, <1>9, AlterExecuted
<1>10. CASE Branch(st) # "default" /\ st.does = "dropTable" /\ n # Head(st.names)
  <2>1. LosesTrackOf(st) = {st.names[i] : i \in DOMAIN st.names \ {1}}
    BY <1>10 DEF LosesTrackOf
  <2>2. st.names \in Seq(Name)
    BY <1>10, WhatItSays
  <2>3. \A i \in DOMAIN st.names : st.names[i] # n
    <3>1. ASSUME NEW i \in DOMAIN st.names, i # 1
          PROVE  st.names[i] # n
      BY <1>1, <2>1, <3>1
    <3>2. 1 \in DOMAIN st.names => st.names[1] # n
      BY <1>10, <2>2
    <3> QED
      BY <3>1, <3>2
  <2> QED
    BY <1>1, <1>10, <2>3, DropExecuted
<1>12. CASE st.does = "reshapeTable"
  <2>1. LosesTrackOf(st) = {st.name}
    BY <1>12 DEF LosesTrackOf, Targets
  <2> QED
    BY <1>1, <1>12, <2>1, ReshapeExecuted
<1> QED
  BY <1>3, <1>4, <1>5, <1>6, <1>7, <1>8, <1>9, <1>10, <1>11, <1>12 DEF Tame

\* Of a table the statement leaves alone codefit is right as before.
LEMMA Untouched ==
  ASSUME SchemaInv, NEW st \in Statement, ReadStatement(st), NEW n \in Name,
         tables'[n] = tables[n], WorkOf(n)' = NoWork,
         Seen(n) /\ n \notin blind' => Tame(st, n)
  PROVE  /\ n \notin blind' => Tracked(n)'
         /\ n \notin blind' \cup keyless' => KeyTracked(n)'
<1>1. /\ work = NoWork /\ db' \in Databases
      /\ blind' = blind \cup LosesTrackOf(st) /\ keyless' = keyless \cup LosesKey(st)
  BY ReadContext
<1>2. Seen(n)' = Seen(n)
  BY DEF Seen
<1>3. SUFFICES ASSUME n \notin blind', Seen(n)
               PROVE  /\ db'[n] # None /\ Follows(NoWork, tables[n], db'[n])
                      /\ n \notin keyless' => Keyed(NoWork, tables[n], db'[n])
  BY <1>2 DEF Tracked, KeyTracked
<1>4. /\ db[n] # None /\ Matches(Names(tables[n]), {}, tables[n], db[n])
      /\ n \notin keyless => KeyIs({}, tables[n], db[n])
  BY <1>1, <1>3, SeenBefore
<1>5. db'[n] = db[n] \/ Fewer(db[n], db'[n])
  BY <1>3, Spared
<1>6. db'[n] # None
  BY <1>4, <1>5 DEF Fewer
<1>7. /\ Matches(Names(tables[n]), {}, tables[n], db'[n])
      /\ n \notin keyless => KeyIs({}, tables[n], db'[n])
  BY <1>4, <1>5, FewerFollows
<1> QED
  BY <1>1, <1>6, <1>7, NoWorkFollows

-----------------------------------------------------------------------------
(* Reading a statement: the tables it is about. *)

\* What a statement says to the reducer.
LEMMA WhatIsRead ==
  ASSUME NEW st \in Statement
  PROVE  /\ Branch(st) = "createTable" =>
              /\ st.name \in Name /\ st.guarded \in BOOLEAN /\ st.balanced \in BOOLEAN
              /\ st.items \in Seq(Item) /\ st.tail \in TailClause
         /\ Branch(st) = "partitionOf" => st.name \in Name /\ st.parent \in Name
         /\ Branch(st) = "alterTable" => st.name \in Name \cup {None} /\ st.parts \in Seq(Part)
         /\ Branch(st) = "createIndex" =>
              /\ st.table \in Name /\ st.unique \in BOOLEAN /\ st.cols \in Seq(Column)
              /\ st.method \in Method
         /\ Branch(st) = "columnstore" => st.table \in Name
         /\ Branch(st) = "dropTable" => st.names \in Seq(Name) \ {<<>>}
         /\ Branch(st) = "indexShaped" => st.table \in Name \cup {None}
BY ReducerAssumption

\* What the steps below keep of the invariant: the rest of it is of other variables.
Kept ==
  /\ tables \in [Name -> Table \cup {None}]
  /\ WorkOK /\ MatchInv /\ KeyInv /\ ReadableInv

LEMMA QuietRead ==
  ASSUME SchemaInv, NEW st \in Statement, ReadStatement(st), UNCHANGED << tables, work >>,
         \A n \in Name : Seen(n) /\ n \notin blind' => Tame(st, n)
  PROVE  Kept'
<1>1. work' = NoWork /\ tables \in [Name -> Table \cup {None}]
  BY ReadContext
<1>2. ASSUME NEW n \in Name
      PROVE  /\ n \notin blind' => Tracked(n)'
             /\ n \notin blind' \cup keyless' => KeyTracked(n)'
  <2>1. WorkOf(n)' = NoWork /\ tables'[n] = tables[n]
    BY <1>1 DEF WorkOf
  <2> QED
    BY <2>1, Untouched
<1>3. MatchInv'
  BY <1>2 DEF MatchInv
<1>4. KeyInv'
  BY <1>2 DEF KeyInv
<1>5. WorkOK'
  BY <1>1 DEF WorkOK, NoWork
<1>6. ReadableInv'
  BY DEF SchemaInv, ReadableInv
<1> QED
  BY <1>1, <1>3, <1>4, <1>5, <1>6 DEF Kept

LEMMA PutRead ==
  ASSUME SchemaInv, NEW st \in Statement, ReadStatement(st),
         NEW m \in Name, NEW t \in Table \cup {None}, tables' = [tables EXCEPT ![m] = t],
         t # None => Readably(t), WorkOK', \A n \in Name \ {m} : WorkOf(n)' = NoWork,
         \A n \in Name \ {m} : Tame(st, n),
         m \notin blind' => Tracked(m)',
         m \notin blind' \cup keyless' => KeyTracked(m)'
  PROVE  Kept'
<1>1. tables \in [Name -> Table \cup {None}]
  BY ReadContext
<1>2. tables' \in [Name -> Table \cup {None}] /\ tables'[m] = t /\ \A n \in Name \ {m} : tables'[n] = tables[n]
  BY <1>1
<1>3. ASSUME NEW n \in Name
      PROVE  /\ n \notin blind' => Tracked(n)'
             /\ n \notin blind' \cup keyless' => KeyTracked(n)'
  <2>1. CASE n = m
    BY <2>1
  <2>2. CASE n # m
    <3>1. WorkOf(n)' = NoWork /\ tables'[n] = tables[n] /\ Tame(st, n)
      BY <1>2, <2>2
    <3> QED
      BY <3>1, Untouched
  <2> QED
    BY <2>1, <2>2
<1>4. MatchInv'
  BY <1>3 DEF MatchInv
<1>5. KeyInv'
  BY <1>3 DEF KeyInv
<1>6. ReadableInv'
  BY <1>2 DEF SchemaInv, ReadableInv
<1> QED
  BY <1>2, <1>4, <1>5, <1>6 DEF Kept

\* A statement that leaves its table unproven, or drops it.
LEMMA UnprovenRead ==
  ASSUME SchemaInv, NEW st \in Statement, ReadStatement(st),
         NEW m \in Name, NEW t \in Table \cup {None}, tables' = [tables EXCEPT ![m] = t],
         t # None => Readably(t) /\ ~StructureProven(t),
         work' = work, \A n \in Name \ {m} : Tame(st, n)
  PROVE  Kept'
<1>1. work' = NoWork /\ tables \in [Name -> Table \cup {None}]
  BY ReadContext
<1>2. WorkOK' /\ \A n \in Name \ {m} : WorkOf(n)' = NoWork
  BY <1>1 DEF WorkOK, WorkOf, NoWork
<1>3. ~Seen(m)'
  BY <1>1 DEF Seen
<1>4. Tracked(m)' /\ KeyTracked(m)'
  BY <1>3 DEF Tracked, KeyTracked
<1> QED
  BY <1>2, <1>4, PutRead

LEMMA NewReadably ==
  ASSUME NEW at
  PROVE  /\ Readably(NewTable(at))
         /\ NewTable(at).key = <<>> /\ NewTable(at).foreign = {} /\ NewTable(at).indexes = {}
         /\ Names(NewTable(at)) = {} /\ StructureProven(NewTable(at))
<1>1. /\ NewTable(at).key = <<>> /\ NewTable(at).foreign = {} /\ NewTable(at).indexes = {}
      /\ NewTable(at).cols = {} /\ NewTable(at).unreduced = {}
  BY DEF NewTable
<1>2. Names(NewTable(at)) = {}
  BY <1>1 DEF Names
<1>3. Readably(NewTable(at))
  <2>1. 0 \in Nat
    OBVIOUS
  <2> QED
    BY <1>1, <2>1 DEF Readably
<1> QED
  BY <1>1, <1>2, <1>3 DEF StructureProven

LEMMA SameReadably ==
  ASSUME NEW t, NEW u, Readably(t), u.foreign = t.foreign, u.indexes = t.indexes
  PROVE  Readably(u)
BY DEF Readably

\* A table marked unproven, of one the schema has or of a new one.
LEMMA MarkedReadably ==
  ASSUME NEW t \in Table, Readably(t), NEW at \in Position, NEW reason \in Reason
  PROVE  /\ MarkUnproven(t, reason, at) \in Table
         /\ ~StructureProven(MarkUnproven(t, reason, at))
         /\ Readably(MarkUnproven(t, reason, at))
BY MarkedTyped, SameReadably

LEMMA HeldReadably ==
  ASSUME SchemaInv, NEW m \in Name, tables[m] # None
  PROVE  tables[m] \in Table /\ Readably(tables[m])
BY DEF SchemaInv, TypeOK, ReadableInv

LEMMA MentionedReadably ==
  ASSUME SchemaInv, NEW m \in Name, NEW at \in Position
  PROVE  /\ GetMentioned(m, at) \in Table /\ Readably(GetMentioned(m, at))
         /\ tables[m] = None => ~StructureProven(GetMentioned(m, at))
         /\ tables[m] # None => GetMentioned(m, at) = tables[m]
<1>1. CASE tables[m] = None
  <2>1. "neverDeclared" \in Reason
    BY DEF Reason
  <2>2. GetMentioned(m, at) = MarkUnproven(NewTable(at), "neverDeclared", at)
    BY <1>1 DEF GetMentioned
  <2> QED
    BY <1>1, <2>1, <2>2, NewTableTyped, NewReadably, MarkedReadably
<1>2. CASE tables[m] # None
  BY <1>2, HeldReadably DEF GetMentioned
<1> QED
  BY <1>1, <1>2

\* What a table declares when it is created, before its items are applied.
LEMMA NewFollows ==
  ASSUME NEW at, NEW items
  PROVE  /\ BodyFollows(items, NewTable(at), Declares(Flat(items)))
         /\ OneKey(items) => BodyKeyed(items, NewTable(at), Declares(Flat(items)))
<1>1. NewTable(at).key = <<>> /\ Names(NewTable(at)) = {}
  BY NewReadably
<1>2. Lookups(Declares(Flat(items)).indexes) \subseteq
        Lookups(NewTable(at).indexes) \cup Lookups(Declares(Flat(items)).indexes)
  OBVIOUS
<1>3. BodyFollows(items, NewTable(at), Declares(Flat(items)))
  BY <1>1, <1>2 DEF BodyFollows, Matches
<1>4. OneKey(items) => BodyKeyed(items, NewTable(at), Declares(Flat(items)))
  BY <1>1 DEF BodyKeyed, KeyIs
<1> QED
  BY <1>3, <1>4

LEMMA CreateRead ==
  ASSUME SchemaInv, NEW st \in Statement, ReadStatement(st), CreateTable(st)
  PROVE  Kept'
<1> DEFINE n == st.name
           w == [NoWork EXCEPT !.kind = "body", !.table = st.name, !.items = st.items,
                               !.id = st.id, !.next = 1, !.tail = st.tail]
           t == NewTable(At(st, 0))
           repeated == MarkUnproven(tables[st.name], "unreducedStatement", At(st, 0))
           malformed == MarkUnproven(t, "malformedBody", At(st, 0))
<1>1. /\ work = NoWork /\ Accepts(st) /\ db \in Databases /\ db' = Execute(st)
      /\ blind' = blind \cup LosesTrackOf(st) /\ keyless' = keyless \cup LosesKey(st)
      /\ st.id \in Id /\ At(st, 0) \in Position /\ tables \in [Name -> Table \cup {None}]
  BY ReadContext
<1>2. /\ Branch(st) = "createTable" /\ st.does = "createTable"
      /\ n \in Name /\ st.guarded \in BOOLEAN /\ st.balanced \in BOOLEAN
      /\ st.items \in Seq(Item) /\ st.tail \in TailClause
  BY WhatIsRead, BranchMeans DEF CreateTable
<1>3. \A m \in Name : Tame(st, m)
  BY <1>2 DEF Tame
<1>4. "unreducedStatement" \in Reason /\ "malformedBody" \in Reason
  BY DEF Reason
<1>5. t \in Table /\ Readably(t)
  BY <1>1, NewTableTyped, NewReadably
<1>6. CASE tables[n] # None /\ st.guarded
  <2>1. UNCHANGED << tables, work >>
    BY <1>6 DEF CreateTable
  <2> QED
    BY <1>3, <2>1, QuietRead
<1>7. CASE tables[n] # None /\ ~st.guarded
  <2>1. tables' = [tables EXCEPT ![n] = repeated] /\ work' = work
    BY <1>7 DEF CreateTable, Put
  <2>2. repeated \in Table /\ ~StructureProven(repeated) /\ Readably(repeated)
    BY <1>1, <1>2, <1>4, <1>7, HeldReadably, MarkedReadably
  <2> HIDE DEF repeated
  <2> QED
    BY <1>2, <1>3, <2>1, <2>2, UnprovenRead
<1>8. CASE tables[n] = None /\ ~st.balanced
  <2>1. tables' = [tables EXCEPT ![n] = malformed] /\ work' = work
    BY <1>8 DEF CreateTable, Put
  <2>2. malformed \in Table /\ ~StructureProven(malformed) /\ Readably(malformed)
    BY <1>1, <1>4, <1>5, MarkedReadably
  <2> HIDE DEF malformed
  <2> QED
    BY <1>2, <1>3, <2>1, <2>2, UnprovenRead
<1>9. CASE tables[n] = None /\ st.balanced
  <2>1. tables' = [tables EXCEPT ![n] = t] /\ work' = w
    BY <1>9 DEF CreateTable, Put
  <2>2. /\ w.kind = "body" /\ w.table = n /\ w.items = st.items /\ w \in BodyWork
    BY <1>1, <1>2 DEF NoWork, BodyWork
  <2> HIDE DEF w, t
  <2>3. tables'[n] = t /\ t # None
    BY <1>1, <1>2, <1>5, <2>1, NoneAssumption
  <2>4. WorkOK'
    <3>1. RunTogether(st.items) => n \in LosesTrackOf(st)
      BY <1>2, <1>9 DEF LosesTrackOf
    <3>2. n \notin blind' => ~RunTogether(w.items)
      BY <1>1, <2>2, <3>1
    <3> QED
      BY <2>1, <2>2, <2>3, <3>2 DEF WorkOK
  <2>5. WorkOf(n)' = w /\ \A m \in Name \ {n} : WorkOf(m)' = NoWork
    BY <2>1, <2>2 DEF WorkOf
  <2>6. ASSUME n \notin blind'
        PROVE  db'[n] # None /\ db'[n] = Declares(Flat(st.items))
    <3>1. st.guarded => (db[n] = None)
      <4>1. st.guarded /\ (db[n] # None) => n \in LosesTrackOf(st)
        BY <1>2, <1>9 DEF LosesTrackOf
      <4> QED
        BY <1>1, <2>6, <4>1
    <3>2. db[n] = None
      BY <1>1, <1>2, <3>1, CreateExecuted
    <3>3. db'[n] = Declares(Flat(st.items))
      BY <1>1, <1>2, <3>2, CreateExecuted
    <3>4. Flat(st.items) \in SUBSET PlainItem
      BY <1>2, FlatIsPlain
    <3>5. Declares(Flat(st.items)) # None
      BY <3>4, DeclaresTyped, NoneAssumption
    <3> QED
      BY <3>3, <3>5
  <2>7. BodyFollows(st.items, t, Declares(Flat(st.items))) /\ BodyKeyed(st.items, t, Declares(Flat(st.items)))
    BY <1>1, <1>2, CreateExecuted, NewFollows DEF t
  <2>8. /\ Follows(w, t, Declares(Flat(st.items))) /\ Keyed(w, t, Declares(Flat(st.items)))
    BY <2>2, <2>7, BodyWorkFollows
  <2>9. n \notin blind' => Tracked(n)'
    BY <2>3, <2>5, <2>6, <2>8 DEF Tracked
  <2>10. n \notin blind' \cup keyless' => KeyTracked(n)'
    BY <2>3, <2>5, <2>6, <2>8 DEF KeyTracked
  <2> QED
    BY <1>2, <1>3, <1>5, <2>1, <2>4, <2>5, <2>9, <2>10, PutRead
<1> QED
  BY <1>2, <1>6, <1>7, <1>8, <1>9

LEMMA PartitionRead ==
  ASSUME SchemaInv, NEW st \in Statement, ReadStatement(st), CreatePartitionOf(st)
  PROVE  Kept'
<1> DEFINE p == [declared |-> TRUE, strategy |-> None, of |-> st.parent]
           g == GetTable(st.name, At(st, 0))
           h == [g EXCEPT !.partition = p]
           t == MarkUnproven(h, "partitionChild", At(st, 0))
<1>1. At(st, 0) \in Position
  BY ReadContext
<1>2. st.name \in Name /\ st.parent \in Name /\ st.does = "createPartition"
  BY WhatIsRead, BranchMeans DEF CreatePartitionOf
<1>3. g \in Table /\ Readably(g)
  BY <1>1, <1>2, HeldReadably, NewTableTyped, NewReadably DEF GetTable
<1>4. p \in [declared : BOOLEAN, strategy : Strategy \cup {None}, of : Name \cup {None}]
  BY <1>2
<1>5. tables' = [tables EXCEPT ![st.name] = t] /\ work' = work
  BY DEF CreatePartitionOf, Put, NoLoop
<1> HIDE DEF g, p
<1>6. h \in Table /\ h.foreign = g.foreign /\ h.indexes = g.indexes
  BY <1>3, <1>4 DEF Table
<1> HIDE DEF h
<1>7. "partitionChild" \in Reason
  BY DEF Reason
<1>8. t \in Table /\ ~StructureProven(t) /\ Readably(t)
  BY <1>1, <1>3, <1>6, <1>7, SameReadably, MarkedReadably
<1> HIDE DEF t
<1> QED
  BY <1>2, <1>5, <1>8, UnprovenRead DEF Tame

LEMMA DropRead ==
  ASSUME SchemaInv, NEW st \in Statement, ReadStatement(st), DropTable(st)
  PROVE  Kept'
<1>1. st.names \in Seq(Name) \ {<<>>} /\ st.does = "dropTable"
  BY WhatIsRead, BranchMeans DEF DropTable
<1>2. Head(st.names) \in Name
  BY <1>1
<1>3. tables' = [tables EXCEPT ![Head(st.names)] = None] /\ work' = work
  BY DEF DropTable, Put, NoLoop
<1>4. \A n \in Name \ {Head(st.names)} : Tame(st, n)
  BY <1>1 DEF Tame
<1> QED
  BY <1>2, <1>3, <1>4, UnprovenRead

\* The statements that say nothing of a table to the reducer.
OfNoTable(st) ==
  \/ CreatePartitionScheme(st) \/ CreatePartitionFunction(st) \/ CreateSequence(st) \/ CreateView(st)
  \/ CreateRoutineOrTrigger(st) \/ DataOrPermission(st) \/ SessionScoped(st) \/ TableShaped(st) \/ Skip(st)

LEMMA OtherRead ==
  ASSUME SchemaInv, NEW st \in Statement, ReadStatement(st), OfNoTable(st)
  PROVE  Kept'
<1>1. Branch(st) \in {"partitionScheme", "partitionFunction", "sequence", "view", "routine", "trigger",
                      "dataOrPermission", "sessionScoped", "hashPrefixed", "tableShaped", "default"}
  BY DEF OfNoTable, CreatePartitionScheme, CreatePartitionFunction, CreateSequence, CreateView,
         CreateRoutineOrTrigger, DataOrPermission, SessionScoped, TableShaped, Skip
<1>2. UNCHANGED << tables, work >>
  BY DEF OfNoTable, CreatePartitionScheme, CreatePartitionFunction, CreateSequence, CreateView,
         CreateRoutineOrTrigger, DataOrPermission, SessionScoped, TableShaped, Skip, NoLoop
<1>3. st.does \in {"createTable", "createPartition", "nothing"} \/ Branch(st) = "default"
  BY <1>1, BranchMeans
<1>4. \A n \in Name : Tame(st, n)
  BY <1>3 DEF Tame
<1> QED
  BY <1>2, <1>4, QuietRead

\* What an ALTER TABLE adds follows, and what it drops does.
LEMMA AlterFollows ==
  ASSUME NEW t, NEW d, NEW parts, Matches(Names(t), {}, t, d)
  PROVE  /\ PartsFollow(parts, t, Altered(d, parts))
         /\ KeyIs({}, t, d) /\ AcceptsParts(d, parts) /\ Remaining(d, parts).keys = d.keys =>
              PartsKeyed(parts, t, Altered(d, parts))
<1> DEFINE C == Names(t) \ Dropped(parts)
           rest == Remaining(d, parts)
           S == AddedItems(C, parts)
           e == Altered(d, parts)
<1>1. /\ d.cols = Names(t) /\ (d.keys # {} => t.key # <<>>)
      /\ Lookups(d.indexes) \subseteq Lookups(t.indexes) /\ d.foreign \subseteq References(t.foreign)
  <2>1. Lookups({}) = {}
    BY DEF Lookups
  <2> QED
    BY <2>1, DeclaresNothing DEF Matches
<1>2. /\ rest.cols = C /\ rest.keys \subseteq d.keys
      /\ rest.indexes \subseteq d.indexes /\ rest.foreign \subseteq d.foreign
  BY <1>1 DEF Remaining, Unconstrained, Without
<1>3. e = Join(rest, Declares(S))
  BY <1>2 DEF Altered
<1>4. /\ e.cols = C \cup Declares(S).cols /\ e.keys = rest.keys \cup Declares(S).keys
      /\ e.indexes = rest.indexes \cup Declares(S).indexes /\ e.foreign = rest.foreign \cup Declares(S).foreign
  BY <1>2, <1>3 DEF Join
<1>5. AcceptsParts(d, parts) =>
        OneKeyAdded(C, parts) /\ (rest.keys # {} => \A item \in S : ~GivesKey(item))
  BY <1>2 DEF AcceptsParts
<1> HIDE DEF e, rest, S
<1>6. Lookups(e.indexes) \subseteq Lookups(t.indexes) \cup Lookups(Declares(S).indexes)
  <2>1. Lookups(rest.indexes) \subseteq Lookups(d.indexes)
    BY <1>2 DEF Lookups
  <2> QED
    BY <1>1, <1>4, <2>1, LookupsBoth
<1>7. Matches(C, S, t, e)
  BY <1>1, <1>2, <1>4, <1>6 DEF Matches
<1>8. PartsFollow(parts, t, e)
  BY <1>7 DEF PartsFollow, S
<1>9. ASSUME KeyIs({}, t, d), AcceptsParts(d, parts), rest.keys = d.keys
      PROVE  PartsKeyed(parts, t, e)
  <2>1. KeyIs(S, t, e)
    <3>1. CASE t.key = <<>>
      <4>1. d.keys = {}
        BY <1>9, <3>1, DeclaresNothing DEF KeyIs
      <4> QED
        BY <1>4, <1>9, <3>1, <4>1 DEF KeyIs
    <3>2. CASE t.key # <<>>
      <4>1. d.keys = {t.key}
        BY <1>9, <3>2 DEF KeyIs
      <4>2. \A item \in S : ~GivesKey(item)
        BY <1>5, <1>9, <4>1
      <4>3. e.keys = {t.key}
        BY <1>4, <1>9, <4>1, <4>2, NoKeyGiven
      <4> QED
        BY <3>2, <4>2, <4>3 DEF KeyIs
    <3> QED
      BY <3>1, <3>2
  <2> QED
    BY <1>5, <1>9, <2>1 DEF PartsKeyed, S
<1> QED
  BY <1>8, <1>9 DEF e, rest

LEMMA RestParts ==
  ASSUME NEW parts, \A i \in DOMAIN parts : parts[i] \in RestPart, NEW t, NEW d
  PROVE  /\ ~AddsThenDrops(parts)
         /\ Matches(Names(t), {}, t, d) => PartsFollow(parts, t, d)
         /\ KeyIs({}, t, d) => PartsKeyed(parts, t, d)
<1>1. \A i \in DOMAIN parts : parts[i].verb \in {"skip", "toggle", "rename", "other"}
  BY DEF RestPart
<1>2. ~AddsThenDrops(parts)
  BY <1>1 DEF AddsThenDrops
<1>3. Dropped(parts) = {}
  BY <1>1 DEF Dropped
<1>4. \A C : Effective(C, parts) = {}
  BY <1>1 DEF Effective, IsAdd
<1>5. \A C : AddedItems(C, parts) = {} /\ OneKeyAdded(C, parts)
  BY <1>4 DEF AddedItems, OneKeyAdded
<1>6. Names(t) \ Dropped(parts) = Names(t)
  BY <1>3
<1>7. Matches(Names(t), {}, t, d) => PartsFollow(parts, t, d)
  BY <1>5, <1>6 DEF PartsFollow
<1>8. KeyIs({}, t, d) => PartsKeyed(parts, t, d)
  BY <1>5, <1>6 DEF PartsKeyed
<1> QED
  BY <1>2, <1>7, <1>8

LEMMA AlterRead ==
  ASSUME SchemaInv, NEW st \in Statement, ReadStatement(st), AlterTable(st)
  PROVE  Kept'
<1> DEFINE n == st.name
           w == [NoWork EXCEPT !.kind = "alter", !.table = st.name, !.items = st.parts,
                               !.id = st.id, !.next = 1, !.first = TRUE,
                               !.satisfied = st.parts # <<>>]
           t == GetMentioned(st.name, At(st, 0))
<1>1. /\ work = NoWork /\ Accepts(st) /\ db \in Databases /\ db' = Execute(st)
      /\ blind' = blind \cup LosesTrackOf(st) /\ keyless' = keyless \cup LosesKey(st)
      /\ st.id \in Id /\ At(st, 0) \in Position /\ tables \in [Name -> Table \cup {None}]
  BY ReadContext
<1>2. /\ Branch(st) = "alterTable" /\ st.does \in {"alterTable", "reshapeTable", "renameTable", "nothing"}
      /\ n \in Name \cup {None} /\ st.parts \in Seq(Part)
  BY WhatIsRead, BranchMeans DEF AlterTable
<1>3. st.does \in {"alterTable", "reshapeTable", "renameTable"} => n \in Name
  BY WhatItSays
<1>4. \A m \in Name \ {n} : Tame(st, m)
  BY <1>2 DEF Tame
<1>5. CASE n = None
  <2>1. UNCHANGED << tables, work >>
    BY <1>5 DEF AlterTable
  <2> QED
    BY <1>4, <1>5, <2>1, NoneApart, QuietRead
<1>6. CASE n # None /\ IsKnownNonTable(n)
  <2>1. UNCHANGED << tables, work >>
    BY <1>6 DEF AlterTable
  <2>2. ~Seen(n)
    BY <1>6 DEF IsKnownNonTable, Seen
  <2> QED
    BY <1>4, <2>1, <2>2, QuietRead
<1>7. CASE n # None /\ ~IsKnownNonTable(n)
  <2>1. n \in Name
    BY <1>2, <1>7
  <2>2. tables' = [tables EXCEPT ![n] = t] /\ work' = w
    BY <1>7 DEF AlterTable, Put
  <2>3. /\ t \in Table /\ Readably(t)
        /\ tables[n] = None => ~StructureProven(t)
        /\ tables[n] # None => t = tables[n]
    BY <1>1, <2>1, MentionedReadably
  <2>4. /\ w.kind = "alter" /\ w.table = n /\ w.items = st.parts /\ w \in AlterWork
    <3> DEFINE b == (st.parts # <<>>)
    <3>1. b \in BOOLEAN
      OBVIOUS
    <3> HIDE DEF b
    <3>2. w = [NoWork EXCEPT !.kind = "alter", !.table = st.name, !.items = st.parts,
                             !.id = st.id, !.next = 1, !.first = TRUE, !.satisfied = b]
      BY DEF b
    <3>3. [kind |-> "none"] \in TailClause
      BY DEF TailClause
    <3> QED
      BY <1>1, <1>2, <2>1, <3>1, <3>2, <3>3 DEF NoWork, AlterWork
  <2> HIDE DEF w, t
  <2>5. tables'[n] = t /\ t # None
    BY <1>1, <2>1, <2>2, <2>3, NoneAssumption
  <2>6. WorkOf(n)' = w /\ \A m \in Name \ {n} : WorkOf(m)' = NoWork
    BY <2>2, <2>4 DEF WorkOf
  <2>7. st.does = "nothing" => \A i \in DOMAIN st.parts : st.parts[i] \in RestPart
    BY <1>2, MeaningAssumption
  <2>8. n \notin blind' => st.does \notin {"reshapeTable", "renameTable"}
    <3>1. st.does \in {"reshapeTable", "renameTable"} => n \in LosesTrackOf(st)
      BY <1>2 DEF LosesTrackOf
    <3> QED
      BY <1>1, <3>1
  <2>9. n \notin blind' => ~AddsThenDrops(st.parts)
    <3>1. st.does = "alterTable" /\ AddsThenDrops(st.parts) => n \in LosesTrackOf(st)
      BY <1>2 DEF LosesTrackOf
    <3>2. st.does = "nothing" => ~AddsThenDrops(st.parts)
      BY <2>7, RestParts
    <3> QED
      BY <1>1, <1>2, <2>8, <3>1, <3>2
  <2>10. WorkOK'
    BY <2>2, <2>4, <2>5, <2>9 DEF WorkOK
  <2>11. ASSUME n \notin blind', StructureProven(t)
         PROVE  /\ db'[n] # None /\ PartsFollow(st.parts, t, db'[n])
                /\ n \notin keyless' => PartsKeyed(st.parts, t, db'[n])
    <3>1. t = tables[n] /\ Seen(n) /\ n \notin blind
      BY <1>1, <2>3, <2>11 DEF Seen
    <3>2. /\ db[n] # None /\ db[n] \in DBTable /\ Matches(Names(t), {}, t, db[n])
          /\ n \notin keyless => KeyIs({}, t, db[n])
      BY <1>1, <2>1, <3>1, SeenBefore
    <3>3. CASE st.does = "alterTable"
      <4>1. db'[n] = Altered(db[n], st.parts) /\ AcceptsParts(db[n], st.parts)
        BY <1>1, <2>1, <3>3, AlterExecuted
      <4>2. Altered(db[n], st.parts) # None
        BY <1>2, <3>2, AlteredTyped, NoneAssumption
      <4>3. n \notin keyless' => n \notin keyless /\ Remaining(db[n], st.parts).keys = db[n].keys
        <5>1. n \notin LosesKey(st) => Remaining(db[n], st.parts).keys = db[n].keys
          BY <2>1, <3>3 DEF LosesKey
        <5> QED
          BY <1>1, <5>1
      <4> QED
        BY <3>2, <4>1, <4>2, <4>3, AlterFollows
    <3>4. CASE st.does = "nothing"
      <4>1. db'[n] = db[n]
        BY <1>1, <3>4, NothingExecuted
      <4>2. n \notin keyless' => n \notin keyless
        BY <1>1
      <4> QED
        BY <2>7, <3>2, <3>4, <4>1, <4>2, RestParts
    <3> QED
      BY <1>2, <2>8, <2>11, <3>3, <3>4
  <2>12. ASSUME n \notin blind', StructureProven(t)
         PROVE  /\ db'[n] # None /\ Follows(w, t, db'[n])
                /\ n \notin keyless' => Keyed(w, t, db'[n])
    BY <2>4, <2>11, <2>12, AlterWorkFollows
  <2>13. n \notin blind' => Tracked(n)'
    BY <2>5, <2>6, <2>12 DEF Tracked, Seen
  <2>14. n \notin blind' \cup keyless' => KeyTracked(n)'
    BY <2>5, <2>6, <2>12 DEF KeyTracked, Seen
  <2> QED
    BY <1>4, <2>1, <2>2, <2>3, <2>6, <2>10, <2>13, <2>14, PutRead
<1> QED
  BY <1>5, <1>6, <1>7

LEMMA UnreadIndexRead ==
  ASSUME SchemaInv, NEW st \in Statement, ReadStatement(st), UnreadIndex(st), work' = work,
         st.table \in Name \cup {None}, st.does \in {"createIndex", "nothing"}
  PROVE  Kept'
<1> DEFINE m == st.table
           t == IF tables[m] = None THEN GetMentioned(m, At(st, 0))
                ELSE MarkUnproven(tables[m], "unreducedStatement", At(st, 0))
<1>1. At(st, 0) \in Position
  BY ReadContext
<1>2. \A n \in Name \ {m} : Tame(st, n)
  BY DEF Tame
<1>3. st.does = "createIndex" => m \in Name
  BY WhatItSays
<1>4. CASE m # None /\ ~IsKnownNonTable(m)
  <2>1. tables' = [tables EXCEPT ![m] = t] /\ m \in Name
    BY <1>4 DEF UnreadIndex, Put
  <2>2. "unreducedStatement" \in Reason
    BY DEF Reason
  <2>3. t \in Table /\ Readably(t) /\ ~StructureProven(t)
    BY <1>1, <2>1, <2>2, MentionedReadably, HeldReadably, MarkedReadably
  <2> HIDE DEF t
  <2> QED
    BY <1>2, <2>1, <2>3, UnprovenRead
<1>5. CASE ~(m # None /\ ~IsKnownNonTable(m))
  <2>1. tables' = tables
    BY <1>5 DEF UnreadIndex
  <2>2. \A n \in Name : Seen(n) => Tame(st, n)
    BY <1>2, <1>5, NoneApart DEF IsKnownNonTable, Seen
  <2> QED
    BY <2>1, <2>2, QuietRead
<1> QED
  BY <1>4, <1>5

LEMMA SkippedRead ==
  ASSUME SchemaInv, NEW st \in Statement, ReadStatement(st), Skipped(st), UNCHANGED << tables, work >>,
         st.does \in {"createIndex", "nothing"}
  PROVE  Kept'
<1>1. blind' = blind \cup LosesTrackOf(st)
  BY ReadContext
<1>2. ASSUME Seen(st.table), st.table \notin blind', st.does = "createIndex"
      PROVE  ~Fresh(st)
  <2>1. st.guarded /\ st.index \in seenIndex
    BY <1>2 DEF Skipped, IsKnownNonTable, Seen
  <2>2. Fresh(st) => st.table \in LosesTrackOf(st)
    BY <1>2, <2>1 DEF LosesTrackOf, Targets
  <2> QED
    BY <1>1, <1>2, <2>2
<1>3. \A n \in Name : Seen(n) /\ n \notin blind' => Tame(st, n)
  BY <1>2 DEF Tame
<1> QED
  BY <1>3, QuietRead

\* A table of the schema with one more index, and a table of the database with one the schema has.
LEMMA MoreIndexes ==
  ASSUME NEW t, NEW d, NEW u, NEW x, Matches(Names(t), {}, t, d),
         u.cols = t.cols, u.key = t.key, u.foreign = t.foreign, u.indexes = t.indexes \cup {x}
  PROVE  /\ Matches(Names(u), {}, u, d)
         /\ KeyIs({}, t, d) => KeyIs({}, u, d)
<1>1. Lookups(u.indexes) = Lookups(t.indexes) \cup Lookups({x})
  BY LookupsBoth
<1>2. Names(u) = Names(t)
  BY DEF Names
<1> QED
  BY <1>1, <1>2 DEF Matches, KeyIs

LEMMA IndexFollows ==
  ASSUME NEW u, NEW d, NEW e, NEW x, NEW y, Matches(Names(u), {}, u, d), x \in u.indexes,
         e.cols = d.cols, e.keys = d.keys, e.foreign = d.foreign, e.indexes = d.indexes \cup {y},
         y.cols = x.cols, y.unique = x.unique
  PROVE  /\ Matches(Names(u), {}, u, e)
         /\ KeyIs({}, u, d) => KeyIs({}, u, e)
<1>1. Lookups({y}) \subseteq Lookups(u.indexes)
  BY DEF Lookups
<1>2. Lookups(e.indexes) = Lookups(d.indexes) \cup Lookups({y})
  BY LookupsBoth
<1> QED
  BY <1>1, <1>2 DEF Matches, KeyIs

LEMMA AddIndexRead ==
  ASSUME SchemaInv, NEW st \in Statement, ReadStatement(st), work' = work,
         st.table \in Name, st.does \in {"createIndex", "nothing"},
         NEW cols \in Seq(Column), NEW unique \in BOOLEAN, NEW method \in Method,
         AddIndex(st, cols, unique, method),
         st.does = "createIndex" => st.cols = cols /\ st.unique = unique
  PROVE  Kept'
<1> DEFINE m == st.table
           t == GetMentioned(st.table, At(st, 0))
           x == [cols |-> cols, unique |-> unique, method |-> method, at |-> At(st, 0)]
           u == [t EXCEPT !.indexes = t.indexes \cup {x}]
           y == NewIndex(st)
<1>1. /\ work = NoWork /\ Accepts(st) /\ db \in Databases /\ db' = Execute(st)
      /\ blind' = blind \cup LosesTrackOf(st) /\ keyless' = keyless \cup LosesKey(st)
      /\ At(st, 0) \in Position /\ tables \in [Name -> Table \cup {None}]
  BY ReadContext
<1>2. tables' = [tables EXCEPT ![m] = u]
  BY DEF AddIndex, Put
<1>3. /\ t \in Table /\ Readably(t)
      /\ tables[m] = None => ~StructureProven(t)
      /\ tables[m] # None => t = tables[m]
  BY <1>1, MentionedReadably
<1>4. x \in [cols : Seq(Column), unique : BOOLEAN, method : Method, at : Position]
      /\ x.cols = cols /\ x.unique = unique
  BY <1>1
<1> HIDE DEF t, x
<1>5. /\ u \in Table /\ u.indexes = t.indexes \cup {x} /\ u.foreign = t.foreign /\ u.key = t.key
      /\ u.cols = t.cols /\ u.unreduced = t.unreduced
  BY <1>3, <1>4 DEF Table
<1> HIDE DEF u
<1>6. Readably(u)
  <2>1. PICK bound \in Nat : \A z \in t.indexes : Len(z.cols) <= bound
    BY <1>3 DEF Readably
  <2>2. Len(cols) \in Nat
    OBVIOUS
  <2>3. \A z \in t.indexes : Len(z.cols) \in Nat
    BY <1>3 DEF Table
  <2>4. bound + Len(cols) \in Nat
    BY <2>2
  <2>5. ASSUME NEW z \in u.indexes
        PROVE  Len(z.cols) <= bound + Len(cols)
    <3>1. CASE z \in t.indexes
      BY <2>1, <2>2, <2>3, <3>1
    <3>2. CASE z = x
      BY <1>4, <2>2, <3>2
    <3> QED
      BY <1>5, <3>1, <3>2
  <2> QED
    BY <1>3, <1>5, <2>4, <2>5 DEF Readably
<1>7. tables'[m] = u /\ u # None /\ WorkOf(m)' = NoWork
  BY <1>1, <1>2, <1>5, NoneAssumption DEF WorkOf
<1>8. ASSUME m \notin blind', StructureProven(u)
      PROVE  /\ db'[m] # None /\ Follows(NoWork, u, db'[m])
             /\ m \notin keyless' => Keyed(NoWork, u, db'[m])
  <2>1. t = tables[m] /\ Seen(m) /\ m \notin blind
    BY <1>1, <1>3, <1>5, <1>8 DEF Seen, StructureProven
  <2>2. /\ db[m] # None /\ db[m] \in DBTable /\ Matches(Names(t), {}, t, db[m])
        /\ m \notin keyless => KeyIs({}, t, db[m])
    BY <1>1, <2>1, SeenBefore
  <2>6. /\ Matches(Names(u), {}, u, db[m])
        /\ m \notin keyless => KeyIs({}, u, db[m])
    <3>1. /\ Matches(Names(u), {}, u, db[m])
          /\ KeyIs({}, t, db[m]) => KeyIs({}, u, db[m])
      BY <1>5, <2>2, MoreIndexes
    <3> QED
      BY <2>2, <3>1
  <2>3. CASE db' = db
    BY <1>1, <2>2, <2>3, <2>6, NoWorkFollows
  <2>4. CASE st.does = "createIndex" /\ db'[m] = WithIndex(db[m], y)
    <3>1. /\ WithIndex(db[m], y).cols = db[m].cols /\ WithIndex(db[m], y).keys = db[m].keys
          /\ WithIndex(db[m], y).foreign = db[m].foreign
          /\ WithIndex(db[m], y).indexes = db[m].indexes \cup {y}
      BY <2>2 DEF WithIndex, DBTable
    <3>2. y.cols = x.cols /\ y.unique = x.unique
      BY <1>4, <2>4 DEF NewIndex
    <3>3. WithIndex(db[m], y) # None
      <4>1. y \in [cols : Seq(Column), unique : BOOLEAN, name : IndexName \cup {None}]
        BY <2>4, WhatItSays DEF NewIndex
      <4>2. WithIndex(db[m], y) \in DBTable
        BY <2>2, <4>1 DEF WithIndex, DBTable
      <4> QED
        BY <4>2, NoneAssumption
    <3> DEFINE e == WithIndex(db[m], y)
    <3> HIDE DEF e, y
    <3>5. x \in u.indexes
      BY <1>5
    <3>4. /\ Matches(Names(u), {}, u, e)
          /\ KeyIs({}, u, db[m]) => KeyIs({}, u, e)
      <4>1. /\ e.cols = db[m].cols /\ e.keys = db[m].keys /\ e.foreign = db[m].foreign
            /\ e.indexes = db[m].indexes \cup {y}
        BY <3>1 DEF e
      <4> QED
        BY <2>6, <3>2, <3>5, <4>1, IndexFollows
    <3> QED
      BY <1>1, <2>4, <2>6, <3>3, <3>4, NoWorkFollows DEF e
  <2>5. db' = db \/ (st.does = "createIndex" /\ db'[m] = WithIndex(db[m], y))
    BY <1>1, IndexExecuted, NothingExecuted
  <2> QED
    BY <2>3, <2>4, <2>5
<1>9. m \notin blind' => Tracked(m)'
  BY <1>7, <1>8 DEF Tracked, Seen
<1>10. m \notin blind' \cup keyless' => KeyTracked(m)'
  BY <1>7, <1>8 DEF KeyTracked, Seen
<1>11. WorkOK' /\ \A n \in Name \ {m} : WorkOf(n)' = NoWork
  BY <1>1 DEF WorkOK, WorkOf, NoWork
<1>12. \A n \in Name \ {m} : Tame(st, n)
  BY DEF Tame
<1> QED
  BY <1>2, <1>5, <1>6, <1>9, <1>10, <1>11, <1>12, PutRead

LEMMA IndexRead ==
  ASSUME SchemaInv, NEW st \in Statement, ReadStatement(st),
         CreateIndex(st) \/ CreateColumnstore(st) \/ IndexShaped(st)
  PROVE  Kept'
<1>1. work' = work
  BY DEF CreateIndex, CreateColumnstore, IndexShaped, NoLoop
<1>2. CASE CreateIndex(st)
  <2>1. /\ st.table \in Name /\ st.unique \in BOOLEAN /\ st.cols \in Seq(Column) /\ st.method \in Method
        /\ st.does \in {"createIndex", "nothing"}
    BY <1>2, WhatIsRead, BranchMeans DEF CreateIndex
  <2>2. CASE ~st.captured
    <3>1. UnreadIndex(st)
      BY <1>2, <2>2 DEF CreateIndex
    <3> QED
      BY <1>1, <2>1, <3>1, UnreadIndexRead
  <2>3. CASE st.captured /\ Skipped(st)
    <3>1. UNCHANGED tables
      BY <1>2, <2>3 DEF CreateIndex
    <3> QED
      BY <1>1, <2>1, <2>3, <3>1, SkippedRead
  <2>4. CASE st.captured /\ ~Skipped(st)
    <3>1. AddIndex(st, st.cols, st.unique, st.method)
      BY <1>2, <2>4 DEF CreateIndex
    <3> QED
      BY <1>1, <2>1, <3>1, AddIndexRead
  <2> QED
    BY <2>2, <2>3, <2>4
<1>3. CASE CreateColumnstore(st)
  <2>1. st.table \in Name /\ st.does \in {"createIndex", "nothing"}
    BY <1>3, WhatIsRead, BranchMeans DEF CreateColumnstore
  <2>2. st.does = "createIndex" => st.cols = <<>> /\ st.unique = FALSE
    <3>1. st.does = "createIndex" => st.cols = <<>> /\ ~st.unique /\ st.unique \in BOOLEAN
      BY <1>3, MeaningAssumption DEF CreateColumnstore
    <3> QED
      BY <3>1
  <2>3. CASE Skipped(st)
    <3>1. UNCHANGED tables
      BY <1>3, <2>3 DEF CreateColumnstore
    <3> QED
      BY <1>1, <2>1, <2>3, <3>1, SkippedRead
  <2>4. CASE ~Skipped(st)
    <3>1. AddIndex(st, <<>>, FALSE, "columnstore")
      BY <1>3, <2>4 DEF CreateColumnstore
    <3>2. <<>> \in Seq(Column) /\ FALSE \in BOOLEAN
      OBVIOUS
    <3>3. "columnstore" \in Method
      BY MethodsGiven
    <3> QED
      BY <1>1, <2>1, <2>2, <3>1, <3>2, <3>3, AddIndexRead
  <2> QED
    BY <2>3, <2>4
<1>4. CASE IndexShaped(st)
  <2>1. st.table \in Name \cup {None} /\ st.does \in {"createIndex", "nothing"} /\ UnreadIndex(st)
    BY <1>4, WhatIsRead, BranchMeans DEF IndexShaped
  <2> QED
    BY <1>1, <2>1, UnreadIndexRead
<1> QED
  BY <1>2, <1>3, <1>4

LEMMA StatementKept ==
  ASSUME SchemaInv, NEW st \in Statement, ReadStatement(st)
  PROVE  Kept'
<1>1. Apply(st)
  BY ReadContext
<1> QED
  BY <1>1, CreateRead, PartitionRead, AlterRead, IndexRead, DropRead, OtherRead DEF Apply, OfNoTable

-----------------------------------------------------------------------------
(* The loops. *)

\* Of the table a loop is over, what the step makes of it follows as it did before.
LEMMA LoopPut ==
  ASSUME SchemaInv, UNCHANGED << db, blind, keyless >>, work # NoWork, NEW m, m = work.table,
         NEW u \in Table, Readably(u), tables' = [tables EXCEPT ![m] = u],
         NEW w \in {NoWork} \cup BodyWork \cup AlterWork, work' = w, w # NoWork => w.table = m,
         w.kind = "alter" /\ m \notin blind => ~AddsThenDrops(w.items),
         w.kind = "body" /\ m \notin blind => ~RunTogether(w.items),
         StructureProven(u) /\ m \notin blind => StructureProven(tables[m]),
         StructureProven(u) /\ m \notin blind /\ Follows(work, tables[m], db[m]) => Follows(w, u, db[m]),
         StructureProven(u) /\ m \notin blind /\ Keyed(work, tables[m], db[m]) => Keyed(w, u, db[m])
  PROVE  Kept'
<1>1. /\ m \in Name /\ tables[m] # None /\ tables \in [Name -> Table \cup {None}]
      /\ WorkOf(m) = work /\ NoWork.table = None
  BY DEF SchemaInv, TypeOK, WorkOK, WorkOf, BodyWork, AlterWork, NoWork
<1>2. /\ tables' \in [Name -> Table \cup {None}] /\ tables'[m] = u /\ u # None
      /\ \A n \in Name \ {m} : tables'[n] = tables[n]
  BY <1>1, NoneAssumption
<1>3. WorkOf(m)' = w /\ \A n \in Name \ {m} : WorkOf(n)' = NoWork /\ WorkOf(n) = NoWork
  BY <1>1, NoneApart DEF WorkOf
<1>4. WorkOK'
  BY <1>2 DEF WorkOK, NoWork
<1>5. MatchInv'
  <2>1. SUFFICES ASSUME NEW n \in Name \ blind, Seen(n)'
                 PROVE  db[n] # None /\ Follows(WorkOf(n)', tables'[n], db[n])
    BY DEF MatchInv, Tracked
  <2>2. Tracked(n)
    BY DEF SchemaInv, MatchInv
  <2>3. CASE n = m
    BY <1>1, <1>2, <1>3, <2>1, <2>2, <2>3 DEF Tracked, Seen
  <2>4. CASE n # m
    BY <1>2, <1>3, <2>1, <2>2, <2>4 DEF Tracked, Seen
  <2> QED
    BY <2>3, <2>4
<1>6. KeyInv'
  <2>1. SUFFICES ASSUME NEW n \in Name \ (blind \cup keyless), Seen(n)'
                 PROVE  Keyed(WorkOf(n)', tables'[n], db[n])
    BY DEF KeyInv, KeyTracked
  <2>2. KeyTracked(n)
    BY DEF SchemaInv, KeyInv
  <2>3. CASE n = m
    BY <1>1, <1>2, <1>3, <2>1, <2>2, <2>3 DEF KeyTracked, Seen
  <2>4. CASE n # m
    BY <1>2, <1>3, <2>1, <2>2, <2>4 DEF KeyTracked, Seen
  <2> QED
    BY <2>3, <2>4
<1>7. ReadableInv'
  BY <1>2 DEF SchemaInv, ReadableInv
<1> QED
  BY <1>2, <1>4, <1>5, <1>6, <1>7 DEF Kept

LEMMA MoreReadably ==
  ASSUME NEW t \in Table, Readably(t), NEW u, NEW cols \in Seq(Column),
         \A x \in u.indexes : x \in t.indexes \/ x.cols = cols,
         \A f \in u.foreign : f \in t.foreign \/ f.cols # <<>>
  PROVE  Readably(u)
<1>1. PICK bound \in Nat : \A x \in t.indexes : Len(x.cols) <= bound
  BY DEF Readably
<1>2. Len(cols) \in Nat /\ bound + Len(cols) \in Nat
  OBVIOUS
<1>3. \A x \in t.indexes : Len(x.cols) \in Nat
  BY DEF Table
<1>4. ASSUME NEW x \in u.indexes
      PROVE  Len(x.cols) <= bound + Len(cols)
  <2>1. CASE x \in t.indexes
    BY <1>1, <1>2, <1>3, <2>1
  <2>2. CASE x.cols = cols
    BY <1>2, <2>2
  <2> QED
    BY <2>1, <2>2
<1>5. \A f \in u.foreign : f.cols # <<>>
  BY DEF Readably
<1> QED
  BY <1>2, <1>4, <1>5 DEF Readably

LEMMA ColumnReadably ==
  ASSUME NEW t \in Table, Readably(t), NEW item \in ColumnItem, NEW at
  PROVE  Readably(ApplyColumn(t, item, at))
<1> DEFINE u == ApplyColumn(t, item, at)
           x == [cols |-> <<item.name>>, unique |-> TRUE, method |-> "", at |-> at]
           f == [cols |-> <<item.name>>, ref |-> item.ref, to |-> item.to, at |-> at]
<1>1. x.cols = <<item.name>> /\ f.cols = <<item.name>>
  OBVIOUS
<1>2. item.name \in Column /\ <<item.name>> \in Seq(Column) /\ <<item.name>> # <<>>
  BY DEF ColumnItem
<1>3. /\ u.indexes = IF "unique" \in item.inline THEN t.indexes \cup {x} ELSE t.indexes
      /\ u.foreign = IF item.ref = None THEN t.foreign ELSE t.foreign \cup {f}
  BY DEF ApplyColumn, Table
<1> HIDE DEF u, x, f
<1>4. \A y \in u.indexes : y \in t.indexes \/ y.cols = <<item.name>>
  BY <1>1, <1>3
<1>5. \A g \in u.foreign : g \in t.foreign \/ g.cols # <<>>
  BY <1>1, <1>2, <1>3
<1>6. Readably(u)
  BY <1>2, <1>4, <1>5, MoreReadably
<1> QED
  BY <1>6 DEF u

LEMMA ConstraintReadably ==
  ASSUME NEW t \in Table, Readably(t), NEW item \in PlainItem \ ColumnItem, NEW at
  PROVE  Readably(ApplyConstraint(t, item, at))
<1> DEFINE u == ApplyConstraint(t, item, at)
           un == (item.kind = "unique")
           x == [cols |-> item.cols, unique |-> un, method |-> item.method, at |-> at]
           f == [cols |-> item.cols, ref |-> item.ref, to |-> item.to, at |-> at]
<1>1. \/ item \in KeyItem /\ item.kind \in {"primaryKey", "unique", "index"}
      \/ item \in ForeignItem /\ item.kind = "foreignKey"
      \/ item \in OtherItem /\ item.kind \in {"check", "garbled"}
  BY ItemCases
<1>2. CASE ~Readable(item)
  <2>1. u.foreign = t.foreign /\ u.indexes = t.indexes
    BY <1>2 DEF ApplyConstraint, MarkUnproven, Table
  <2> QED
    BY <2>1, SameReadably
<1>3. CASE Readable(item) /\ item.kind = "primaryKey"
  <2>1. u.foreign = t.foreign /\ u.indexes = t.indexes
    BY <1>3 DEF ApplyConstraint, Table
  <2> QED
    BY <2>1, SameReadably
<1>4. CASE Readable(item) /\ item.kind = "foreignKey"
  <2>1. u = [t EXCEPT !.foreign = t.foreign \cup {f}]
    BY <1>4 DEF ApplyConstraint
  <2>2. f.cols = item.cols /\ item.cols # <<>> /\ item.cols \in Seq(Column)
    BY <1>1, <1>4 DEF Readable, ForeignItem
  <2> HIDE DEF f
  <2>3. u.foreign = t.foreign \cup {f} /\ u.indexes = t.indexes
    BY <2>1 DEF Table
  <2> HIDE DEF u
  <2>4. Readably(u)
    BY <2>2, <2>3, MoreReadably
  <2> QED
    BY <2>4 DEF u
<1>5. CASE Readable(item) /\ item.kind \in {"unique", "index"}
  <2>1. u = [t EXCEPT !.indexes = t.indexes \cup {x}]
    BY <1>5 DEF ApplyConstraint
  <2>2. x.cols = item.cols
    OBVIOUS
  <2>3. item.cols \in Seq(Column)
    BY <1>1, <1>5 DEF KeyItem
  <2> HIDE DEF x
  <2>4. u.indexes = t.indexes \cup {x} /\ u.foreign = t.foreign
    BY <2>1 DEF Table
  <2> HIDE DEF u
  <2>5. Readably(u)
    BY <2>2, <2>3, <2>4, MoreReadably
  <2> QED
    BY <2>5 DEF u
<1>6. CASE Readable(item) /\ item.kind \in {"check", "garbled"}
  <2>1. u = t
    BY <1>6 DEF ApplyConstraint
  <2> QED
    BY <2>1
<1> QED
  BY <1>1, <1>2, <1>3, <1>4, <1>5, <1>6

LEMMA ItemReadably ==
  ASSUME NEW t \in Table, Readably(t), NEW item \in PlainItem, NEW at
  PROVE  Readably(ApplyItem(t, item, at))
<1>1. CASE item.kind = "column"
  <2>1. item \in ColumnItem
    BY <1>1, ItemCases
  <2> QED
    BY <1>1, <2>1, ColumnReadably DEF ApplyItem
<1>2. CASE item.kind # "column"
  <2>1. item \notin ColumnItem
    BY <1>2 DEF ColumnItem
  <2> QED
    BY <1>2, <2>1, ConstraintReadably DEF ApplyItem
<1> QED
  BY <1>1, <1>2

LEMMA BodyReadably ==
  ASSUME NEW t \in Table, Readably(t), NEW item \in Item, NEW at \in Position
  PROVE  Readably(BodyApplied(t, item, at))
<1>1. CASE item.kind = "glued"
  <2>1. item.host \in PlainItem /\ item.rest \in PlainItem
    BY <1>1, PiecesArePlain DEF Pieces
  <2> DEFINE v == ApplyItem(t, item.host, at)
  <2>2. v \in Table /\ Readably(v)
    BY <2>1, ItemApplied, ItemReadably
  <2> HIDE DEF v
  <2>3. Readably(ApplyItem(v, item.rest, at))
    BY <2>1, <2>2, ItemReadably
  <2>4. Readably(ApplyItem(t, Absorbed(item.host, item.rest), at))
    BY <2>1, AbsorbedIsPlain, ItemReadably
  <2> QED
    BY <1>1, <2>3, <2>4 DEF BodyApplied, v
<1>2. CASE item.kind # "glued"
  <2>1. item \in PlainItem
    BY <1>2, PiecesArePlain DEF Pieces
  <2> QED
    BY <1>2, <2>1, ItemReadably DEF BodyApplied
<1> QED
  BY <1>1, <1>2

\* Before a step of a loop.
LEMMA BodyContext ==
  ASSUME SchemaInv, work.kind = "body"
  PROVE  /\ work \in BodyWork /\ work # NoWork /\ work.table \in Name /\ work.items \in Seq(Item)
         /\ Subject \in Table /\ Readably(Subject) /\ Here \in Position
         /\ work.table \notin blind => ~RunTogether(work.items)
<1>1. work \in BodyWork /\ work # NoWork
  BY DEF SchemaInv, WorkOK, NoWork, AlterWork
<1>2. work.table \in Name /\ work.items \in Seq(Item) /\ work.id \in Id /\ work.next \in Nat
  BY <1>1 DEF BodyWork
<1>3. tables[work.table] # None /\ (work.table \notin blind => ~RunTogether(work.items))
  BY <1>1 DEF SchemaInv, WorkOK
<1>4. Here \in Position
  BY <1>2 DEF SchemaInv, TypeOK, Here, Position
<1> QED
  BY <1>1, <1>2, <1>3, <1>4, HeldReadably DEF Subject

LEMMA AlterContext ==
  ASSUME SchemaInv, work.kind = "alter"
  PROVE  /\ work \in AlterWork /\ work # NoWork /\ work.table \in Name /\ work.items \in Seq(Part)
         /\ Subject \in Table /\ Readably(Subject) /\ Here \in Position
         /\ work.table \notin blind => ~AddsThenDrops(work.items)
<1>1. work \in AlterWork /\ work # NoWork
  BY DEF SchemaInv, WorkOK, NoWork, BodyWork
<1>2. work.table \in Name /\ work.items \in Seq(Part) /\ work.id \in Id /\ work.next \in Nat
  BY <1>1 DEF AlterWork
<1>3. tables[work.table] # None /\ (work.table \notin blind => ~AddsThenDrops(work.items))
  BY <1>1 DEF SchemaInv, WorkOK
<1>4. Here \in Position
  BY <1>2 DEF SchemaInv, TypeOK, Here, Position
<1> QED
  BY <1>1, <1>2, <1>3, <1>4, HeldReadably DEF Subject

LEMMA BodyContinued ==
  ASSUME work \in BodyWork, Tail(work.items) \in Seq(Item)
  PROVE  /\ Continue \in BodyWork /\ Continue.kind = "body" /\ Continue.table = work.table
         /\ Continue.items = Tail(work.items)
<1> DEFINE rest == Tail(work.items)
           following == work.next + 1
<1>1. Continue = [work EXCEPT !.items = rest, !.next = following, !.first = FALSE]
  BY DEF Continue
<1>2. rest \in Seq(Item) /\ following \in Nat /\ FALSE \in BOOLEAN
  BY DEF BodyWork
<1> HIDE DEF rest, following
<1>3. Continue \in BodyWork /\ Continue.kind = "body" /\ Continue.table = work.table /\ Continue.items = rest
  BY <1>1, <1>2 DEF BodyWork
<1> QED
  BY <1>3 DEF rest

LEMMA BodyItemKept ==
  ASSUME SchemaInv, BodyItem, UNCHANGED << db, blind, keyless >>
  PROVE  Kept'
<1> DEFINE w == Continue
           u == BodyApplied(Subject, Head(work.items), Here)
<1>1. work.kind = "body" /\ work.items # <<>>
  BY DEF BodyItem, Looping
<1>2. /\ work \in BodyWork /\ work # NoWork /\ work.table \in Name /\ work.items \in Seq(Item)
      /\ Subject \in Table /\ Readably(Subject) /\ Here \in Position
      /\ work.table \notin blind => ~RunTogether(work.items)
  BY <1>1, BodyContext
<1>3. /\ Head(work.items) \in Item /\ Tail(work.items) \in Seq(Item)
      /\ work.table \notin blind => ~RunTogether(Tail(work.items))
  BY <1>1, <1>2, HeadAndTail, RunTogetherTail
<1>4. w \in BodyWork /\ w.kind = "body" /\ w.table = work.table /\ w.items = Tail(work.items)
  BY <1>1, <1>2, <1>3, BodyContinued
<1>5. tables' = [tables EXCEPT ![work.table] = u] /\ work' = w
  BY DEF BodyItem, BodyApplied, Put
<1>9. u \in Table
  BY <1>2, <1>3, BodyTyped
<1>6. /\ work.table \notin blind /\ StructureProven(u) =>
           /\ StructureProven(Subject)
           /\ BodyFollows(work.items, Subject, db[work.table]) => BodyFollows(Tail(work.items), u, db[work.table])
           /\ BodyKeyed(work.items, Subject, db[work.table]) => BodyKeyed(Tail(work.items), u, db[work.table])
  BY <1>1, <1>2, BodyStep
<1>7. Readably(u)
  BY <1>2, <1>3, BodyReadably
<1> HIDE DEF w, u
<1>8. /\ Follows(work, Subject, db[work.table]) <=> BodyFollows(work.items, Subject, db[work.table])
      /\ Keyed(work, Subject, db[work.table]) <=> BodyKeyed(work.items, Subject, db[work.table])
      /\ Follows(w, u, db[work.table]) <=> BodyFollows(Tail(work.items), u, db[work.table])
      /\ Keyed(w, u, db[work.table]) <=> BodyKeyed(Tail(work.items), u, db[work.table])
  BY <1>1, <1>4, BodyWorkFollows
<1> QED
  BY <1>1, <1>2, <1>3, <1>4, <1>5, <1>6, <1>7, <1>8, <1>9, LoopPut DEF Subject

LEMMA LoopEndKept ==
  ASSUME SchemaInv, BodyEnd \/ AlterEnd, UNCHANGED << db, blind, keyless >>
  PROVE  Kept'
<1> DEFINE p == ReadPartitioning(work.tail)
           u == IF work.kind = "body" THEN [Subject EXCEPT !.partition = p] ELSE Subject
           d == db[work.table]
<1>1. work.kind \in {"body", "alter"} /\ work.items = <<>> /\ work' = NoWork
  BY DEF BodyEnd, AlterEnd
<1>2. work # NoWork /\ work.table \in Name /\ Subject \in Table /\ Readably(Subject)
  BY <1>1, BodyContext, AlterContext
<1>3. tables \in [Name -> Table \cup {None}]
  BY DEF SchemaInv, TypeOK
<1>4. /\ u \in Table /\ u.cols = Subject.cols /\ u.key = Subject.key /\ u.indexes = Subject.indexes
      /\ u.foreign = Subject.foreign /\ u.unreduced = Subject.unreduced
  <2>1. CASE work.kind = "body"
    <3>1. work.tail \in TailClause
      BY <2>1, BodyContext DEF BodyWork
    <3>2. p \in [declared : BOOLEAN, strategy : Strategy \cup {None}, of : Name \cup {None}]
      BY <3>1 DEF ReadPartitioning, TailClause, NoPartition, SchemaInv, PartitionsOK
    <3> HIDE DEF p
    <3> QED
      BY <1>2, <2>1, <3>2 DEF Table
  <2>2. CASE work.kind = "alter"
    BY <1>2, <2>2 DEF Table
  <2> QED
    BY <1>1, <2>1, <2>2
<1>5. tables' = [tables EXCEPT ![work.table] = u]
  <2>1. CASE BodyEnd
    BY <2>1 DEF BodyEnd, Put
  <2>2. CASE AlterEnd
    <3>1. tables' = tables /\ work.kind = "alter"
      BY <2>2 DEF AlterEnd
    <3> QED
      BY <1>2, <1>3, <3>1 DEF Subject
  <2> QED
    BY <2>1, <2>2
<1> HIDE DEF u
<1>6. Readably(u) /\ Names(u) = Names(Subject)
  BY <1>2, <1>4, SameReadably DEF Names
<1>7. StructureProven(u) => StructureProven(Subject)
  BY <1>4 DEF StructureProven
<1>8. /\ Follows(work, Subject, d) => Matches(Names(Subject), {}, Subject, d)
      /\ Keyed(work, Subject, d) => KeyIs({}, Subject, d)
  BY <1>1, BodyWorkFollows, AlterWorkFollows, NothingLeft
<1>9. /\ Matches(Names(Subject), {}, Subject, d) => Matches(Names(u), {}, u, d)
      /\ KeyIs({}, Subject, d) => KeyIs({}, u, d)
  BY <1>4, <1>6 DEF Matches, KeyIs
<1>10. /\ Follows(work, Subject, d) => Follows(NoWork, u, d)
       /\ Keyed(work, Subject, d) => Keyed(NoWork, u, d)
  BY <1>8, <1>9, NoWorkFollows
<1>11. NoWork.kind = "none"
  BY DEF NoWork
<1> QED
  BY <1>1, <1>2, <1>4, <1>5, <1>6, <1>7, <1>10, <1>11, LoopPut DEF Subject

LEMMA Continued ==
  ASSUME work \in AlterWork, work.items # <<>>, NEW adding \in BOOLEAN, NEW satisfies \in BOOLEAN
  PROVE  LET w == [Continue EXCEPT !.adding = adding, !.satisfied = satisfies]
         IN  w \in AlterWork /\ w.kind = "alter" /\ w.table = work.table /\ w.items = Tail(work.items)
<1> DEFINE rest == Tail(work.items)
           following == work.next + 1
           w == [work EXCEPT !.items = rest, !.next = following, !.first = FALSE,
                             !.adding = adding, !.satisfied = satisfies]
<1>1. work.items \in Seq(Part)
  BY DEF AlterWork
<1>2. [Continue EXCEPT !.adding = adding, !.satisfied = satisfies] = w
  BY DEF AlterWork, Continue
<1>3. rest \in Seq(Part) /\ following \in Nat /\ FALSE \in BOOLEAN
  BY <1>1, HeadAndTail DEF AlterWork
<1> HIDE DEF rest, following
<1>4. w \in AlterWork /\ w.kind = "alter" /\ w.table = work.table /\ w.items = rest
  BY <1>3 DEF AlterWork
<1> QED
  BY <1>2, <1>4 DEF rest

\* A step over a part of an ALTER TABLE, of the table it makes of the loop's.
LEMMA PartKept ==
  ASSUME SchemaInv, UNCHANGED << db, blind, keyless >>, Looping("alter"),
         NEW u \in Table, Readably(u), tables' = [tables EXCEPT ![work.table] = u],
         NEW adding \in BOOLEAN, NEW satisfies \in BOOLEAN,
         work' = [Continue EXCEPT !.adding = adding, !.satisfied = satisfies],
         StructureProven(u) => StructureProven(Subject),
         StructureProven(u) /\ ~AddsThenDrops(work.items) =>
           /\ PartsFollow(work.items, Subject, db[work.table]) => PartsFollow(Tail(work.items), u, db[work.table])
           /\ PartsKeyed(work.items, Subject, db[work.table]) => PartsKeyed(Tail(work.items), u, db[work.table])
  PROVE  Kept'
<1> DEFINE w == [Continue EXCEPT !.adding = adding, !.satisfied = satisfies]
<1>1. work.kind = "alter" /\ work.items # <<>>
  BY DEF Looping
<1>2. /\ work \in AlterWork /\ work # NoWork /\ work.table \in Name /\ work.items \in Seq(Part)
      /\ work.table \notin blind => ~AddsThenDrops(work.items)
  BY <1>1, AlterContext, SMTT(30)
<1>3. w \in AlterWork /\ w.kind = "alter" /\ w.table = work.table /\ w.items = Tail(work.items)
  BY <1>1, <1>2, Continued
<1>4. work' = w
  OBVIOUS
<1> HIDE DEF w
<1>5. /\ Follows(work, Subject, db[work.table]) <=> PartsFollow(work.items, Subject, db[work.table])
      /\ Keyed(work, Subject, db[work.table]) <=> PartsKeyed(work.items, Subject, db[work.table])
      /\ Follows(w, u, db[work.table]) <=> PartsFollow(Tail(work.items), u, db[work.table])
      /\ Keyed(w, u, db[work.table]) <=> PartsKeyed(Tail(work.items), u, db[work.table])
  BY <1>1, <1>3, AlterWorkFollows
<1>6. work.table \notin blind => ~AddsThenDrops(w.items)
  BY <1>1, <1>2, <1>3, AddsThenDropsTail
<1> QED
  BY <1>2, <1>3, <1>4, <1>5, <1>6, LoopPut DEF Subject

\* Only a part that adds is added.
LEMMA AddsAdd ==
  ASSUME NEW part, Adds(part)
  PROVE  IsAdd(part)
BY DEF Adds, Verb, IsAdd

LEMMA AlterLoopKept ==
  ASSUME SchemaInv, UNCHANGED << db, blind, keyless >>,
         AlterAddExisting \/ AlterAdd \/ AlterDrop \/ AlterSkip \/ AlterUnread
  PROVE  Kept'
<1> DEFINE part == Head(work.items)
           d == db[work.table]
<1>1. Looping("alter") /\ work.kind = "alter" /\ work.items # <<>>
  BY DEF AlterAddExisting, AlterAdd, AlterDrop, AlterSkip, AlterUnread, Looping
<1>2. /\ work \in AlterWork /\ work.table \in Name /\ work.items \in Seq(Part)
      /\ Subject \in Table /\ Readably(Subject) /\ Here \in Position
  BY <1>1, AlterContext
<1>3. part \in Part /\ tables \in [Name -> Table \cup {None}]
  BY <1>1, <1>2, HeadAndTail DEF SchemaInv, TypeOK
<1>4. [tables EXCEPT ![work.table] = Subject] = tables
  BY <1>2, <1>3 DEF Subject
<1>5. work.satisfied \in BOOLEAN
  BY <1>2 DEF AlterWork
<1>6. CASE AlterAddExisting
  <2>1. IsAdd(part) /\ part.item.kind = "column" /\ part.item.name \in Names(Subject)
    BY <1>6, AddsAdd DEF AlterAddExisting, AlreadyThere
  <2>2. work' = [Continue EXCEPT !.adding = TRUE, !.satisfied = work.satisfied]
    BY <1>2, <1>6 DEF AlterAddExisting, Continue, AlterWork
  <2>3. tables' = [tables EXCEPT ![work.table] = Subject]
    BY <1>4, <1>6 DEF AlterAddExisting
  <2>4. ~AddsThenDrops(work.items) =>
          /\ PartsFollow(work.items, Subject, d) => PartsFollow(Tail(work.items), Subject, d)
          /\ PartsKeyed(work.items, Subject, d) => PartsKeyed(Tail(work.items), Subject, d)
    BY <1>1, <1>2, <2>1, ExistingStep
  <2> QED
    BY <1>1, <1>2, <1>5, <2>2, <2>3, <2>4, PartKept
<1>7. CASE AlterAdd
  <2> DEFINE u == ApplyItem(Subject, part.item, Here)
  <2>1. IsAdd(part) /\ ~(part.item.kind = "column" /\ part.item.name \in Names(Subject))
    BY <1>7, AddsAdd DEF AlterAdd, AlreadyThere
  <2>2. part.item \in PlainItem
    BY <1>1, <1>2, <2>1, AddingParts
  <2>3. work' = [Continue EXCEPT !.adding = TRUE, !.satisfied = FALSE]
        /\ tables' = [tables EXCEPT ![work.table] = u]
    BY <1>7 DEF AlterAdd, Put
  <2>4. u \in Table /\ (StructureProven(u) => StructureProven(Subject))
    BY <1>2, <2>2, ItemApplied DEF Became
  <2>5. Readably(u)
    BY <1>2, <2>2, ItemReadably
  <2>6. StructureProven(u) /\ ~AddsThenDrops(work.items) =>
          /\ PartsFollow(work.items, Subject, d) => PartsFollow(Tail(work.items), u, d)
          /\ PartsKeyed(work.items, Subject, d) => PartsKeyed(Tail(work.items), u, d)
    BY <1>1, <1>2, <2>1, AddStep
  <2> HIDE DEF u
  <2> QED
    BY <1>1, <2>3, <2>4, <2>5, <2>6, PartKept
<1>8. CASE AlterDrop
  <2> DEFINE u == DropColumn(Subject, part.column)
  <2>1. part.verb = "drop"
    BY <1>8 DEF AlterDrop
  <2>2. work' = [Continue EXCEPT !.adding = FALSE, !.satisfied = FALSE]
        /\ tables' = [tables EXCEPT ![work.table] = u]
    BY <1>8 DEF AlterDrop, Put
  <2>3. /\ u \in Table /\ (StructureProven(u) => StructureProven(Subject))
        /\ u.indexes = Subject.indexes /\ u.foreign = Subject.foreign
        /\ PartsFollow(work.items, Subject, d) => PartsFollow(Tail(work.items), u, d)
        /\ PartsKeyed(work.items, Subject, d) => PartsKeyed(Tail(work.items), u, d)
    BY <1>1, <1>2, <2>1, DropStep
  <2> HIDE DEF u
  <2>4. Readably(u)
    BY <1>2, <2>3, SameReadably
  <2> QED
    BY <1>1, <2>2, <2>3, <2>4, PartKept
<1>9. CASE AlterSkip
  <2>1. ~IsAdd(part) /\ part.verb # "drop"
    BY <1>9 DEF AlterSkip, IsAdd
  <2>2. work' = [Continue EXCEPT !.adding = FALSE, !.satisfied = FALSE]
        /\ tables' = [tables EXCEPT ![work.table] = Subject]
    BY <1>4, <1>9 DEF AlterSkip
  <2>3. /\ PartsFollow(work.items, Subject, d) => PartsFollow(Tail(work.items), Subject, d)
        /\ PartsKeyed(work.items, Subject, d) => PartsKeyed(Tail(work.items), Subject, d)
    BY <1>1, <1>2, <2>1, SkipStep
  <2> QED
    BY <1>1, <1>2, <2>2, <2>3, PartKept
<1>10. CASE AlterUnread
  <2> DEFINE u == MarkUnproven(Subject, "unreducedStatement", Here)
  <2>1. work' = [Continue EXCEPT !.adding = FALSE, !.satisfied = FALSE]
        /\ tables' = [tables EXCEPT ![work.table] = u]
    BY <1>10 DEF AlterUnread, Put
  <2>2. "unreducedStatement" \in Reason
    BY DEF Reason
  <2>3. u \in Table /\ Readably(u) /\ ~StructureProven(u)
    BY <1>2, <2>2, MarkedReadably
  <2> HIDE DEF u
  <2> QED
    BY <1>1, <2>1, <2>3, PartKept
<1> QED
  BY <1>6, <1>7, <1>8, <1>9, <1>10

LEMMA LoopKept ==
  ASSUME SchemaInv, Loop, UNCHANGED << db, blind, keyless >>
  PROVE  Kept'
BY BodyItemKept, LoopEndKept, AlterLoopKept DEF Loop

-----------------------------------------------------------------------------
(* The rest of the state. *)

\* What the branches of a statement keep of the lists, the census and the partition schemes.
Recorded ==
  /\ nonTable \subseteq Name /\ seenIndex \subseteq IndexName
  /\ elements \subseteq Position /\ unreduced \subseteq Position /\ withheld \subseteq Position
  /\ satisfied \in [File -> Nat] /\ silent \in [File -> Nat]
  /\ PartitionsOK

LEMMA StatementRecorded ==
  ASSUME Recorded, NEW st \in Statement, Apply(st), file \in File, At(st, 0) \in Position
  PROVE  Recorded'
<1>1. /\ Branch(st) \in {"sequence", "view"} => st.name \in Name
      /\ Branch(st) \in {"createIndex", "columnstore"} => st.index \in IndexName \cup {None}
      /\ Branch(st) = "partitionScheme" => st.scheme \in Scheme /\ st.function \in PartitionFunction
      /\ Branch(st) = "partitionFunction" => st.function \in PartitionFunction /\ st.strategy \in Strategy
  BY ReducerAssumption
<1>2. [satisfied EXCEPT ![file] = @ + 1] \in [File -> Nat] /\ [silent EXCEPT ![file] = @ + 1] \in [File -> Nat]
  BY DEF Recorded
<1>3. CASE CreateTable(st)
  BY <1>2, <1>3 DEF Recorded, PartitionsOK, CreateTable, Unpartitioned, Undeclared, Unnamed
<1>4. CASE CreatePartitionOf(st)
  BY <1>4 DEF Recorded, PartitionsOK, CreatePartitionOf, Unaccounted, Unpartitioned, Undeclared, Unnamed
<1>5. CASE CreatePartitionScheme(st)
  BY <1>1, <1>5 DEF Recorded, PartitionsOK, CreatePartitionScheme, Unaccounted, Undeclared, Unnamed
<1>6. CASE CreatePartitionFunction(st)
  BY <1>1, <1>6 DEF Recorded, PartitionsOK, CreatePartitionFunction, Unaccounted, Undeclared, Unnamed
<1>7. CASE CreateSequence(st)
  BY <1>1, <1>7 DEF Recorded, PartitionsOK, CreateSequence, Unaccounted, Unpartitioned, Undeclared
<1>8. CASE CreateView(st)
  BY <1>1, <1>8 DEF Recorded, PartitionsOK, CreateView, Unaccounted, Unpartitioned, Undeclared
<1>9. CASE CreateRoutineOrTrigger(st)
  BY <1>9 DEF Recorded, PartitionsOK, CreateRoutineOrTrigger, Unaccounted, Unpartitioned, Undeclared
<1>10. CASE AlterTable(st)
  BY <1>10 DEF Recorded, PartitionsOK, AlterTable, Unaccounted, Unpartitioned, Unnamed
<1>11. CASE DataOrPermission(st)
  BY <1>2, <1>11 DEF Recorded, PartitionsOK, DataOrPermission, RecordResidual, Unpartitioned, Unnamed
<1>12. CASE CreateIndex(st)
  BY <1>1, <1>12 DEF Recorded, PartitionsOK, CreateIndex, UnreadIndex, Remember, Unaccounted, Unpartitioned
<1>13. CASE CreateColumnstore(st)
  BY <1>1, <1>13 DEF Recorded, PartitionsOK, CreateColumnstore, Remember, Unaccounted, Unpartitioned, Undeclared
<1>14. CASE IndexShaped(st)
  BY <1>14 DEF Recorded, PartitionsOK, IndexShaped, UnreadIndex, Unaccounted, Unpartitioned
<1>15. CASE DropTable(st)
  BY <1>15 DEF Recorded, PartitionsOK, DropTable, Unaccounted, Unpartitioned, Undeclared, Unnamed
<1>16. CASE SessionScoped(st)
  BY <1>16 DEF Recorded, PartitionsOK, SessionScoped, Unaccounted, Unpartitioned, Unnamed
<1>17. CASE TableShaped(st)
  BY <1>17 DEF Recorded, PartitionsOK, TableShaped, Unaccounted, Unpartitioned, Unnamed
<1>18. CASE Skip(st)
  BY <1>18 DEF Recorded, PartitionsOK, Skip, RecordResidual, Unaccounted, Unpartitioned, Unnamed
<1> QED
  BY <1>3, <1>4, <1>5, <1>6, <1>7, <1>8, <1>9, <1>10, <1>11, <1>12, <1>13, <1>14, <1>15, <1>16, <1>17, <1>18
     DEF Apply

LEMMA StatementTaken ==
  ASSUME NEW st \in Statement, Apply(st)
  PROVE  \E runOn \in Id \cup {None} : Take(st, runOn)
<1>1. CASE CreateTable(st)
  <2>1. Branch(st) = "createTable" => st.runOn \in Id \cup {None}
    BY ReducerAssumption
  <2> QED
    BY <1>1, <2>1 DEF CreateTable
<1>2. CASE ~CreateTable(st)
  BY <1>2 DEF Apply, CreatePartitionOf, CreatePartitionScheme, CreatePartitionFunction, CreateSequence,
     CreateView, CreateRoutineOrTrigger, AlterTable, DataOrPermission, CreateIndex, CreateColumnstore,
     IndexShaped, DropTable, SessionScoped, TableShaped, Skip
<1> QED
  BY <1>1, <1>2

\* The tables lost are tables.
LEMMA LostAreTables ==
  ASSUME NEW st \in Statement
  PROVE  LosesTrackOf(st) \subseteq Name /\ LosesKey(st) \subseteq Name
<1>1. LosesTrackOf(st) \subseteq Name
  <2>1. /\ st.does = "renameTable" => st.name \in Name /\ st.to \in Name
        /\ st.does = "dropTable" => \A i \in DOMAIN st.names : st.names[i] \in Name
        /\ st.does \in {"alterTable", "reshapeTable"} => st.name \in Name
        /\ st.does = "createIndex" => st.table \in Name
        /\ st.does = "createTable" => st.name \in Name
    BY WhatItSays
  <2>2. Targets(st) \subseteq Name
    BY <2>1 DEF Targets
  <2>3. Branch(st) = "default" => LosesTrackOf(st) \subseteq Name
    BY <2>2 DEF LosesTrackOf
  <2>4. Branch(st) # "default" => LosesTrackOf(st) \subseteq Name
    BY <2>1 DEF LosesTrackOf
  <2> QED
    BY <2>3, <2>4
<1> QED
  BY <1>1 DEF LosesKey

\* What is left of TypeOK when the tables and the loop are known.
LEMMA TypesOf ==
  ASSUME Kept, Recorded, file \in File, left \subseteq Id, pending \in Id \cup {None}, total \in [File -> Nat],
         db \in Databases, blind \subseteq Name, changed \subseteq File, keyless \subseteq Name
  PROVE  SchemaInv
<1>1. work.kind \in {"none", "body", "alter"} /\ work.table \in Name \cup {None}
  BY DEF Kept, WorkOK, NoWork, BodyWork, AlterWork
<1> QED
  BY <1>1 DEF SchemaInv, TypeOK, Kept, Recorded, Databases

LEMMA TypesAfter ==
  ASSUME Kept', Recorded', file' \in File, left' \subseteq Id, pending' \in Id \cup {None},
         total' \in [File -> Nat], db' \in Databases, blind' \subseteq Name, changed' \subseteq File,
         keyless' \subseteq Name
  PROVE  SchemaInv'
<1>1. work'.kind \in {"none", "body", "alter"} /\ work'.table \in Name \cup {None}
  BY DEF Kept, WorkOK, NoWork, BodyWork, AlterWork
<1> QED
  BY <1>1 DEF SchemaInv, TypeOK, Kept, Recorded, Databases

LEMMA SchemaHolds ==
  ASSUME SchemaInv
  PROVE  /\ Kept /\ Recorded /\ file \in File /\ left \subseteq Id /\ pending \in Id \cup {None}
         /\ total \in [File -> Nat] /\ db \in Databases /\ blind \subseteq Name /\ changed \subseteq File
         /\ keyless \subseteq Name
BY DEF SchemaInv, TypeOK, Kept, Recorded, Databases

LEMMA StatementInvariant ==
  ASSUME SchemaInv, NEW st \in Statement, ReadStatement(st)
  PROVE  SchemaInv'
<1>1. /\ Apply(st) /\ db' \in Databases /\ file \in File /\ At(st, 0) \in Position
      /\ blind' = blind \cup LosesTrackOf(st) /\ keyless' = keyless \cup LosesKey(st)
  BY ReadContext
<1>2. Kept' /\ Recorded'
  BY <1>1, StatementKept, SchemaHolds, StatementRecorded
<1>3. PICK runOn \in Id \cup {None} : Take(st, runOn)
  BY <1>1, StatementTaken
<1>4. file' \in File /\ left' \subseteq Id /\ pending' \in Id \cup {None} /\ total' \in [File -> Nat]
  BY <1>1, <1>3, SchemaHolds DEF Take
<1>5. blind' \subseteq Name /\ keyless' \subseteq Name
  BY <1>1, SchemaHolds, LostAreTables
<1>6. changed' \subseteq File
  BY <1>1, SchemaHolds DEF ReadStatement
<1> QED
  BY <1>1, <1>2, <1>4, <1>5, <1>6, TypesAfter

LEMMA LoopRecorded ==
  ASSUME Recorded, Loop, file \in File
  PROVE  Recorded' /\ UNCHANGED << file, left, pending, total >>
<1>1. InLoop /\ satisfied' \in {satisfied, [satisfied EXCEPT ![file] = @ + 1]}
  BY DEF Loop, BodyItem, BodyEnd, AlterAddExisting, AlterAdd, AlterDrop, AlterSkip, AlterUnread, AlterEnd
<1>2. [satisfied EXCEPT ![file] = @ + 1] \in [File -> Nat]
  BY DEF Recorded
<1> QED
  BY <1>1, <1>2 DEF Recorded, PartitionsOK, InLoop

LEMMA LoopInvariant ==
  ASSUME SchemaInv, Loop, UNCHANGED << db, blind, changed, keyless >>
  PROVE  SchemaInv'
BY LoopKept, LoopRecorded, SchemaHolds, TypesAfter

\* Everything but the source being read.
LEMMA SameInvariant ==
  ASSUME SchemaInv, file' \in File,
         UNCHANGED << left, pending, work, tables, nonTable, seenIndex, elements, unreduced, withheld,
                      total, satisfied, silent, schemeFunction, functionStrategy, db, blind, changed, keyless >>
  PROVE  SchemaInv'
<1>1. Kept'
  BY SchemaHolds DEF Kept, WorkOK, MatchInv, KeyInv, ReadableInv, Tracked, KeyTracked, Seen, WorkOf
<1>2. Recorded'
  BY SchemaHolds DEF Recorded, PartitionsOK
<1> QED
  BY <1>1, <1>2, SchemaHolds, TypesAfter

LEMMA SourcesGiven == Files \in Nat \ {0} /\ \A st \in Statement : st.id \in Id
BY ReducerAssumption

LEMMA InitInvariant ==
  ASSUME DInit
  PROVE  SchemaInv
<1>1. \A n \in Name : tables[n] = None
  BY DEF DInit, Init
<1>2. Kept
  BY <1>1 DEF DInit, Init, Kept, WorkOK, MatchInv, KeyInv, ReadableInv, Tracked, KeyTracked, Seen, NoWork
<1>3. Recorded
  BY DEF DInit, Init, Recorded, PartitionsOK
<1>4. file \in File /\ left \subseteq Id
  BY SourcesGiven DEF DInit, Init, File
<1>5. db \in Databases
  BY BeforeAssumption DEF DInit, Databases
<1> QED
  BY <1>2, <1>3, <1>4, <1>5, TypesOf DEF DInit, Init

LEMMA StepInvariant ==
  ASSUME SchemaInv, [DNext]_allVars
  PROVE  SchemaInv'
<1>1. CASE \E st \in Statement : ReadStatement(st)
  BY <1>1, StatementInvariant
<1>2. CASE Loop /\ UNCHANGED << db, blind, changed, keyless >>
  BY <1>2, LoopInvariant
<1>3. CASE NextFile /\ UNCHANGED << db, blind, changed, keyless >>
  <2>1. file' \in File
    BY <1>3, SourcesGiven, SchemaHolds DEF NextFile, File
  <2> QED
    BY <1>3, <2>1, SameInvariant DEF NextFile
<1>4. CASE UNCHANGED allVars
  BY <1>4, SchemaHolds, SameInvariant DEF allVars, vars
<1> QED
  BY <1>1, <1>2, <1>3, <1>4 DEF DNext

-----------------------------------------------------------------------------
(* The theorems. *)

\* Whatever the sources, the invariant holds of what is read of them: of each table codefit calls
\* proven and has not lost track of (LosesTrackOf), the database has what the schema has, once the
\* items still to be read are.
THEOREM SchemaInvariant == DSpec => []SchemaInv
<1>1. DInit => SchemaInv
  BY InitInvariant
<1>2. SchemaInv /\ [DNext]_allVars => SchemaInv'
  BY StepInvariant
<1> QED
  BY <1>1, <1>2, PTL DEF DSpec

\* Of a proven table the database has what its model says.
LEMMA ProvenFollows ==
  ASSUME SchemaInv, Idle, NEW n \in Name \ blind, tables[n] # None, StructureProven(tables[n])
  PROVE  /\ db[n] # None /\ db[n].cols = Names(tables[n])
         /\ db[n].keys # {} => tables[n].key # <<>>
         /\ Lookups(db[n].indexes) \subseteq Lookups(tables[n].indexes)
         /\ db[n].foreign \subseteq References(tables[n].foreign)
         /\ n \notin keyless => \A k \in db[n].keys : k = tables[n].key /\ k # <<>>
<1>1. Seen(n) /\ work = NoWork
  BY DEF Seen, Idle
<1>2. /\ db[n] # None /\ Matches(Names(tables[n]), {}, tables[n], db[n])
      /\ n \notin keyless => KeyIs({}, tables[n], db[n])
  BY <1>1, SeenBefore
<1>3. Lookups({}) = {}
  BY DEF Lookups
<1> QED
  BY <1>2, <1>3, DeclaresNothing DEF Matches, KeyIs

LEMMA ProvenAreWhole ==
  ASSUME SchemaInv
  PROVE  ProvenIsWhole
<1>1. SUFFICES ASSUME Idle, NEW n \in Name \ blind, tables[n] # None, StructureProven(tables[n])
               PROVE  Whole(n)
  BY DEF ProvenIsWhole
<1>2. /\ Claims(tables[n]).indexes = Lookups(tables[n].indexes)
      /\ Claims(tables[n]).foreign = References(tables[n].foreign)
  BY DEF Claims, Lookups, References
<1> QED
  BY <1>1, <1>2, ProvenFollows DEF Whole, Lookups

\* Table.Complete: a table codefit calls proven has every column, key, index and foreign key the
\* statements gave it, but for the tables a form of LosesTrackOf was said of.
THEOREM ProvenAlwaysWhole == DSpec => []ProvenIsWhole
BY SchemaInvariant, ProvenAreWhole, PTL

-----------------------------------------------------------------------------
(* Prefixes. *)

LEMMA PrefixAt ==
  ASSUME NEW T, NEW s \in Seq(T), NEW u \in Seq(T)
  PROVE  IsPrefix(s, u) <=> Len(s) <= Len(u) /\ \A i \in 1 .. Len(s) : s[i] = u[i]
<1>1. Len(s) \in Nat /\ Len(u) \in Nat
  OBVIOUS
<1>2. SUFFICES ASSUME Len(s) <= Len(u)
               PROVE  SubSeq(s, 1, Len(s)) = SubSeq(u, 1, Len(s)) <=> \A i \in 1 .. Len(s) : s[i] = u[i]
  BY DEF IsPrefix
<1>3. SubSeq(s, 1, Len(s)) = s
  BY SubSeqFull
<1>4. SubSeq(u, 1, Len(s)) = [i \in 1 .. Len(s) |-> u[i]]
  BY <1>1, <1>2
<1>5. s = [i \in 1 .. Len(s) |-> s[i]]
  OBVIOUS
<1> QED
  BY <1>3, <1>4, <1>5

LEMMA PrefixOfItself ==
  ASSUME NEW T, NEW s \in Seq(T)
  PROVE  IsPrefix(s, s)
<1>1. Len(s) \in Nat
  OBVIOUS
<1> QED
  BY <1>1, PrefixAt

LEMMA PrefixTransitive ==
  ASSUME NEW T, NEW s \in Seq(T), NEW u \in Seq(T), NEW v \in Seq(T), IsPrefix(s, u), IsPrefix(u, v)
  PROVE  IsPrefix(s, v)
<1>1. Len(s) \in Nat /\ Len(u) \in Nat /\ Len(v) \in Nat
  OBVIOUS
<1>2. Len(s) <= Len(u) /\ Len(u) <= Len(v)
  BY DEF IsPrefix
<1>3. Len(s) <= Len(v)
  BY <1>1, <1>2
<1>4. ASSUME NEW i \in 1 .. Len(s)
      PROVE  s[i] = v[i]
  <2>1. i \in 1 .. Len(u)
    BY <1>1, <1>2
  <2>2. s[i] = u[i]
    BY PrefixAt
  <2>3. u[i] = v[i]
    BY <2>1, PrefixAt
  <2> QED
    BY <2>2, <2>3
<1> QED
  BY <1>3, <1>4, PrefixAt

LEMMA StrictIsLonger ==
  ASSUME NEW T, NEW s \in Seq(T), NEW u \in Seq(T), IsStrictPrefix(s, u)
  PROVE  IsPrefix(s, u) /\ Len(s) < Len(u)
<1>1. IsPrefix(s, u) /\ s # u
  BY DEF IsStrictPrefix
<1>2. Len(s) \in Nat /\ Len(u) \in Nat /\ Len(s) <= Len(u)
  BY <1>1 DEF IsPrefix
<1>3. ASSUME Len(s) = Len(u)
      PROVE  FALSE
  <2>1. \A i \in 1 .. Len(s) : s[i] = u[i]
    BY <1>1, PrefixAt
  <2>2. s = u
    BY <1>3, <2>1, SeqEqual
  <2> QED
    BY <1>1, <2>2
<1> QED
  BY <1>1, <1>2, <1>3

-----------------------------------------------------------------------------
(* What the rules conclude. *)

\* The schema as the rules read it.
LEMMA SchemaRead ==
  ASSUME NEW n \in DOMAIN Schema
  PROVE  /\ n \in Name /\ tables[n] # None
         /\ Schema[n].cols = Names(tables[n]) /\ Schema[n].key = tables[n].key
         /\ Schema[n].indexes = tables[n].indexes /\ Schema[n].foreign = tables[n].foreign
         /\ Schema[n].proven = StructureProven(tables[n])
BY DEF Schema, View

\* Every lookup the database serves the rules know of.
LEMMA ServedIsKnown ==
  ASSUME SchemaInv, Idle, NEW n \in DOMAIN Schema, n \notin blind \cup keyless, Schema[n].proven
  PROVE  /\ n \in Name /\ tables[n] \in Table /\ db[n] # None /\ db[n] \in DBTable
         /\ IndexesOf(db[n]) \subseteq IndexLike(Schema[n])
         /\ db[n].keys \cup {x.cols : x \in {y \in db[n].indexes : y.unique}} \subseteq UniqueKeys(Schema[n])
<1> DEFINE t == tables[n]
           d == db[n]
           s == Schema[n]
<1>1. /\ n \in Name /\ t # None /\ StructureProven(t)
      /\ s.key = t.key /\ s.indexes = t.indexes
  BY SchemaRead
<1>2. t \in Table /\ d \in DBTable \cup {None}
  BY <1>1, HeldReadably DEF SchemaInv, TypeOK
<1>3. /\ d # None /\ Lookups(d.indexes) \subseteq Lookups(t.indexes)
      /\ \A k \in d.keys : k = t.key /\ k # <<>>
  BY <1>1, ProvenFollows
<1> HIDE DEF t, d, s
<1>4. \A k \in d.keys : k \in {s.key} \ {<<>>}
  BY <1>1, <1>3
<1>5. ASSUME NEW x \in d.indexes
      PROVE  \E z \in t.indexes : z.cols = x.cols /\ z.unique = x.unique
  <2>1. [cols |-> x.cols, unique |-> x.unique] \in Lookups(t.indexes)
    BY <1>3 DEF Lookups
  <2>2. PICK z \in t.indexes : [cols |-> x.cols, unique |-> x.unique] = [cols |-> z.cols, unique |-> z.unique]
    BY <2>1 DEF Lookups
  <2> QED
    BY <2>2
<1>6. IndexesOf(d) \subseteq IndexLike(s)
  BY <1>1, <1>4, <1>5 DEF IndexesOf, IndexLike
<1>7. d.keys \cup {x.cols : x \in {y \in d.indexes : y.unique}} \subseteq UniqueKeys(s)
  <2>1. ASSUME NEW x \in d.indexes, x.unique
        PROVE  x.cols \in {z.cols : z \in {y \in s.indexes : y.unique}}
    <3>1. PICK z \in t.indexes : z.cols = x.cols /\ z.unique = x.unique
      BY <1>5
    <3>2. z \in {y \in s.indexes : y.unique}
      BY <1>1, <2>1, <3>1
    <3> QED
      BY <3>1, <3>2
  <2> QED
    BY <1>4, <2>1 DEF UniqueKeys
<1> QED
  BY <1>1, <1>2, <1>3, <1>6, <1>7 DEF t, d, s

LEMMA IndexesAreLists ==
  ASSUME NEW d \in DBTable
  PROVE  IndexesOf(d) \subseteq Seq(Column)
BY DEF IndexesOf, DBTable

LEMMA NoKeyIsReal ==
  ASSUME SchemaInv, Idle, NEW n \in NoPrimaryKey(Schema) \ blind
  PROVE  db[n] # None /\ db[n].keys = {}
<1>1. n \in DOMAIN Schema /\ Schema[n].key = <<>> /\ Schema[n].proven
  BY DEF NoPrimaryKey
<1>2. n \in Name \ blind /\ tables[n] # None /\ StructureProven(tables[n]) /\ tables[n].key = <<>>
  BY <1>1, SchemaRead
<1> QED
  BY <1>2, ProvenFollows

LEMMA NoTimestampIsReal ==
  ASSUME SchemaInv, Idle, NEW n \in NoTimestamps(Schema) \ blind
  PROVE  \A c \in db[n].cols : c \in AuditStamp => TypeOf[c] \notin {"int", "datetime"}
<1>1. n \in DOMAIN Schema /\ Schema[n].proven /\ \A c \in Schema[n].cols : ~IsAuditTimestamp(c)
  BY DEF NoTimestamps
<1>2. /\ n \in Name \ blind /\ tables[n] # None /\ StructureProven(tables[n])
      /\ Schema[n].cols = Names(tables[n])
  BY <1>1, SchemaRead
<1>3. db[n].cols = Schema[n].cols
  BY <1>2, ProvenFollows
<1> QED
  BY <1>1, <1>3 DEF IsAuditTimestamp

LEMMA ForeignKeyIsUnindexed ==
  ASSUME SchemaInv, Idle, NEW x \in ForeignKeyNoIndex(Schema), x[1] \notin blind \cup keyless
  PROVE  \A cols \in IndexesOf(db[x[1]]) : \E i \in DOMAIN x[2].cols :
           i \notin DOMAIN cols \/ cols[i] # x[2].cols[i]
<1>1. PICK n \in DOMAIN Schema :
        x \in {n} \X {f \in Schema[n].foreign : Schema[n].proven /\ ~CoveredByOrderedPrefix(Schema[n], f.cols)}
  BY DEF ForeignKeyNoIndex
<1>2. PICK f \in Schema[n].foreign : x = <<n, f>> /\ Schema[n].proven /\ ~CoveredByOrderedPrefix(Schema[n], f.cols)
  BY <1>1
<1>3. x[1] = n /\ x[2] = f
  BY <1>2
<1>4. /\ n \in Name /\ tables[n] \in Table /\ db[n] \in DBTable
      /\ IndexesOf(db[n]) \subseteq IndexLike(Schema[n])
  BY <1>2, <1>3, ServedIsKnown
<1>5. f \in tables[n].foreign /\ Readably(tables[n])
  BY <1>2, SchemaRead, HeldReadably
<1>6. f.cols \in Seq(Column) /\ f.cols # <<>>
  BY <1>4, <1>5 DEF Table, Readably
<1>7. ASSUME NEW cols \in IndexesOf(db[n]), \A i \in DOMAIN f.cols : i \in DOMAIN cols /\ cols[i] = f.cols[i]
      PROVE  FALSE
  <2>1. cols \in Seq(Column)
    BY <1>4, <1>7, IndexesAreLists
  <2>2. Len(f.cols) \in Nat /\ Len(cols) \in Nat /\ DOMAIN f.cols = 1 .. Len(f.cols) /\ DOMAIN cols = 1 .. Len(cols)
    BY <1>6, <2>1
  <2>3. Len(f.cols) <= Len(cols)
    <3>1. CASE Len(f.cols) = 0
      BY <2>2, <3>1
    <3>2. CASE Len(f.cols) # 0
      <4>1. Len(f.cols) \in DOMAIN f.cols
        BY <2>2, <3>2
      <4> QED
        BY <1>7, <2>2, <4>1
    <3> QED
      BY <3>1, <3>2
  <2>4. IsPrefix(f.cols, cols)
    BY <1>6, <1>7, <2>1, <2>2, <2>3, PrefixAt
  <2> QED
    BY <1>2, <1>4, <1>6, <1>7, <2>4 DEF CoveredByOrderedPrefix
<1> QED
  BY <1>3, <1>7

LEMMA FiltersAreFinite ==
  ASSUME NEW s, NEW f \in Filter
  PROVE  IsFiniteSet(RealColumns(s, f))
<1>1. IsFiniteSet(f.cols)
  BY RulesAssumption
<1>2. CASE f.model \in DOMAIN s
  <2>1. RealColumns(s, f) \subseteq f.cols
    BY <1>2 DEF RealColumns
  <2> QED
    BY <1>1, <2>1, FS_Subset
<1>3. CASE f.model \notin DOMAIN s
  BY <1>3, FS_EmptySet DEF RealColumns
<1> QED
  BY <1>2, <1>3

\* The elements of a list's first places are not more than the places.
LEMMA FirstPlaces ==
  ASSUME NEW cols \in Seq(Column), NEW k \in Nat, Len(cols) < k
  PROVE  Cardinality({cols[i] : i \in DOMAIN cols \cap 1 .. k}) < k
<1>1. Len(cols) \in Nat /\ DOMAIN cols = 1 .. Len(cols)
  OBVIOUS
<1>2. DOMAIN cols \cap 1 .. k = 1 .. Len(cols)
  BY <1>1
<1> DEFINE T == {cols[i] : i \in 1 .. Len(cols)}
<1>3. cols \in Surjection(1 .. Len(cols), T)
  <2>1. cols = [i \in 1 .. Len(cols) |-> cols[i]]
    OBVIOUS
  <2>2. cols \in [1 .. Len(cols) -> T]
    BY <2>1
  <2> QED
    BY <2>2 DEF Surjection
<1>4. IsFiniteSet(1 .. Len(cols)) /\ Cardinality(1 .. Len(cols)) = Len(cols)
  <2>1. ASSUME NEW m \in Nat
        PROVE  IsFiniteSet(1 .. m) /\ Cardinality(1 .. m) = m
    <3>1. 1 \in Int /\ m \in Int
      OBVIOUS
    <3>2. IsFiniteSet(1 .. m) /\ Cardinality(1 .. m) = IF 1 > m THEN 0 ELSE m - 1 + 1
      BY <3>1, FS_Interval, Zenon
    <3> QED
      BY <3>2
  <2> QED
    BY <1>1, <2>1
<1> HIDE DEF T
<1>5. IsFiniteSet(T) /\ Cardinality(T) <= Len(cols)
  BY <1>3, <1>4, FS_Surjection
<1>6. Cardinality(T) \in Nat
  BY <1>5, FS_CardinalityType
<1>7. Cardinality(T) < k
  BY <1>1, <1>5, <1>6
<1> QED
  BY <1>2, <1>7 DEF T

\* The rules' reason for a question over a filter.
Unanswered(t, S) ==
  /\ S # {} /\ ~CoveredByUniqueSubset(t, S)
  /\ \/ \E c : S = {c} /\ ~CoveredByOrderedPrefix(t, <<c>>)
     \/ ~CoveredBySetPrefix(t, S)

LEMMA FiltersUnanswered ==
  ASSUME NEW x \in FilteredColumnNoIndex(Schema) \cup NoCompositeIndex(Schema)
  PROVE  IsFiniteSet(x[2]) /\ Unanswered(Schema[x[1]], x[2])
<1>1. CASE x \in FilteredColumnNoIndex(Schema)
  <2> DEFINE S(g) == RealColumns(Schema, g)
  <2>1. PICK f \in Filter :
          /\ x = <<f.model, S(f)>> /\ Cardinality(S(f)) = 1
          /\ ~CoveredByUniqueSubset(Schema[f.model], S(f))
          /\ \A c \in S(f) : ~CoveredByOrderedPrefix(Schema[f.model], <<c>>)
    BY <1>1 DEF FilteredColumnNoIndex
  <2>2. x[1] = f.model /\ x[2] = S(f) /\ IsFiniteSet(S(f))
    BY <2>1, FiltersAreFinite
  <2> HIDE DEF S
  <2>3. PICK c : S(f) = {c}
    BY <2>1, <2>2, FS_Singleton
  <2> QED
    BY <2>1, <2>2, <2>3 DEF Unanswered
<1>2. CASE x \in NoCompositeIndex(Schema)
  <2> DEFINE S(g) == RealColumns(Schema, g)
  <2>1. PICK f \in Filter :
          /\ x = <<f.model, S(f)>> /\ Cardinality(S(f)) >= 2
          /\ ~CoveredByUniqueSubset(Schema[f.model], S(f))
          /\ ~CoveredBySetPrefix(Schema[f.model], S(f))
    BY <1>2 DEF NoCompositeIndex
  <2>2. x[1] = f.model /\ x[2] = S(f) /\ IsFiniteSet(S(f))
    BY <2>1, FiltersAreFinite
  <2> HIDE DEF S
  <2>3. S(f) # {}
    BY <2>1, FS_EmptySet
  <2> QED
    BY <2>1, <2>2, <2>3 DEF Unanswered
<1> QED
  BY <1>1, <1>2

LEMMA FilterIsUnserved ==
  ASSUME SchemaInv, Idle, NEW x \in FilteredColumnNoIndex(Schema) \cup NoCompositeIndex(Schema),
         x[1] \in DOMAIN Schema, x[1] \notin blind \cup keyless, Schema[x[1]].proven
  PROVE  Unserved(db[x[1]], x[2])
<1> DEFINE n == x[1]
           S == x[2]
           t == Schema[n]
           k == Cardinality(S)
<1>1. IsFiniteSet(S) /\ Unanswered(t, S)
  BY FiltersUnanswered
<1>2. k \in Nat /\ S # {}
  BY <1>1, FS_CardinalityType DEF Unanswered
<1>3. /\ db[n] \in DBTable /\ IndexesOf(db[n]) \subseteq IndexLike(t)
      /\ db[n].keys \cup {z.cols : z \in {y \in db[n].indexes : y.unique}} \subseteq UniqueKeys(t)
  BY ServedIsKnown
<1> HIDE DEF n, S, t
<1>4. ASSUME NEW cols \in IndexesOf(db[n]), {cols[i] : i \in DOMAIN cols \cap 1 .. k} = S
      PROVE  FALSE
  <2>1. cols \in Seq(Column) /\ cols \in IndexLike(t)
    BY <1>3, <1>4, IndexesAreLists
  <2>2. Len(cols) \in Nat /\ DOMAIN cols = 1 .. Len(cols)
    BY <2>1
  <2>3. Len(cols) >= k
    <3>1. Len(cols) < k => Cardinality(S) < k
      BY <1>2, <1>4, <2>1, FirstPlaces
    <3> QED
      BY <1>2, <2>2, <3>1
  <2>4. DOMAIN cols \cap 1 .. k = 1 .. k
    BY <1>2, <2>2, <2>3
  <2>5. S = {cols[i] : i \in 1 .. k}
    BY <1>4, <2>4
  <2>6. CoveredBySetPrefix(t, S)
    <3>1. SubSeq(cols, 1, k) = [i \in 1 .. k |-> cols[i]]
      BY <1>2, <2>1, <2>3
    <3>2. Elements(SubSeq(cols, 1, k)) = {cols[i] : i \in 1 .. k}
      BY <3>1 DEF Elements
    <3> QED
      BY <1>2, <2>1, <2>3, <2>5, <3>2 DEF CoveredBySetPrefix
  <2>7. ASSUME NEW c, S = {c}
        PROVE  CoveredByOrderedPrefix(t, <<c>>)
    <3>1. k = 1
      BY <2>7, FS_Singleton
    <3>2. cols[1] = c
      BY <2>5, <2>7, <3>1
    <3>3. c \in Column
      BY <2>1, <2>2, <2>3, <3>1, <3>2
    <3>4. <<c>> \in Seq(Column) /\ Len(<<c>>) = 1 /\ <<c>>[1] = c /\ <<c>> # <<>>
      BY <3>3
    <3>5. IsPrefix(<<c>>, cols)
      <4>1. \A i \in 1 .. Len(<<c>>) : <<c>>[i] = cols[i]
        BY <3>2, <3>4
      <4>2. Len(<<c>>) <= Len(cols)
        BY <2>3, <3>1, <3>4
      <4> QED
        BY <2>1, <3>4, <4>1, <4>2, PrefixAt
    <3> QED
      BY <2>1, <3>4, <3>5 DEF CoveredByOrderedPrefix
  <2> QED
    BY <1>1, <2>6, <2>7 DEF Unanswered
<1>5. ASSUME NEW cols \in db[n].keys \cup {z.cols : z \in {y \in db[n].indexes : y.unique}}, cols # <<>>
      PROVE  \E i \in DOMAIN cols : cols[i] \notin S
  <2>1. cols \in UniqueKeys(t)
    BY <1>3, <1>5
  <2>2. ~(Elements(cols) \subseteq S)
    BY <1>1, <1>5, <2>1 DEF Unanswered, CoveredByUniqueSubset
  <2> QED
    BY <2>2 DEF Elements
<1>6. Unserved(db[n], S)
  BY <1>4, <1>5 DEF Unserved
<1> QED
  BY <1>6 DEF n, S

LEMMA AbsencesHold ==
  ASSUME SchemaInv
  PROVE  AbsencesAreReal
BY NoKeyIsReal, ForeignKeyIsUnindexed, NoTimestampIsReal, FilterIsUnserved DEF AbsencesAreReal

\* What DB-001, DB-010, DB-013, DB-050 and DB-052 conclude from an absence they conclude of the
\* database the statements made, but for the tables a form of LosesTrackOf was said of and, where a
\* key serves as an index, those of LosesKey.
THEOREM AbsencesAlwaysReal == DSpec => []AbsencesAreReal
BY SchemaInvariant, AbsencesHold, PTL

-----------------------------------------------------------------------------
(* Redundant indexes. *)

Listed == [cols : Seq(Column), unique : BOOLEAN, method : Method, at : Position]

LEMMA PlacesAreNumbers ==
  ASSUME NEW x \in Listed
  PROVE  x.at[1] \in Nat /\ x.at[2] \in Nat /\ x.at[3] \in Nat
<1>1. x.at \in File \X Id \X Nat
  BY DEF Listed, Position
<1>2. x.at[1] \in 1 .. Files /\ x.at[2] \in Id /\ x.at[3] \in Nat
  BY <1>1 DEF File
<1>3. x.at[2] \in Nat
  BY <1>2, PlaceAssumption
<1>4. x.at[1] \in Nat
  BY <1>2, SourcesGiven
<1> QED
  BY <1>2, <1>3, <1>4

\* Of some indexes one is the first in the text.
LEMMA FirstInTheText ==
  ASSUME NEW S \in SUBSET Listed, S # {}
  PROVE  \E x \in S : \A y \in S : ~Earlier(y, x)
<1> DEFINE A == {x.at[2] : x \in S}
<1>1. A \in SUBSET Nat /\ A # {}
  BY PlacesAreNumbers
<1>2. PICK a \in A : \A b \in A : a <= b
  BY <1>1, LeastOf
<1> DEFINE S2 == {x \in S : x.at[2] = a}
           B == {x.at[1] : x \in S2}
<1>3. B \in SUBSET Nat /\ B # {}
  BY <1>2, PlacesAreNumbers
<1>4. PICK b \in B : \A c \in B : b <= c
  BY <1>3, LeastOf
<1> DEFINE S3 == {x \in S2 : x.at[1] = b}
           C == {x.at[3] : x \in S3}
<1>5. C \in SUBSET Nat /\ C # {}
  BY <1>4, PlacesAreNumbers
<1>6. PICK c \in C : \A d \in C : c <= d
  BY <1>5, LeastOf
<1>7. PICK x \in S3 : x.at[3] = c
  BY <1>6
<1>8. x \in S /\ x.at[2] = a /\ x.at[1] = b /\ x.at[3] = c
  BY <1>7
<1>9. ASSUME NEW y \in S, Earlier(y, x)
      PROVE  FALSE
  <2>1. /\ y.at[1] \in Nat /\ y.at[2] \in Nat /\ y.at[3] \in Nat
        /\ a \in Nat /\ b \in Nat /\ c \in Nat
    BY <1>8, PlacesAreNumbers
  <2>2. a <= y.at[2]
    BY <1>2
  <2>3. y.at[2] = a => b <= y.at[1]
    BY <1>4
  <2>4. y.at[2] = a /\ y.at[1] = b => c <= y.at[3]
    BY <1>6
  <2> QED
    BY <1>8, <1>9, <2>1, <2>2, <2>3, <2>4 DEF Earlier
<1> QED
  BY <1>8, <1>9

\* Of some indexes one is the longest, when none is longer than a bound.
LEMMA LongestOf ==
  ASSUME NEW S \in SUBSET Listed, S # {}, NEW bound \in Nat, \A x \in S : Len(x.cols) <= bound
  PROVE  \E x \in S : \A y \in S : Len(y.cols) <= Len(x.cols)
<1>1. \A x \in S : Len(x.cols) \in Nat
  BY DEF Listed
<1> DEFINE A == {bound - Len(x.cols) : x \in S}
<1>2. A \in SUBSET Nat /\ A # {}
  BY <1>1
<1>3. PICK a \in A : \A b \in A : a <= b
  BY <1>2, LeastOf
<1>4. PICK x \in S : a = bound - Len(x.cols)
  BY <1>3
<1>5. ASSUME NEW y \in S
      PROVE  Len(y.cols) <= Len(x.cols)
  <2>1. bound - Len(x.cols) <= bound - Len(y.cols)
    BY <1>3, <1>4
  <2> QED
    BY <1>1, <2>1
<1> QED
  BY <1>5

\* An index no longer one subsumes has a representative among those kept.
LEMMA RepresentativeKept ==
  ASSUME NEW t, t.indexes \subseteq Listed, NEW y \in t.indexes,
         y.unique \/ (~StrictPrefix(y.cols, t.key) /\ \A w \in t.indexes : ~StrictPrefix(y.cols, w.cols))
  PROVE  \E z \in t.indexes \ (Duplicates(t) \cup Subsumed(t)) : z.cols = y.cols /\ z.unique = y.unique
<1> DEFINE S == {z \in t.indexes : z.cols = y.cols /\ z.unique = y.unique}
<1>1. S \in SUBSET Listed /\ S # {}
  OBVIOUS
<1>2. PICK z \in S : \A w \in S : ~Earlier(w, z)
  BY <1>1, FirstInTheText
<1>3. z \in t.indexes /\ z.cols = y.cols /\ z.unique = y.unique
  BY <1>2
<1>4. z \notin Duplicates(t)
  BY <1>2, <1>3 DEF Duplicates
<1>5. z \notin Subsumed(t)
  BY <1>3 DEF Subsumed
<1> QED
  BY <1>3, <1>4, <1>5

LEMMA LookupsAreKept ==
  ASSUME NEW t, t.indexes \subseteq Listed, t.key \in Seq(Column),
         NEW bound \in Nat, \A y \in t.indexes : Len(y.cols) <= bound,
         NEW x \in t.indexes, x.cols # <<>>
  PROVE  \E c \in {z.cols : z \in t.indexes \ (Duplicates(t) \cup Subsumed(t))} \cup ({t.key} \ {<<>>}) :
           IsPrefix(x.cols, c)
<1> DEFINE S == {y \in t.indexes : IsPrefix(x.cols, y.cols)}
           remaining == t.indexes \ (Duplicates(t) \cup Subsumed(t))
<1>1. \A y \in t.indexes : y.cols \in Seq(Column)
  BY DEF Listed
<1>2. S \in SUBSET Listed /\ x \in S
  BY <1>1, PrefixOfItself
<1>3. PICK y \in S : \A w \in S : Len(w.cols) <= Len(y.cols)
  BY <1>2, LongestOf
<1>4. y \in t.indexes /\ IsPrefix(x.cols, y.cols)
  BY <1>3
<1>5. CASE StrictPrefix(y.cols, t.key)
  <2>1. y.cols # <<>> /\ IsPrefix(y.cols, t.key) /\ y.cols # t.key
    BY <1>5 DEF StrictPrefix, IsStrictPrefix
  <2>2. IsPrefix(x.cols, t.key)
    BY <1>1, <1>4, <2>1, PrefixTransitive
  <2>3. t.key # <<>>
    <3>1. Len(y.cols) < Len(t.key) /\ Len(y.cols) \in Nat
      BY <1>1, <1>4, <1>5, StrictIsLonger DEF StrictPrefix
    <3> QED
      BY <3>1
  <2> QED
    BY <2>2, <2>3
<1>6. CASE ~StrictPrefix(y.cols, t.key)
  <2>1. ASSUME NEW w \in t.indexes, StrictPrefix(y.cols, w.cols)
        PROVE  FALSE
    <3>1. IsPrefix(y.cols, w.cols) /\ Len(y.cols) < Len(w.cols)
      BY <1>1, <1>4, <2>1, StrictIsLonger DEF StrictPrefix
    <3>2. IsPrefix(x.cols, w.cols)
      BY <1>1, <1>4, <3>1, PrefixTransitive
    <3>3. Len(w.cols) <= Len(y.cols) /\ Len(w.cols) \in Nat /\ Len(y.cols) \in Nat
      BY <1>1, <1>3, <1>4, <3>2
    <3> QED
      BY <3>1, <3>3
  <2>2. PICK z \in remaining : z.cols = y.cols
    BY <1>4, <1>6, <2>1, RepresentativeKept
  <2> QED
    BY <1>4, <2>2
<1> QED
  BY <1>5, <1>6

LEMMA RedundantHold ==
  ASSUME SchemaInv
  PROVE  RedundantIndexesAreRedundant
<1>1. SUFFICES ASSUME NEW n \in DOMAIN Schema
               PROVE  LET t == Schema[n]
                          kept == [t EXCEPT !.indexes = @ \ (Duplicates(t) \cup Subsumed(t))]
                      IN  /\ \A x \in t.indexes : x.cols # <<>> => CoveredByOrderedPrefix(kept, x.cols)
                          /\ {x.cols : x \in {y \in t.indexes : y.unique}} =
                               {x.cols : x \in {y \in kept.indexes : y.unique}}
  BY DEF RedundantIndexesAreRedundant
<1> DEFINE t == Schema[n]
           gone == Duplicates(t) \cup Subsumed(t)
           kept == [t EXCEPT !.indexes = @ \ gone]
<1>2. /\ n \in Name /\ tables[n] \in Table /\ Readably(tables[n])
      /\ t.key = tables[n].key /\ t.indexes = tables[n].indexes
  BY SchemaRead, HeldReadably
<1>3. t.indexes \subseteq Listed /\ t.key \in Seq(Column)
  BY <1>2 DEF Table, Listed
<1>4. PICK bound \in Nat : \A x \in t.indexes : Len(x.cols) <= bound
  BY <1>2 DEF Readably
<1>5. kept.indexes = t.indexes \ gone /\ kept.key = t.key
  BY <1>1 DEF Schema, View
<1> HIDE DEF t, kept
<1>6. ASSUME NEW x \in t.indexes, x.cols # <<>>
      PROVE  CoveredByOrderedPrefix(kept, x.cols)
  <2>1. PICK c \in {z.cols : z \in t.indexes \ (Duplicates(t) \cup Subsumed(t))} \cup ({t.key} \ {<<>>}) :
          IsPrefix(x.cols, c)
    BY <1>3, <1>4, <1>6, LookupsAreKept
  <2>2. c \in IndexLike(kept)
    BY <1>5, <2>1 DEF IndexLike
  <2> QED
    BY <1>6, <2>1, <2>2 DEF CoveredByOrderedPrefix
<1>7. ASSUME NEW y \in t.indexes, y.unique
      PROVE  y.cols \in {x.cols : x \in {z \in kept.indexes : z.unique}}
  <2>1. PICK z \in t.indexes \ gone : z.cols = y.cols /\ z.unique = y.unique
    BY <1>3, <1>7, RepresentativeKept
  <2> QED
    BY <1>5, <1>7, <2>1
<1>8. {x.cols : x \in {y \in t.indexes : y.unique}} = {x.cols : x \in {y \in kept.indexes : y.unique}}
  BY <1>5, <1>7
<1> QED
  BY <1>6, <1>8 DEF t, kept

\* Dropping every index DB-011a and DB-011b ask about leaves each lookup and each unique key.
THEOREM RedundantAlwaysRedundant == DSpec => []RedundantIndexesAreRedundant
BY SchemaInvariant, RedundantHold, PTL

-----------------------------------------------------------------------------
(* What the reducer has of a table, proven or not, and what it accounts for.  *)

\* The columns and the keys a database has of a table.
ColumnsOf(d) == IF d = None THEN {} ELSE d.cols
HasKey(d) == d # None /\ d.keys # {}

\* What a loop is still to add: columns, and a key.
ColumnsAdded(parts) ==
  {parts[i].item.name : i \in {j \in DOMAIN parts : IsAdd(parts[j]) /\ parts[j].item.kind = "column"}}
Coming(w) ==
  CASE w.kind = "body" -> Declares(Flat(w.items)).cols
    [] w.kind = "alter" -> ColumnsAdded(w.items)
    [] OTHER -> {}
KeyAdded(C, parts) ==
  \E i \in DOMAIN parts :
    IsAdd(parts[i]) /\ GivesKey(parts[i].item) /\ ~(parts[i].item.kind = "column" /\ parts[i].item.name \in C)
KeyComing(w, t) ==
  CASE w.kind = "body" -> \E item \in Flat(w.items) : GivesKey(item)
    [] w.kind = "alter" -> KeyAdded(Staying(w, t), w.items)
    [] OTHER -> FALSE

Backed(w, t, d) == Staying(w, t) \cup Coming(w) \subseteq ColumnsOf(d)
KeyBacked(w, t, d) == t.key # <<>> \/ KeyComing(w, t) => HasKey(d)

BackedInv == \A n \in Name \ blind : tables[n] # None => Backed(WorkOf(n), tables[n], db[n])
KeyBackedInv ==
  \A n \in Name \ (blind \cup keyless) : tables[n] # None => KeyBacked(WorkOf(n), tables[n], db[n])

\* A table that is not in the schema left a statement there.
TraceInv == \A n \in Name \ (blind \cup Found) : db[n] # None /\ tables[n] = None => unreduced # {}

\* The statements of a source the census accounts for, and the one it may account for yet.
Working(f) == IF f = file /\ work.kind = "alter" THEN 1 ELSE 0
NoDrops(parts) == \A i \in DOMAIN parts : parts[i].verb # "drop"
Idling(w, t) == w.kind = "alter" /\ w.satisfied /\ NoDrops(w.items) /\ Effective(Names(t), w.items) = {}
Owing(f) == IF f = file /\ Idling(work, tables[work.table]) THEN 1 ELSE 0
CensusInv == \A f \in File : Accounted(f) + Working(f) <= total[f]

\* Of a source that changed the database there is a statement the census does not account for.
ChangedInv == blind = {} => \A f \in changed : Accounted(f) + Owing(f) < total[f]

AuditInv == SchemaInv /\ BackedInv /\ KeyBackedInv /\ TraceInv /\ CensusInv /\ ChangedInv

-----------------------------------------------------------------------------
(* What an item gives a table, whether or not the table is still proven. *)

Extended(t, cols, gives, u) ==
  /\ Names(t) \subseteq Names(u) /\ Names(u) \subseteq Names(t) \cup cols
  /\ u.key # <<>> => t.key # <<>> \/ gives

LEMMA MarkedExtended ==
  ASSUME NEW t \in Table, NEW reason, NEW at
  PROVE  Names(MarkUnproven(t, reason, at)) = Names(t) /\ MarkUnproven(t, reason, at).key = t.key
<1>1. MarkUnproven(t, reason, at).cols = t.cols /\ MarkUnproven(t, reason, at).key = t.key
  BY DEF MarkUnproven, Table
<1> QED
  BY <1>1 DEF Names

LEMMA ItemExtended ==
  ASSUME NEW t \in Table, NEW item \in PlainItem, NEW at
  PROVE  Extended(t, Declares({item}).cols, GivesKey(item), ApplyItem(t, item, at))
<1> DEFINE u == ApplyItem(t, item, at)
<1>1. CASE item.kind = "column"
  <2> DEFINE k == IF "key" \in item.inline THEN Append(t.key, item.name) ELSE t.key
             cs == t.cols \cup {[name |-> item.name, at |-> at]}
  <2>1. u = ApplyColumn(t, item, at)
    BY <1>1 DEF ApplyItem
  <2>2. u.cols = cs /\ u.key = k
    BY <2>1 DEF ApplyColumn, Table
  <2>3. Names(u) = Names(t) \cup {item.name}
    <3> HIDE DEF u
    <3> DEFINE r == [name |-> item.name, at |-> at]
    <3>1. r.name = item.name /\ u.cols = t.cols \cup {r}
      BY <2>2
    <3> HIDE DEF r
    <3> QED
      BY <3>1 DEF Names
  <2>4. Declares({item}).cols = {item.name}
    BY <1>1, ItemColumns
  <2>5. "key" \in item.inline => GivesKey(item)
    BY <1>1 DEF GivesKey
  <2>6. u.key # <<>> => t.key # <<>> \/ GivesKey(item)
    BY <2>2, <2>5
  <2> HIDE DEF u
  <2> QED
    BY <2>3, <2>4, <2>6 DEF Extended, u
<1>2. CASE item.kind # "column"
  <2>1. u = ApplyConstraint(t, item, at)
    BY <1>2 DEF ApplyItem
  <2>2. CASE ~Readable(item)
    <3>1. u = MarkUnproven(t, "unreducedStatement", at)
      BY <2>1, <2>2 DEF ApplyConstraint
    <3> QED
      BY <3>1, MarkedExtended DEF Extended
  <2>3. CASE Readable(item)
    <3>1. u.cols = t.cols
      BY <2>1, <2>3 DEF ApplyConstraint, Table
    <3>2. CASE item.kind = "primaryKey"
      <4>1. GivesKey(item)
        BY <3>2 DEF GivesKey
      <4> HIDE DEF u
      <4> QED
        BY <3>1, <4>1 DEF Extended, Names, u
    <3>3. CASE item.kind # "primaryKey"
      <4>1. u.key = t.key
        BY <2>1, <2>3, <3>3 DEF ApplyConstraint, Table
      <4> HIDE DEF u
      <4> QED
        BY <3>1, <4>1 DEF Extended, Names, u
    <3> QED
      BY <3>2, <3>3
  <2> QED
    BY <2>2, <2>3
<1> QED
  BY <1>1, <1>2

LEMMA BodyExtended ==
  ASSUME NEW t \in Table, NEW item \in Item, NEW at \in Position
  PROVE  Extended(t, Declares(Pieces(item)).cols, \E p \in Pieces(item) : GivesKey(p), BodyApplied(t, item, at))
<1>1. CASE item.kind = "glued" /\ Cut(item)
  <2> DEFINE v == ApplyItem(t, item.host, at)
             u == ApplyItem(v, item.rest, at)
  <2>1. item.host \in PlainItem /\ item.rest \in PlainItem /\ Pieces(item) = {item.host} \cup {item.rest}
    BY <1>1, PiecesArePlain DEF Pieces
  <2>2. v \in Table /\ Extended(t, Declares({item.host}).cols, GivesKey(item.host), v)
    BY <2>1, ItemApplied, ItemExtended
  <2>3. BodyApplied(t, item, at) = u
    BY <1>1 DEF BodyApplied
  <2> HIDE DEF v
  <2>4. Extended(v, Declares({item.rest}).cols, GivesKey(item.rest), u)
    BY <2>1, <2>2, ItemExtended
  <2>5. Declares(Pieces(item)).cols = Declares({item.host}).cols \cup Declares({item.rest}).cols
    BY <2>1, DeclaresBoth
  <2> HIDE DEF u
  <2> QED
    BY <2>1, <2>2, <2>3, <2>4, <2>5 DEF Extended
<1>3. CASE item.kind = "glued" /\ ~Cut(item)
  <2> DEFINE a == Absorbed(item.host, item.rest)
             u == ApplyItem(t, a, at)
  <2>1. item.host \in PlainItem /\ item.rest \in PlainItem /\ Pieces(item) = {item.host} \cup {item.rest}
    BY <1>3, PiecesArePlain DEF Pieces
  <2>2. /\ a \in PlainItem /\ a.kind = item.host.kind
        /\ item.host.kind = "column" => a.name = item.host.name
        /\ GivesKey(a) => GivesKey(item.host) \/ GivesKey(item.rest)
    BY <2>1, AbsorbedIsPlain
  <2>3. BodyApplied(t, item, at) = u
    BY <1>3 DEF BodyApplied
  <2> HIDE DEF a
  <2>4. Extended(t, Declares({a}).cols, GivesKey(a), u)
    BY <2>2, ItemExtended
  <2>5. Declares({a}).cols = Declares({item.host}).cols
    <3>1. Declares({item.host}).cols = IF item.host.kind = "column" THEN {item.host.name} ELSE {}
      BY <2>1, ItemColumns
    <3>2. Declares({a}).cols = IF a.kind = "column" THEN {a.name} ELSE {}
      BY <2>2, ItemColumns
    <3> QED
      BY <2>2, <3>1, <3>2
  <2>6. Declares({item.host}).cols \subseteq Declares(Pieces(item)).cols
    BY <2>1, DeclaresBoth
  <2>7. GivesKey(a) => \E p \in Pieces(item) : GivesKey(p)
    BY <2>1, <2>2
  <2> HIDE DEF u
  <2> QED
    BY <2>3, <2>4, <2>5, <2>6, <2>7 DEF Extended
<1>2. CASE item.kind # "glued"
  <2>1. item \in PlainItem /\ Pieces(item) = {item} /\ BodyApplied(t, item, at) = ApplyItem(t, item, at)
    BY <1>2, PiecesArePlain DEF Pieces, BodyApplied
  <2>2. Extended(t, Declares({item}).cols, GivesKey(item), ApplyItem(t, item, at))
    BY <2>1, ItemExtended
  <2> QED
    BY <2>1, <2>2 DEF Extended
<1> QED
  BY <1>1, <1>2, <1>3

\* A loop over the items, after one of them.
LEMMA BodyBacked ==
  ASSUME NEW w, w.kind = "body", w.items \in Seq(Item), w.items # <<>>,
         NEW v, v.kind = "body", v.items = Tail(w.items),
         NEW t \in Table, NEW at \in Position, NEW d
  PROVE  LET u == BodyApplied(t, Head(w.items), at)
         IN  /\ Backed(w, t, d) => Backed(v, u, d)
             /\ KeyBacked(w, t, d) => KeyBacked(v, u, d)
<1> DEFINE item == Head(w.items)
           u == BodyApplied(t, item, at)
           S == Flat(v.items)
           gives == \E p \in Pieces(item) : GivesKey(p)
<1>1. item \in Item /\ Flat(w.items) = Pieces(item) \cup S
  BY HeadAndTail, FlatHead
<1>2. Extended(t, Declares(Pieces(item)).cols, gives, u)
  BY <1>1, BodyExtended
<1>3. Declares(Flat(w.items)).cols = Declares(Pieces(item)).cols \cup Declares(S).cols
  BY <1>1, DeclaresBoth
<1> HIDE DEF u, S
<1>4. Backed(w, t, d) => Backed(v, u, d)
  BY <1>2, <1>3 DEF Extended, Backed, Staying, Coming, S
<1>5. KeyBacked(w, t, d) => KeyBacked(v, u, d)
  <2>1. KeyComing(w, t) <=> gives \/ KeyComing(v, u)
    BY <1>1 DEF KeyComing, S
  <2> HIDE DEF gives
  <2> QED
    BY <1>2, <2>1 DEF KeyBacked, Extended
<1> QED
  BY <1>4, <1>5 DEF u

\* What the parts after the first add is added by some part.
LEMMA ColumnsAddedTail ==
  ASSUME NEW parts \in Seq(Part), parts # <<>>
  PROVE  /\ ColumnsAdded(Tail(parts)) \subseteq ColumnsAdded(parts)
         /\ IsAdd(Head(parts)) /\ Head(parts).item.kind = "column" =>
              Head(parts).item.name \in ColumnsAdded(parts)
<1>1. \A k \in DOMAIN Tail(parts) : k + 1 \in DOMAIN parts /\ Tail(parts)[k] = parts[k + 1]
  BY HeadAndTail
<1>2. 1 \in DOMAIN parts /\ parts[1] = Head(parts)
  BY HeadAndTail
<1>3. ColumnsAdded(Tail(parts)) \subseteq ColumnsAdded(parts)
  BY <1>1 DEF ColumnsAdded
<1> QED
  BY <1>2, <1>3 DEF ColumnsAdded

LEMMA KeyAddedTail ==
  ASSUME NEW parts \in Seq(Part), parts # <<>>, NEW C
  PROVE  /\ KeyAdded(C, Tail(parts)) => KeyAdded(C, parts)
         /\ /\ IsAdd(Head(parts)) /\ GivesKey(Head(parts).item)
            /\ ~(Head(parts).item.kind = "column" /\ Head(parts).item.name \in C)
            => KeyAdded(C, parts)
<1>1. \A k \in DOMAIN Tail(parts) : k + 1 \in DOMAIN parts /\ Tail(parts)[k] = parts[k + 1]
  BY HeadAndTail
<1>2. 1 \in DOMAIN parts /\ parts[1] = Head(parts)
  BY HeadAndTail
<1>3. KeyAdded(C, Tail(parts)) => KeyAdded(C, parts)
  BY <1>1 DEF KeyAdded
<1> QED
  BY <1>2, <1>3 DEF KeyAdded

\* A loop over the parts, after one of them: of the columns that stay none is lost, and none comes
\* but one the part adds; nor does a key, but of a column the table did not have.
PartExtended(t, parts, u) ==
  LET part == Head(parts)
      rest == Dropped(Tail(parts))
  IN  /\ Names(t) \ Dropped(parts) \subseteq Names(u) \ rest
      /\ Names(u) \ rest \subseteq (Names(t) \ Dropped(parts)) \cup
           (IF IsAdd(part) /\ part.item.kind = "column" THEN {part.item.name} ELSE {})
      /\ u.key # <<>> => \/ t.key # <<>>
                         \/ /\ IsAdd(part) /\ GivesKey(part.item)
                            /\ ~(part.item.kind = "column" /\ part.item.name \in Names(t))

LEMMA PartBacked ==
  ASSUME NEW w, w.kind = "alter", w.items \in Seq(Part), w.items # <<>>,
         NEW v, v.kind = "alter", v.items = Tail(w.items),
         NEW t, NEW u, PartExtended(t, w.items, u), NEW d
  PROVE  /\ Backed(w, t, d) => Backed(v, u, d)
         /\ KeyBacked(w, t, d) => KeyBacked(v, u, d)
<1> DEFINE part == Head(w.items)
           C == Names(t) \ Dropped(w.items)
           E == Names(u) \ Dropped(v.items)
<1>1. /\ C \subseteq E
      /\ E \subseteq C \cup (IF IsAdd(part) /\ part.item.kind = "column" THEN {part.item.name} ELSE {})
      /\ u.key # <<>> => \/ t.key # <<>>
                         \/ /\ IsAdd(part) /\ GivesKey(part.item)
                            /\ ~(part.item.kind = "column" /\ part.item.name \in Names(t))
  BY DEF PartExtended
<1>2. Staying(w, t) = C /\ Staying(v, u) = E /\ C \subseteq Names(t)
  BY DEF Staying
<1> HIDE DEF C, E
<1>3. Backed(w, t, d) => Backed(v, u, d)
  <2>1. Coming(w) = ColumnsAdded(w.items) /\ Coming(v) = ColumnsAdded(v.items)
    BY DEF Coming
  <2>2. /\ ColumnsAdded(v.items) \subseteq ColumnsAdded(w.items)
        /\ IsAdd(part) /\ part.item.kind = "column" => part.item.name \in ColumnsAdded(w.items)
    BY ColumnsAddedTail
  <2> QED
    BY <1>1, <1>2, <2>1, <2>2 DEF Backed
<1>4. KeyBacked(w, t, d) => KeyBacked(v, u, d)
  <2>1. KeyComing(w, t) <=> KeyAdded(C, w.items)
    BY <1>2 DEF KeyComing
  <2>2. KeyComing(v, u) <=> KeyAdded(E, v.items)
    BY <1>2 DEF KeyComing
  <2>3. KeyAdded(E, v.items) => KeyAdded(C, v.items)
    BY <1>1 DEF KeyAdded
  <2>4. KeyAdded(C, v.items) => KeyAdded(C, w.items)
    BY KeyAddedTail
  <2>5. IsAdd(part) /\ GivesKey(part.item) /\ ~(part.item.kind = "column" /\ part.item.name \in Names(t))
          => KeyAdded(C, w.items)
    BY <1>2, KeyAddedTail
  <2> QED
    BY <1>1, <2>1, <2>2, <2>3, <2>4, <2>5 DEF KeyBacked
<1> QED
  BY <1>3, <1>4

LEMMA AddExtended ==
  ASSUME NEW t \in Table, NEW parts \in Seq(Part), parts # <<>>, NEW at, IsAdd(Head(parts)),
         ~(Head(parts).item.kind = "column" /\ Head(parts).item.name \in Names(t))
  PROVE  PartExtended(t, parts, ApplyItem(t, Head(parts).item, at))
<1> DEFINE item == Head(parts).item
           u == ApplyItem(t, item, at)
<1>1. item \in PlainItem /\ Head(parts).verb # "drop"
  BY AddingParts
<1>2. Dropped(parts) = Dropped(Tail(parts))
  BY <1>1, DroppedTail
<1>3. Extended(t, Declares({item}).cols, GivesKey(item), u)
  BY <1>1, ItemExtended
<1>4. Declares({item}).cols = IF item.kind = "column" THEN {item.name} ELSE {}
  BY <1>1, ItemColumns
<1> HIDE DEF u
<1> QED
  BY <1>2, <1>3, <1>4 DEF Extended, PartExtended, u

\* A part that changes neither the columns nor the key.
LEMMA SameExtended ==
  ASSUME NEW t, NEW parts \in Seq(Part), parts # <<>>, Head(parts).verb # "drop",
         NEW u, Names(u) = Names(t), u.key = t.key
  PROVE  PartExtended(t, parts, u)
<1>1. Dropped(parts) = Dropped(Tail(parts))
  BY DroppedTail
<1> QED
  BY <1>1 DEF PartExtended

LEMMA DropExtended ==
  ASSUME NEW t \in Table, NEW parts \in Seq(Part), parts # <<>>, Head(parts).verb = "drop"
  PROVE  PartExtended(t, parts, DropColumn(t, Head(parts).column))
<1> DEFINE c == Head(parts).column
           u == DropColumn(t, c)
<1>1. u.cols = {x \in t.cols : x.name # c} /\ u.key = t.key
  BY DEF DropColumn, Table
<1>2. Names(u) = Names(t) \ {c}
  <2> HIDE DEF u
  <2> QED
    BY <1>1 DEF Names
<1>3. None \notin Names(t)
  BY NoneApart DEF Names, Table
<1>4. Dropped(parts) = ({c} \ {None}) \cup Dropped(Tail(parts))
  BY DroppedTail
<1> HIDE DEF u
<1> QED
  BY <1>1, <1>2, <1>3, <1>4 DEF PartExtended, u

\* Of the table before an ALTER TABLE, and what the database makes of it.
LEMMA PresentOrAdded ==
  ASSUME NEW C, NEW parts \in Seq(Part), NEW i \in DOMAIN parts, IsAdd(parts[i]), parts[i].item.kind = "column"
  PROVE  \/ parts[i].item.name \in C
         \/ \E j \in Effective(C, parts) : parts[j].item.kind = "column" /\ parts[j].item.name = parts[i].item.name
<1> DEFINE c == parts[i].item.name
           S == {j \in DOMAIN parts : AddsColumn(parts[j], c)}
<1>1. i \in S /\ S \subseteq Nat
  BY DEF AddsColumn
<1>2. PICK k \in S : \A j \in S : k <= j
  BY <1>1, LeastOf
<1>3. CASE c \notin C
  <2>1. k \in DOMAIN parts /\ k \in Nat /\ IsAdd(parts[k]) /\ parts[k].item.kind = "column" /\ parts[k].item.name = c
    BY <1>1, <1>2 DEF AddsColumn
  <2>2. \A j \in 1 .. k - 1 : ~AddsColumn(parts[j], c)
    <3>1. ASSUME NEW j \in 1 .. k - 1, AddsColumn(parts[j], c)
          PROVE  FALSE
      <4>1. j \in DOMAIN parts /\ j < k
        BY <2>1
      <4> QED
        BY <1>1, <1>2, <2>1, <3>1, <4>1
    <3> QED
      BY <3>1
  <2>3. k \in Effective(C, parts)
    BY <1>3, <2>1, <2>2 DEF Effective, Present
  <2> QED
    BY <2>1, <2>3
<1> QED
  BY <1>3

LEMMA AlteredColumns ==
  ASSUME NEW d \in DBTable, NEW parts \in Seq(Part)
  PROVE  (d.cols \ Dropped(parts)) \cup ColumnsAdded(parts) \subseteq Altered(d, parts).cols
<1> DEFINE C == d.cols \ Dropped(parts)
           S == AddedItems(C, parts)
<1>1. Remaining(d, parts).cols = C
  BY RemainingTyped
<1>2. Altered(d, parts).cols = C \cup Declares(S).cols
  BY <1>1 DEF Altered, Join
<1> HIDE DEF C
<1>3. ASSUME NEW i \in DOMAIN parts, IsAdd(parts[i]), parts[i].item.kind = "column"
      PROVE  parts[i].item.name \in C \cup Declares(S).cols
  <2>1. CASE parts[i].item.name \in C
    BY <2>1
  <2>2. CASE \E j \in Effective(C, parts) : parts[j].item.kind = "column" /\ parts[j].item.name = parts[i].item.name
    BY <2>2 DEF AddedItems, Declares, ColumnsIn
  <2> QED
    BY <1>3, <2>1, <2>2, PresentOrAdded
<1>4. ColumnsAdded(parts) \subseteq C \cup Declares(S).cols
  BY <1>3 DEF ColumnsAdded
<1> QED
  BY <1>2, <1>4 DEF C

LEMMA AlteredKeys ==
  ASSUME NEW d \in DBTable, NEW parts \in Seq(Part), Remaining(d, parts).keys = d.keys,
         NEW K, \A i \in DOMAIN parts :
                  IsAdd(parts[i]) /\ GivesKey(parts[i].item) /\ Present(d.cols \ Dropped(parts), parts, i) =>
                    parts[i].item.name \in K,
         d.keys # {} \/ KeyAdded(K, parts)
  PROVE  Altered(d, parts).keys # {}
<1> DEFINE C == d.cols \ Dropped(parts)
           S == AddedItems(C, parts)
<1>1. Remaining(d, parts).cols = C
  BY RemainingTyped
<1>2. Altered(d, parts).keys = d.keys \cup Declares(S).keys
  BY <1>1 DEF Altered, Join
<1>3. CASE KeyAdded(K, parts)
  <2>1. PICK i \in DOMAIN parts : /\ IsAdd(parts[i]) /\ GivesKey(parts[i].item)
                                  /\ ~(parts[i].item.kind = "column" /\ parts[i].item.name \in K)
    BY <1>3 DEF KeyAdded
  <2>2. ~Present(C, parts, i)
    BY <2>1 DEF Present
  <2>3. parts[i].item \in S /\ GivesKey(parts[i].item)
    BY <2>1, <2>2 DEF AddedItems, Effective
  <2> HIDE DEF S
  <2>4. Declares(S).keys # {}
    BY <2>3 DEF Declares, ColumnsIn, GivesKey
  <2> QED
    BY <1>2, <2>4
<1>4. CASE d.keys # {}
  BY <1>2, <1>4
<1> QED
  BY <1>3, <1>4

\* The parts of which the database makes something.
LEMMA IdleParts ==
  ASSUME NEW d \in DBTable, NEW parts \in Seq(Part), NoDrops(parts), NEW C, C \subseteq d.cols,
         Effective(C, parts) = {}
  PROVE  Altered(d, parts) = d
<1>1. Remaining(d, parts) = d
  <2> DEFINE r == [cols |-> d.cols, keys |-> d.keys, indexes |-> d.indexes, foreign |-> d.foreign]
  <2>1. Dropped(parts) = {}
    BY DEF NoDrops, Dropped
  <2>2. Unconstrained(d, parts) = r
    BY DEF NoDrops, Unconstrained
  <2>3. r = d
    BY DEF DBTable
  <2> HIDE DEF r
  <2>4. Without(d, {}) = [cols |-> d.cols, keys |-> d.keys, indexes |-> d.indexes, foreign |-> d.foreign]
    BY DEF Without
  <2> QED
    BY <2>1, <2>2, <2>3, <2>4 DEF Remaining, r
<1>2. Effective(d.cols, parts) \subseteq Effective(C, parts)
  BY DEF Effective, Present
<1>3. AddedItems(d.cols, parts) = {}
  BY <1>2 DEF AddedItems
<1>4. Altered(d, parts) = Join(d, Declares({}))
  BY <1>1, <1>3 DEF Altered
<1>5. Join(d, Declares({})) = [cols |-> d.cols, keys |-> d.keys, indexes |-> d.indexes, foreign |-> d.foreign]
  BY DeclaresNothing DEF Join
<1> QED
  BY <1>4, <1>5 DEF DBTable

LEMMA IdleStep ==
  ASSUME NEW C, NEW parts \in Seq(Part), parts # <<>>, IsAdd(Head(parts)), Head(parts).item.kind = "column",
         Head(parts).item.name \in C, NoDrops(Tail(parts)), Effective(C, Tail(parts)) = {}
  PROVE  NoDrops(parts) /\ Effective(C, parts) = {}
<1>1. Head(parts).verb # "drop"
  BY AddingParts
<1>2. After(C, Head(parts)) = C /\ ~Due1(C, Head(parts))
  BY DEF After, Due1
<1>3. \A j \in DOMAIN parts : j = 1 \/ \E k \in DOMAIN Tail(parts) : j = k + 1
  BY HeadAndTail
<1>4. Effective(C, parts) = {}
  <2>1. ASSUME NEW j \in Effective(C, parts)
        PROVE  FALSE
    <3>1. j \in DOMAIN parts
      BY DEF Effective
    <3>2. j # 1
      BY <1>2, EffectiveTail
    <3>3. PICK k \in DOMAIN Tail(parts) : j = k + 1
      BY <1>3, <3>1, <3>2
    <3> QED
      BY <1>2, <3>3, EffectiveTail
  <2> QED
    BY <2>1
<1>5. \A k \in DOMAIN Tail(parts) : Tail(parts)[k] = parts[k + 1]
  BY HeadAndTail
<1>6. Head(parts) = parts[1]
  BY HeadAndTail
<1> QED
  BY <1>1, <1>3, <1>4, <1>5, <1>6 DEF NoDrops

-----------------------------------------------------------------------------
(* Reading a statement. *)

\* A table of the same columns and key, or a new one.
Same(t, u) ==
  u # None => \/ Names(u) = {} /\ u.key = <<>>
              \/ t # None /\ Names(u) = Names(t) /\ u.key = t.key

Grown(d, e) == ColumnsOf(d) \subseteq ColumnsOf(e) /\ (HasKey(d) => HasKey(e))

LEMMA NoWorkBacked ==
  ASSUME NEW t, NEW d
  PROVE  /\ Backed(NoWork, t, d) <=> Names(t) \subseteq ColumnsOf(d)
         /\ KeyBacked(NoWork, t, d) <=> (t.key # <<>> => HasKey(d))
<1>1. NoWork.kind = "none"
  BY DEF NoWork
<1> QED
  BY <1>1 DEF Backed, KeyBacked, Staying, Coming, KeyComing

LEMMA SameBacked ==
  ASSUME NEW t, NEW u, u # None, Same(t, u), NEW d, NEW e, Grown(d, e)
  PROVE  /\ (t # None => Backed(NoWork, t, d)) => Backed(NoWork, u, e)
         /\ (t # None => KeyBacked(NoWork, t, d)) => KeyBacked(NoWork, u, e)
BY NoWorkBacked DEF Same, Grown

LEMMA PutSame ==
  ASSUME NEW m \in Name, NEW t, tables \in [Name -> Table \cup {None}], tables' = [tables EXCEPT ![m] = t],
         Same(tables[m], t)
  PROVE  \A n \in Name : Same(tables[n], tables'[n])
BY DEF Same

LEMMA MarkedSame ==
  ASSUME NEW t \in Table, NEW reason, NEW at
  PROVE  Same(t, MarkUnproven(t, reason, at))
BY MarkedExtended, NoneAssumption DEF Same

LEMMA NewSame ==
  ASSUME NEW t, NEW at \in Position, NEW reason
  PROVE  Same(t, NewTable(at)) /\ Same(t, MarkUnproven(NewTable(at), reason, at))
BY NewTableTyped, NewReadably, MarkedExtended DEF Same

LEMMA MentionedSame ==
  ASSUME SchemaInv, NEW m \in Name, NEW at \in Position
  PROVE  Same(tables[m], GetMentioned(m, at)) /\ GetMentioned(m, at) \in Table
<1>1. CASE tables[m] = None
  BY <1>1, NewSame, MentionedReadably DEF GetMentioned
<1>2. CASE tables[m] # None
  BY <1>2, MentionedReadably DEF Same
<1> QED
  BY <1>1, <1>2

\* The heads a table may be created under.
LEMMA OnlyBranch ==
  ASSUME NEW st \in Statement
  PROVE  st.does \in {"createTable", "createPartition"} =>
           Branch(st) \in {"createTable", "partitionOf", "tableShaped", "default"}
<1>1. st.does \in Means(Branch(st))
  BY MeaningAssumption
<1> QED
  BY <1>1 DEF Means

\* The database has no less of a table than before, but of one it alters or drops.
LEMMA Grows ==
  ASSUME SchemaInv, NEW st \in Statement, ReadStatement(st), NEW n \in Name \ blind',
         Branch(st) # "default" /\ st.does = "alterTable" => n # st.name,
         Branch(st) # "default" /\ st.does = "dropTable" => n # Head(st.names)
  PROVE  Grown(db[n], db'[n])
<1>1. /\ work = NoWork /\ Accepts(st) /\ db \in Databases /\ db' = Execute(st)
      /\ blind' = blind \cup LosesTrackOf(st)
  BY ReadContext
<1>2. db[n] = None => Grown(db[n], db'[n])
  BY DEF Grown, ColumnsOf, HasKey
<1>3. SUFFICES ASSUME db[n] # None
               PROVE  db'[n] # None /\ db'[n].cols = db[n].cols /\ db'[n].keys = db[n].keys
  BY <1>2 DEF Grown, ColumnsOf, HasKey
<1>4. CASE st.does = "createTable"
  BY <1>1, <1>3, <1>4, CreateExecuted
<1>5. CASE st.does = "createPartition"
  BY <1>1, <1>3, <1>5, PartitionExecuted
<1>6. CASE st.does = "dropIndex"
  BY <1>1, <1>3, <1>6, DropIndexExecuted DEF Fewer
<1>7. CASE st.does = "nothing"
  BY <1>1, <1>3, <1>7, NothingExecuted
<1>8. CASE st.does = "renameTable"
  <2>1. LosesTrackOf(st) = {st.name, st.to}
    BY <1>8 DEF LosesTrackOf, Targets
  <2> QED
    BY <1>1, <1>3, <1>8, <2>1, RenameExecuted
<1>9. CASE st.does = "createIndex"
  <2>1. CASE n # st.table \/ ~Fresh(st)
    BY <1>1, <1>3, <1>9, <2>1, IndexExecuted
  <2>2. CASE n = st.table /\ Fresh(st)
    <3>1. db'[n] = WithIndex(db[n], NewIndex(st))
      BY <1>1, <1>9, <2>2, IndexExecuted
    <3>2. db[n] \in DBTable
      BY <1>1, <1>3 DEF Databases
    <3>3. WithIndex(db[n], NewIndex(st)).cols = db[n].cols /\ WithIndex(db[n], NewIndex(st)).keys = db[n].keys
      BY <3>2 DEF WithIndex, DBTable
    <3>4. WithIndex(db[n], NewIndex(st)) # None
      <4>1. st.unique \in BOOLEAN /\ st.cols \in Seq(Column) /\ st.index \in IndexName \cup {None}
        BY <1>9, WhatItSays
      <4>2. NewIndex(st) \in [cols : Seq(Column), unique : BOOLEAN, name : IndexName \cup {None}]
        BY <4>1 DEF NewIndex
      <4>3. WithIndex(db[n], NewIndex(st)) \in DBTable
        BY <3>2, <4>2, SMTT(30) DEF WithIndex, DBTable
      <4> QED
        BY <4>3, NoneAssumption
    <3> QED
      BY <3>1, <3>3, <3>4
  <2> QED
    BY <2>1, <2>2
<1>10. CASE Branch(st) # "default" /\ st.does = "alterTable"
  BY <1>1, <1>3, <1>10, AlterExecuted
<1>11. CASE Branch(st) # "default" /\ st.does = "dropTable"
  <2>1. LosesTrackOf(st) = {st.names[i] : i \in DOMAIN st.names \ {1}}
    BY <1>11 DEF LosesTrackOf
  <2>2. st.names \in Seq(Name)
    BY <1>11, WhatItSays
  <2>3. \A i \in DOMAIN st.names : st.names[i] # n
    <3>1. ASSUME NEW i \in DOMAIN st.names, i # 1
          PROVE  st.names[i] # n
      BY <1>1, <2>1, <3>1
    <3>2. 1 \in DOMAIN st.names => st.names[1] # n
      BY <1>11, <2>2
    <3> QED
      BY <3>1, <3>2
  <2> QED
    BY <1>1, <1>3, <1>11, <2>3, DropExecuted
<1>12. st.does \in {"createTable", "createPartition", "alterTable", "reshapeTable", "renameTable", "createIndex", "dropTable",
                   "dropIndex", "nothing"}
  <2>1. \/ Branch(st) \in {"createTable", "partitionOf", "alterTable", "createIndex", "columnstore",
                           "indexShaped", "dropTable"}
        \/ Branch(st) = "default"
        \/ Branch(st) \in {"partitionScheme", "partitionFunction", "sequence", "view", "routine", "trigger",
                           "dataOrPermission", "sessionScoped", "hashPrefixed", "tableShaped"}
    BY BranchKinds
  <2> QED
    BY <2>1, BranchMeans
<1>13. CASE Branch(st) = "default"
  <2>1. n \notin Targets(st)
    BY <1>1, <1>13 DEF LosesTrackOf
  <2> QED
    BY <1>1, <1>3, <1>13, <2>1, DefaultSpares DEF Fewer
<1>14. CASE st.does = "reshapeTable"
  <2>1. LosesTrackOf(st) = {st.name}
    BY <1>14 DEF LosesTrackOf, Targets
  <2> QED
    BY <1>1, <1>3, <1>14, <2>1, ReshapeExecuted
<1> QED
  BY <1>4, <1>5, <1>6, <1>7, <1>8, <1>9, <1>10, <1>11, <1>12, <1>13, <1>14

\* A CREATE TABLE of a table the schema does not have, up to its items; and an ALTER TABLE of one
\* it has, or gets a mention of.
NewBody(st) == [NoWork EXCEPT !.kind = "body", !.table = st.name, !.items = st.items,
                              !.id = st.id, !.next = 1, !.tail = st.tail]
Opens(st) ==
  /\ Branch(st) = "createTable" /\ tables[st.name] = None
  /\ tables' = [tables EXCEPT ![st.name] = NewTable(At(st, 0))] /\ work' = NewBody(st)
NewParts(st) == [NoWork EXCEPT !.kind = "alter", !.table = st.name, !.items = st.parts,
                               !.id = st.id, !.next = 1, !.first = TRUE, !.satisfied = st.parts # <<>>]
Alters(st) ==
  /\ Branch(st) = "alterTable" /\ st.name \in Name
  /\ tables' = [tables EXCEPT ![st.name] = GetMentioned(st.name, At(st, 0))] /\ work' = NewParts(st)

\* Any other statement is read in this step, and leaves the columns and the key of each table.
ReadWhole(st) ==
  /\ work' = NoWork
  /\ \A n \in Name : Same(tables[n], tables'[n])
  /\ Branch(st) # "default" /\ st.does = "alterTable" => tables'[st.name] = None
  /\ Branch(st) # "default" /\ st.does = "dropTable" => tables'[Head(st.names)] = None

LEMMA CreateReadWhole ==
  ASSUME SchemaInv, NEW st \in Statement, ReadStatement(st), CreateTable(st)
  PROVE  ReadWhole(st) \/ Opens(st)
<1> DEFINE n == st.name
           repeated == MarkUnproven(tables[n], "unreducedStatement", At(st, 0))
           malformed == MarkUnproven(NewTable(At(st, 0)), "malformedBody", At(st, 0))
<1>1. work = NoWork /\ At(st, 0) \in Position /\ tables \in [Name -> Table \cup {None}]
  BY ReadContext
<1>2. Branch(st) = "createTable" /\ st.does = "createTable" /\ n \in Name
      /\ st.guarded \in BOOLEAN /\ st.balanced \in BOOLEAN
  BY WhatIsRead, BranchMeans DEF CreateTable
<1>3. CASE tables[n] # None /\ st.guarded
  <2>1. UNCHANGED << tables, work >>
    BY <1>3 DEF CreateTable
  <2> QED
    BY <1>1, <1>2, <2>1 DEF ReadWhole, Same
<1>4. CASE tables[n] # None /\ ~st.guarded
  <2>1. tables' = [tables EXCEPT ![n] = repeated] /\ work' = work
    BY <1>4 DEF CreateTable, Put
  <2>2. Same(tables[n], repeated)
    BY <1>1, <1>2, <1>4, MarkedSame
  <2> HIDE DEF repeated
  <2> QED
    BY <1>1, <1>2, <2>1, <2>2, PutSame DEF ReadWhole
<1>5. CASE tables[n] = None /\ ~st.balanced
  <2>1. tables' = [tables EXCEPT ![n] = malformed] /\ work' = work
    BY <1>5 DEF CreateTable, Put
  <2>2. Same(tables[n], malformed)
    BY <1>1, NewSame
  <2> HIDE DEF malformed
  <2> QED
    BY <1>1, <1>2, <2>1, <2>2, PutSame DEF ReadWhole
<1>6. CASE tables[n] = None /\ st.balanced
  BY <1>2, <1>6 DEF CreateTable, Put, Opens, NewBody
<1> QED
  BY <1>2, <1>3, <1>4, <1>5, <1>6

LEMMA PartitionReadWhole ==
  ASSUME SchemaInv, NEW st \in Statement, ReadStatement(st), CreatePartitionOf(st)
  PROVE  ReadWhole(st)
<1> DEFINE p == [declared |-> TRUE, strategy |-> None, of |-> st.parent]
           g == GetTable(st.name, At(st, 0))
           h == [g EXCEPT !.partition = p]
           t == MarkUnproven(h, "partitionChild", At(st, 0))
<1>1. work = NoWork /\ At(st, 0) \in Position /\ tables \in [Name -> Table \cup {None}]
  BY ReadContext
<1>2. st.name \in Name /\ st.parent \in Name /\ st.does = "createPartition"
  BY WhatIsRead, BranchMeans DEF CreatePartitionOf
<1>3. g \in Table /\ Same(tables[st.name], g)
  <2>1. CASE tables[st.name] = None
    BY <1>1, <2>1, NewTableTyped, NewSame DEF GetTable
  <2>2. CASE tables[st.name] # None
    BY <1>1, <1>2, <2>2 DEF GetTable, Same
  <2> QED
    BY <2>1, <2>2
<1>4. p \in [declared : BOOLEAN, strategy : Strategy \cup {None}, of : Name \cup {None}]
  BY <1>2
<1>5. tables' = [tables EXCEPT ![st.name] = t] /\ work' = work
  BY DEF CreatePartitionOf, Put, NoLoop
<1> HIDE DEF g, p
<1>6. h \in Table /\ h.cols = g.cols /\ h.key = g.key
  BY <1>3, <1>4 DEF Table
<1> HIDE DEF h
<1>7. Names(t) = Names(g) /\ t.key = g.key
  BY <1>6, MarkedExtended DEF Names
<1> HIDE DEF t
<1>8. Same(tables[st.name], t)
  BY <1>3, <1>7, NoneAssumption DEF Same
<1> QED
  BY <1>1, <1>2, <1>5, <1>8, PutSame DEF ReadWhole

LEMMA AlterReadWhole ==
  ASSUME SchemaInv, NEW st \in Statement, ReadStatement(st), AlterTable(st)
  PROVE  ReadWhole(st) \/ Alters(st)
<1>1. work = NoWork /\ tables \in [Name -> Table \cup {None}]
  BY ReadContext
<1>2. /\ Branch(st) = "alterTable" /\ st.does \in {"alterTable", "reshapeTable", "renameTable", "nothing"}
      /\ st.name \in Name \cup {None} /\ (st.does = "alterTable" => st.name \in Name)
  BY WhatIsRead, BranchMeans, WhatItSays DEF AlterTable
<1>3. CASE st.name = None
  <2>1. UNCHANGED << tables, work >>
    BY <1>3 DEF AlterTable
  <2> QED
    BY <1>1, <1>2, <1>3, <2>1, NoneApart DEF ReadWhole, Same
<1>4. CASE st.name # None /\ IsKnownNonTable(st.name)
  <2>1. UNCHANGED << tables, work >>
    BY <1>4 DEF AlterTable
  <2> QED
    BY <1>1, <1>2, <1>4, <2>1 DEF ReadWhole, Same, IsKnownNonTable
<1>5. CASE st.name # None /\ ~IsKnownNonTable(st.name)
  BY <1>2, <1>5 DEF AlterTable, Put, Alters, NewParts
<1> QED
  BY <1>3, <1>4, <1>5

LEMMA UnreadIndexWhole ==
  ASSUME SchemaInv, NEW st \in Statement, ReadStatement(st), UnreadIndex(st), work' = work,
         st.table \in Name \cup {None}, st.does \in {"createIndex", "nothing"}
  PROVE  ReadWhole(st)
<1> DEFINE m == st.table
           t == IF tables[m] = None THEN GetMentioned(m, At(st, 0))
                ELSE MarkUnproven(tables[m], "unreducedStatement", At(st, 0))
<1>1. work = NoWork /\ At(st, 0) \in Position /\ tables \in [Name -> Table \cup {None}]
  BY ReadContext
<1>2. CASE m # None /\ ~IsKnownNonTable(m)
  <2>1. tables' = [tables EXCEPT ![m] = t] /\ m \in Name
    BY <1>2 DEF UnreadIndex, Put
  <2>2. Same(tables[m], t)
    <3>1. CASE tables[m] = None
      BY <1>1, <2>1, <3>1, MentionedSame
    <3>2. CASE tables[m] # None
      BY <1>1, <2>1, <3>2, MarkedSame
    <3> QED
      BY <3>1, <3>2
  <2> HIDE DEF t
  <2> QED
    BY <1>1, <2>1, <2>2, PutSame DEF ReadWhole
<1>3. CASE ~(m # None /\ ~IsKnownNonTable(m))
  <2>1. tables' = tables
    BY <1>3 DEF UnreadIndex
  <2> QED
    BY <1>1, <2>1 DEF ReadWhole, Same
<1> QED
  BY <1>2, <1>3

LEMMA AddIndexWhole ==
  ASSUME SchemaInv, NEW st \in Statement, ReadStatement(st), work' = work, st.table \in Name,
         NEW cols \in Seq(Column), NEW unique \in BOOLEAN, NEW method \in Method,
         AddIndex(st, cols, unique, method), st.does \in {"createIndex", "nothing"}
  PROVE  ReadWhole(st)
<1> DEFINE g == GetMentioned(st.table, At(st, 0))
           x == [cols |-> cols, unique |-> unique, method |-> method, at |-> At(st, 0)]
           t == [g EXCEPT !.indexes = @ \cup {x}]
<1>1. work = NoWork /\ At(st, 0) \in Position /\ tables \in [Name -> Table \cup {None}]
  BY ReadContext
<1>2. g \in Table /\ Same(tables[st.table], g)
  BY <1>1, MentionedSame
<1>3. tables' = [tables EXCEPT ![st.table] = t]
  BY DEF AddIndex, Put
<1> HIDE DEF g, x
<1>4. t.cols = g.cols /\ t.key = g.key
  BY <1>2 DEF Table
<1> HIDE DEF t
<1>5. Same(tables[st.table], t)
  BY <1>2, <1>4, NoneAssumption DEF Same, Names
<1> QED
  BY <1>1, <1>3, <1>5, PutSame DEF ReadWhole

LEMMA IndexReadWhole ==
  ASSUME SchemaInv, NEW st \in Statement, ReadStatement(st),
         CreateIndex(st) \/ CreateColumnstore(st) \/ IndexShaped(st)
  PROVE  ReadWhole(st)
<1>1. work = NoWork /\ work' = work
  BY ReadContext DEF CreateIndex, CreateColumnstore, IndexShaped, NoLoop
<1>2. Branch(st) \in {"createIndex", "columnstore", "indexShaped"} /\ st.does \in {"createIndex", "nothing"}
  BY BranchMeans DEF CreateIndex, CreateColumnstore, IndexShaped
<1>3. CASE UnreadIndex(st)
  <2>1. st.table \in Name \cup {None}
    BY <1>2, WhatIsRead
  <2> QED
    BY <1>1, <1>2, <1>3, <2>1, UnreadIndexWhole
<1>4. CASE UNCHANGED tables
  BY <1>1, <1>2, <1>4 DEF ReadWhole, Same
<1>5. CASE CreateIndex(st) /\ AddIndex(st, st.cols, st.unique, st.method)
  <2>1. st.table \in Name /\ st.cols \in Seq(Column) /\ st.unique \in BOOLEAN /\ st.method \in Method
    BY <1>5, WhatIsRead DEF CreateIndex
  <2> QED
    BY <1>1, <1>2, <1>5, <2>1, AddIndexWhole
<1>6. CASE CreateColumnstore(st) /\ AddIndex(st, <<>>, FALSE, "columnstore")
  <2>1. st.table \in Name
    BY <1>6, WhatIsRead DEF CreateColumnstore
  <2>2. <<>> \in Seq(Column) /\ FALSE \in BOOLEAN
    OBVIOUS
  <2>3. AddIndex(st, <<>>, FALSE, "columnstore")
    BY <1>6
  <2> QED
    BY <1>1, <1>2, <2>1, <2>2, <2>3, MethodsGiven, AddIndexWhole
<1>7. \/ UnreadIndex(st) \/ UNCHANGED tables
      \/ CreateIndex(st) /\ AddIndex(st, st.cols, st.unique, st.method)
      \/ CreateColumnstore(st) /\ AddIndex(st, <<>>, FALSE, "columnstore")
  BY DEF CreateIndex, CreateColumnstore, IndexShaped
<1> QED
  BY <1>3, <1>4, <1>5, <1>6, <1>7

LEMMA DropReadWhole ==
  ASSUME SchemaInv, NEW st \in Statement, ReadStatement(st), DropTable(st)
  PROVE  ReadWhole(st)
<1>1. work = NoWork /\ tables \in [Name -> Table \cup {None}]
  BY ReadContext
<1>2. st.names \in Seq(Name) \ {<<>>} /\ st.does = "dropTable"
  BY WhatIsRead, BranchMeans DEF DropTable
<1>3. Head(st.names) \in Name
  BY <1>2
<1>4. tables' = [tables EXCEPT ![Head(st.names)] = None] /\ work' = work
  BY DEF DropTable, Put, NoLoop
<1>5. Same(tables[Head(st.names)], None)
  BY DEF Same
<1> QED
  BY <1>1, <1>2, <1>3, <1>4, <1>5, PutSame DEF ReadWhole

LEMMA OtherReadWhole ==
  ASSUME SchemaInv, NEW st \in Statement, ReadStatement(st), OfNoTable(st)
  PROVE  ReadWhole(st)
<1>1. Branch(st) \in {"partitionScheme", "partitionFunction", "sequence", "view", "routine", "trigger",
                      "dataOrPermission", "sessionScoped", "hashPrefixed", "tableShaped", "default"}
  BY DEF OfNoTable, CreatePartitionScheme, CreatePartitionFunction, CreateSequence, CreateView,
         CreateRoutineOrTrigger, DataOrPermission, SessionScoped, TableShaped, Skip
<1>2. UNCHANGED << tables, work >>
  BY DEF OfNoTable, CreatePartitionScheme, CreatePartitionFunction, CreateSequence, CreateView,
         CreateRoutineOrTrigger, DataOrPermission, SessionScoped, TableShaped, Skip, NoLoop
<1>3. Branch(st) = "default" \/ st.does \in {"createTable", "createPartition", "nothing"}
  BY <1>1, BranchMeans
<1> QED
  BY <1>2, <1>3, ReadContext DEF ReadWhole, Same

LEMMA HowItIsRead ==
  ASSUME SchemaInv, NEW st \in Statement, ReadStatement(st)
  PROVE  ReadWhole(st) \/ Opens(st) \/ Alters(st)
<1>1. Apply(st)
  BY ReadContext
<1> QED
  BY <1>1, CreateReadWhole, PartitionReadWhole, AlterReadWhole, IndexReadWhole, DropReadWhole, OtherReadWhole
     DEF Apply, OfNoTable

-----------------------------------------------------------------------------
(* The database has the columns, and the key, of each table that is read.  *)

LEMMA KeysDeclared ==
  ASSUME NEW S, NEW item \in S, GivesKey(item)
  PROVE  Declares(S).keys # {}
BY DEF Declares, ColumnsIn, GivesKey

LEMMA BackedBefore ==
  ASSUME SchemaInv, BackedInv, KeyBackedInv, NEW st \in Statement, ReadStatement(st), NEW n \in Name \ blind'
  PROVE  /\ tables[n] # None => Backed(NoWork, tables[n], db[n])
         /\ n \notin keyless' /\ tables[n] # None => KeyBacked(NoWork, tables[n], db[n])
<1>1. work = NoWork /\ blind' = blind \cup LosesTrackOf(st) /\ keyless' = keyless \cup LosesKey(st)
  BY ReadContext
<1>2. WorkOf(n) = NoWork
  BY <1>1 DEF WorkOf
<1> QED
  BY <1>1, <1>2 DEF BackedInv, KeyBackedInv

\* Of a table the statement does not alter.
LEMMA QuietBacked ==
  ASSUME SchemaInv, BackedInv, KeyBackedInv, NEW st \in Statement, ReadStatement(st),
         NEW n \in Name \ blind', tables'[n] # None, Same(tables[n], tables'[n]), WorkOf(n)' = NoWork,
         Branch(st) # "default" /\ st.does = "alterTable" => n # st.name,
         Branch(st) # "default" /\ st.does = "dropTable" => n # Head(st.names)
  PROVE  /\ Backed(WorkOf(n)', tables'[n], db'[n])
         /\ n \notin keyless' => KeyBacked(WorkOf(n)', tables'[n], db'[n])
<1>1. Grown(db[n], db'[n])
  BY Grows
<1>2. /\ tables[n] # None => Backed(NoWork, tables[n], db[n])
      /\ n \notin keyless' /\ tables[n] # None => KeyBacked(NoWork, tables[n], db[n])
  BY BackedBefore
<1> QED
  BY <1>1, <1>2, SameBacked

LEMMA OpensBacked ==
  ASSUME SchemaInv, BackedInv, KeyBackedInv, NEW st \in Statement, ReadStatement(st), Opens(st),
         NEW n \in Name \ blind', tables'[n] # None
  PROVE  /\ Backed(WorkOf(n)', tables'[n], db'[n])
         /\ n \notin keyless' => KeyBacked(WorkOf(n)', tables'[n], db'[n])
<1> DEFINE w == NewBody(st)
           t == NewTable(At(st, 0))
           S == Flat(st.items)
<1>1. /\ work = NoWork /\ Accepts(st) /\ db \in Databases /\ db' = Execute(st)
      /\ blind' = blind \cup LosesTrackOf(st) /\ tables \in [Name -> Table \cup {None}]
  BY ReadContext
<1>2. /\ Branch(st) = "createTable" /\ st.does = "createTable" /\ st.name \in Name /\ st.items \in Seq(Item)
      /\ tables[st.name] = None
  BY WhatIsRead, BranchMeans DEF Opens
<1>3. w.kind = "body" /\ w.table = st.name /\ w.items = st.items
  BY DEF NewBody, NoWork
<1>4. tables' = [tables EXCEPT ![st.name] = t] /\ work' = w
  BY DEF Opens
<1>5. Names(t) = {} /\ t.key = <<>>
  BY NewReadably
<1> HIDE DEF w, t, S
<1>6. CASE n # st.name
  <2>1. WorkOf(n)' = NoWork /\ tables'[n] = tables[n]
    BY <1>1, <1>3, <1>4, <1>6 DEF WorkOf
  <2>2. Same(tables[n], tables'[n])
    BY <2>1 DEF Same
  <2> QED
    BY <1>2, <2>1, <2>2, QuietBacked
<1>7. CASE n = st.name
  <2>1. WorkOf(n)' = w /\ tables'[n] = t
    BY <1>1, <1>3, <1>4, <1>7 DEF WorkOf
  <2>2. st.guarded => db[n] = None
    <3>1. st.guarded /\ db[n] # None => n \in LosesTrackOf(st)
      BY <1>2, <1>7 DEF LosesTrackOf
    <3> QED
      BY <1>1, <3>1
  <2>3. db'[n] = Declares(S)
    BY <1>1, <1>2, <1>7, <2>2, CreateExecuted DEF S
  <2>4. S \in SUBSET PlainItem
    BY <1>2, FlatIsPlain DEF S
  <2>5. Declares(S) # None
    BY <2>4, DeclaresTyped, NoneAssumption
  <2>6. Staying(w, t) = {} /\ Coming(w) = Declares(S).cols
    BY <1>3, <1>5 DEF Staying, Coming, S
  <2>7. KeyComing(w, t) => Declares(S).keys # {}
    BY <1>3, KeysDeclared DEF KeyComing, S
  <2> QED
    BY <1>5, <2>1, <2>3, <2>5, <2>6, <2>7 DEF Backed, KeyBacked, ColumnsOf, HasKey
<1> QED
  BY <1>6, <1>7

LEMMA NamedBacked ==
  ASSUME SchemaInv, BackedInv, KeyBackedInv, NEW st \in Statement, ReadStatement(st), Branch(st) = "alterTable",
         NEW n \in Name \ blind', n = st.name, NEW t, t = GetMentioned(n, At(st, 0)),
         NEW w, w.kind = "alter", w.items = st.parts
  PROVE  /\ Backed(w, t, db'[n])
         /\ n \notin keyless' => KeyBacked(w, t, db'[n])
<1> DEFINE parts == st.parts
           d == db[n]
           C == Names(t) \ Dropped(parts)
<1>1. /\ work = NoWork /\ Accepts(st) /\ db \in Databases /\ db' = Execute(st)
      /\ blind' = blind \cup LosesTrackOf(st) /\ keyless' = keyless \cup LosesKey(st)
      /\ At(st, 0) \in Position
  BY ReadContext
<1>2. st.does \in {"alterTable", "reshapeTable", "renameTable", "nothing"} /\ parts \in Seq(Part)
  BY WhatIsRead, BranchMeans
<1>3. Same(tables[n], t) /\ t # None /\ (tables[n] # None => t = tables[n])
  BY <1>1, MentionedSame, MentionedReadably, NoneAssumption
<1>4. Grown(d, d)
  BY DEF Grown
<1>5. /\ tables[n] # None => Backed(NoWork, tables[n], db[n])
      /\ n \notin keyless' /\ tables[n] # None => KeyBacked(NoWork, tables[n], db[n])
  BY BackedBefore
<1>6. Names(t) \subseteq ColumnsOf(d) /\ (n \notin keyless' => (t.key # <<>> => HasKey(d)))
  BY <1>3, <1>4, <1>5, SameBacked, NoWorkBacked
<1>7. Staying(w, t) = C /\ Coming(w) = ColumnsAdded(parts) /\ (KeyComing(w, t) <=> KeyAdded(C, parts))
  BY DEF Staying, Coming, KeyComing
<1>8. CASE st.does = "alterTable"
  <2>1. db'[n] = Altered(d, parts) /\ d # None
    BY <1>1, <1>8, AlterExecuted
  <2>2. d \in DBTable
    BY <1>1, <2>1 DEF Databases
  <2>3. Altered(d, parts) # None
    BY <1>2, <2>2, AlteredTyped, NoneAssumption
  <2>4. (d.cols \ Dropped(parts)) \cup ColumnsAdded(parts) \subseteq Altered(d, parts).cols
    BY <1>2, <2>2, AlteredColumns
  <2>5. Backed(w, t, db'[n])
    BY <1>6, <1>7, <2>1, <2>3, <2>4 DEF Backed, ColumnsOf
  <2>6. ASSUME n \notin keyless', t.key # <<>> \/ KeyAdded(C, parts)
        PROVE  HasKey(db'[n])
    <3>1. Remaining(d, parts).keys = d.keys /\ ~InventsKey(n, parts)
      BY <1>1, <1>8, <2>6 DEF LosesKey
    <3>2. Remaining(d, parts).cols = d.cols \ Dropped(parts)
      BY <2>2, RemainingTyped
    <3>3. ASSUME NEW i \in DOMAIN parts, IsAdd(parts[i]), GivesKey(parts[i].item),
                 Present(d.cols \ Dropped(parts), parts, i)
          PROVE  parts[i].item.name \in C
      BY <1>3, <3>1, <3>2, <3>3 DEF InventsKey
    <3>4. d.keys # {} \/ KeyAdded(C, parts)
      BY <1>6, <2>6 DEF HasKey
    <3> HIDE DEF C, parts, d
    <3>5. Altered(d, parts).keys # {}
      BY <1>2, <2>2, <3>1, <3>3, <3>4, AlteredKeys
    <3> QED
      BY <2>1, <2>3, <3>5 DEF HasKey
  <2> QED
    BY <1>7, <2>5, <2>6 DEF KeyBacked
<1>9. CASE st.does = "nothing"
  <2>1. db' = db
    BY <1>1, <1>9, NothingExecuted
  <2>2. \A i \in DOMAIN parts : parts[i] \in RestPart
    BY <1>9, MeaningAssumption
  <2>3. \A i \in DOMAIN parts : ~IsAdd(parts[i])
    BY <2>2 DEF RestPart, IsAdd
  <2>4. ColumnsAdded(parts) = {} /\ ~KeyAdded(C, parts)
    BY <2>3 DEF ColumnsAdded, KeyAdded
  <2> QED
    BY <1>6, <1>7, <2>1, <2>4 DEF Backed, KeyBacked
<1>10. CASE st.does \in {"reshapeTable", "renameTable"}
  BY <1>1, <1>10 DEF LosesTrackOf
<1> QED
  BY <1>2, <1>8, <1>9, <1>10

LEMMA AltersBacked ==
  ASSUME SchemaInv, BackedInv, KeyBackedInv, NEW st \in Statement, ReadStatement(st), Alters(st),
         NEW n \in Name \ blind', tables'[n] # None
  PROVE  /\ Backed(WorkOf(n)', tables'[n], db'[n])
         /\ n \notin keyless' => KeyBacked(WorkOf(n)', tables'[n], db'[n])
<1> DEFINE w == NewParts(st)
           t == GetMentioned(st.name, At(st, 0))
<1>1. tables \in [Name -> Table \cup {None}]
  BY ReadContext
<1>2. Branch(st) = "alterTable" /\ st.does \in {"alterTable", "reshapeTable", "renameTable", "nothing"} /\ st.name \in Name
  BY BranchMeans DEF Alters
<1>3. w.kind = "alter" /\ w.table = st.name /\ w.items = st.parts
  BY DEF NewParts, NoWork
<1>4. tables' = [tables EXCEPT ![st.name] = t] /\ work' = w
  BY DEF Alters
<1> HIDE DEF w
<1>5. CASE n # st.name
  <2>1. WorkOf(n)' = NoWork /\ tables'[n] = tables[n]
    BY <1>1, <1>3, <1>4, <1>5 DEF WorkOf
  <2>2. Same(tables[n], tables'[n])
    BY <2>1 DEF Same
  <2> QED
    BY <1>2, <1>5, <2>1, <2>2, QuietBacked
<1>6. CASE n = st.name
  <2>1. WorkOf(n)' = w /\ tables'[n] = t
    BY <1>1, <1>3, <1>4, <1>6 DEF WorkOf
  <2> QED
    BY <1>2, <1>3, <1>6, <2>1, NamedBacked
<1> QED
  BY <1>5, <1>6

LEMMA StatementBacked ==
  ASSUME SchemaInv, BackedInv, KeyBackedInv, NEW st \in Statement, ReadStatement(st)
  PROVE  BackedInv' /\ KeyBackedInv'
<1>1. ASSUME NEW n \in Name \ blind', tables'[n] # None
      PROVE  /\ Backed(WorkOf(n)', tables'[n], db'[n])
             /\ n \notin keyless' => KeyBacked(WorkOf(n)', tables'[n], db'[n])
  <2>1. CASE ReadWhole(st)
    <3>1. WorkOf(n)' = NoWork
      BY <2>1 DEF ReadWhole, WorkOf
    <3> QED
      BY <1>1, <2>1, <3>1, QuietBacked DEF ReadWhole
  <2> QED
    BY <1>1, <2>1, HowItIsRead, OpensBacked, AltersBacked
<1> QED
  BY <1>1 DEF BackedInv, KeyBackedInv

\* A step of a loop, of the table it makes of the loop's.
LEMMA LoopPutBacked ==
  ASSUME SchemaInv, BackedInv, KeyBackedInv, UNCHANGED << db, blind, keyless >>, work # NoWork,
         NEW m \in Name, m = work.table, NEW u, tables' = [tables EXCEPT ![m] = u], NEW w, work' = w,
         w # NoWork => w.table = m,
         Backed(work, tables[m], db[m]) => Backed(w, u, db[m]),
         KeyBacked(work, tables[m], db[m]) => KeyBacked(w, u, db[m])
  PROVE  BackedInv' /\ KeyBackedInv'
<1>1. tables \in [Name -> Table \cup {None}] /\ tables[m] # None
  BY DEF SchemaInv, TypeOK, WorkOK
<1>2. WorkOf(m) = work /\ WorkOf(m)' = w /\ tables'[m] = u
  BY <1>1 DEF WorkOf
<1>3. \A n \in Name \ {m} : WorkOf(n)' = WorkOf(n) /\ tables'[n] = tables[n]
  BY <1>1 DEF WorkOf
<1>4. \A n \in Name \ blind' : tables'[n] # None => Backed(WorkOf(n)', tables'[n], db'[n])
  <2>1. ASSUME NEW n \in Name \ blind', tables'[n] # None
        PROVE  Backed(WorkOf(n)', tables'[n], db'[n])
    <3>1. CASE n = m
      BY <1>1, <1>2, <3>1 DEF BackedInv
    <3>2. CASE n # m
      BY <1>3, <2>1, <3>2 DEF BackedInv
    <3> QED
      BY <3>1, <3>2
  <2> QED
    BY <2>1
<1>5. \A n \in Name \ (blind' \cup keyless') : tables'[n] # None => KeyBacked(WorkOf(n)', tables'[n], db'[n])
  <2>1. ASSUME NEW n \in Name \ (blind' \cup keyless'), tables'[n] # None
        PROVE  KeyBacked(WorkOf(n)', tables'[n], db'[n])
    <3>1. CASE n = m
      BY <1>1, <1>2, <3>1 DEF KeyBackedInv
    <3>2. CASE n # m
      BY <1>3, <2>1, <3>2 DEF KeyBackedInv
    <3> QED
      BY <3>1, <3>2
  <2> QED
    BY <2>1
<1> QED
  BY <1>4, <1>5 DEF BackedInv, KeyBackedInv

LEMMA BodyItemBacked ==
  ASSUME SchemaInv, BackedInv, KeyBackedInv, BodyItem, UNCHANGED << db, blind, keyless >>
  PROVE  BackedInv' /\ KeyBackedInv'
<1> DEFINE w == Continue
           u == BodyApplied(Subject, Head(work.items), Here)
<1>1. work.kind = "body" /\ work.items # <<>>
  BY DEF BodyItem, Looping
<1>2. /\ work \in BodyWork /\ work # NoWork /\ work.table \in Name /\ work.items \in Seq(Item)
      /\ Subject \in Table /\ Here \in Position
  BY <1>1, BodyContext
<1>3. w.kind = "body" /\ w.table = work.table /\ w.items = Tail(work.items)
  BY <1>1, <1>2, HeadAndTail, BodyContinued
<1>4. tables' = [tables EXCEPT ![work.table] = u] /\ work' = w
  BY DEF BodyItem, BodyApplied, Put
<1> HIDE DEF w
<1>5. /\ Backed(work, Subject, db[work.table]) => Backed(w, u, db[work.table])
      /\ KeyBacked(work, Subject, db[work.table]) => KeyBacked(w, u, db[work.table])
  BY <1>1, <1>2, <1>3, BodyBacked
<1> HIDE DEF u
<1> QED
  BY <1>2, <1>3, <1>4, <1>5, LoopPutBacked DEF Subject

LEMMA LoopEndBacked ==
  ASSUME SchemaInv, BackedInv, KeyBackedInv, BodyEnd \/ AlterEnd, UNCHANGED << db, blind, keyless >>
  PROVE  BackedInv' /\ KeyBackedInv'
<1> DEFINE p == ReadPartitioning(work.tail)
           u == IF work.kind = "body" THEN [Subject EXCEPT !.partition = p] ELSE Subject
<1>1. work.kind \in {"body", "alter"} /\ work.items = <<>> /\ work' = NoWork
  BY DEF BodyEnd, AlterEnd
<1>2. work # NoWork /\ work.table \in Name /\ Subject \in Table
  BY <1>1, BodyContext, AlterContext
<1>3. tables \in [Name -> Table \cup {None}]
  BY DEF SchemaInv, TypeOK
<1>4. u.cols = Subject.cols /\ u.key = Subject.key
  BY <1>2 DEF Table
<1>5. tables' = [tables EXCEPT ![work.table] = u]
  <2>1. CASE BodyEnd
    BY <2>1 DEF BodyEnd, Put
  <2>2. CASE AlterEnd
    <3>1. tables' = tables /\ work.kind = "alter"
      BY <2>2 DEF AlterEnd
    <3> QED
      BY <1>2, <1>3, <3>1 DEF Subject
  <2> QED
    BY <2>1, <2>2
<1> HIDE DEF u
<1>6. Names(u) = Names(Subject)
  BY <1>4 DEF Names
<1>7. Dropped(<<>>) = {}
  BY DEF Dropped
<1>8. Staying(work, Subject) = Names(Subject)
  BY <1>1, <1>7 DEF Staying
<1>9. /\ Backed(work, Subject, db[work.table]) => Backed(NoWork, u, db[work.table])
      /\ KeyBacked(work, Subject, db[work.table]) => KeyBacked(NoWork, u, db[work.table])
  BY <1>4, <1>6, <1>8, NoWorkBacked DEF Backed, KeyBacked
<1> QED
  BY <1>1, <1>2, <1>5, <1>9, LoopPutBacked DEF Subject

LEMMA AlterLoopBacked ==
  ASSUME SchemaInv, BackedInv, KeyBackedInv, UNCHANGED << db, blind, keyless >>,
         AlterAddExisting \/ AlterAdd \/ AlterDrop \/ AlterSkip \/ AlterUnread
  PROVE  BackedInv' /\ KeyBackedInv'
<1> DEFINE part == Head(work.items)
<1>1. work.kind = "alter" /\ work.items # <<>>
  BY DEF AlterAddExisting, AlterAdd, AlterDrop, AlterSkip, AlterUnread, Looping
<1>2. /\ work \in AlterWork /\ work # NoWork /\ work.table \in Name /\ work.items \in Seq(Part)
      /\ Subject \in Table /\ tables \in [Name -> Table \cup {None}]
  BY <1>1, AlterContext DEF SchemaInv, TypeOK
<1>3. [tables EXCEPT ![work.table] = Subject] = tables
  BY <1>2, SMTT(30) DEF Subject
<1>4. \E adding \in BOOLEAN, satisfies \in BOOLEAN :
        work' = [Continue EXCEPT !.adding = adding, !.satisfied = satisfies]
  <2>1. CASE AlterAddExisting
    <3>1. work' = [Continue EXCEPT !.adding = TRUE, !.satisfied = work.satisfied] /\ work.satisfied \in BOOLEAN
      BY <1>2, <2>1 DEF AlterAddExisting, Continue, AlterWork
    <3> QED
      BY <3>1
  <2>2. CASE AlterAdd \/ AlterDrop \/ AlterSkip \/ AlterUnread
    BY <2>2 DEF AlterAdd, AlterDrop, AlterSkip, AlterUnread
  <2> QED
    BY <2>1, <2>2
<1>5. PICK w : work' = w /\ w.kind = "alter" /\ w.table = work.table /\ w.items = Tail(work.items)
  BY <1>1, <1>2, <1>4, Continued
<1>6. \E u : tables' = [tables EXCEPT ![work.table] = u] /\ PartExtended(Subject, work.items, u)
  <2>1. CASE AlterAddExisting
    <3>1. IsAdd(part) /\ tables' = tables
      BY <2>1, AddsAdd DEF AlterAddExisting
    <3>2. PartExtended(Subject, work.items, Subject)
      BY <1>1, <1>2, <3>1, AddingParts, SameExtended
    <3> QED
      BY <1>3, <3>1, <3>2
  <2>2. CASE AlterAdd
    <3>1. IsAdd(part) /\ ~(part.item.kind = "column" /\ part.item.name \in Names(Subject))
      BY <2>2, AddsAdd DEF AlterAdd, AlreadyThere
    <3>2. PartExtended(Subject, work.items, ApplyItem(Subject, part.item, Here))
      BY <1>1, <1>2, <3>1, AddExtended
    <3> QED
      BY <2>2, <3>2 DEF AlterAdd, Put
  <2>3. CASE AlterDrop
    <3>1. PartExtended(Subject, work.items, DropColumn(Subject, part.column))
      BY <1>1, <1>2, <2>3, DropExtended DEF AlterDrop
    <3> QED
      BY <2>3, <3>1 DEF AlterDrop, Put
  <2>4. CASE AlterSkip
    <3>1. part.verb # "drop" /\ tables' = tables
      BY <2>4 DEF AlterSkip
    <3>2. PartExtended(Subject, work.items, Subject)
      BY <1>1, <1>2, <3>1, SameExtended
    <3> QED
      BY <1>3, <3>1, <3>2
  <2>5. CASE AlterUnread
    <3> DEFINE u == MarkUnproven(Subject, "unreducedStatement", Here)
    <3>1. part.verb # "drop" /\ tables' = [tables EXCEPT ![work.table] = u]
      BY <2>5 DEF AlterUnread, Put
    <3>2. Names(u) = Names(Subject) /\ u.key = Subject.key
      BY <1>2, MarkedExtended
    <3> HIDE DEF u
    <3>3. PartExtended(Subject, work.items, u)
      BY <1>1, <1>2, <3>1, <3>2, SameExtended
    <3> QED
      BY <3>1, <3>3
  <2> QED
    BY <2>1, <2>2, <2>3, <2>4, <2>5
<1>7. PICK u : tables' = [tables EXCEPT ![work.table] = u] /\ PartExtended(Subject, work.items, u)
  BY <1>6
<1>8. /\ Backed(work, Subject, db[work.table]) => Backed(w, u, db[work.table])
      /\ KeyBacked(work, Subject, db[work.table]) => KeyBacked(w, u, db[work.table])
  BY <1>1, <1>2, <1>5, <1>7, PartBacked
<1> QED
  BY <1>2, <1>5, <1>7, <1>8, LoopPutBacked DEF Subject

LEMMA LoopBacked ==
  ASSUME SchemaInv, BackedInv, KeyBackedInv, Loop, UNCHANGED << db, blind, keyless >>
  PROVE  BackedInv' /\ KeyBackedInv'
BY BodyItemBacked, LoopEndBacked, AlterLoopBacked DEF Loop

-----------------------------------------------------------------------------
(* A table that is not in the schema.                                      *)

\* A statement leaves each table as it was, or as a table, but for the one it drops.
LEMMA StatementPuts ==
  ASSUME SchemaInv, NEW st \in Statement, ReadStatement(st), ~DropTable(st), NEW n \in Name, tables[n] # None
  PROVE  tables'[n] # None
<1>1. /\ Apply(st) /\ At(st, 0) \in Position /\ tables \in [Name -> Table \cup {None}]
      /\ \A m \in Name : GetMentioned(m, At(st, 0)) \in Table
  BY ReadContext, MentionedReadably
<1>2. /\ "unreducedStatement" \in Reason /\ "malformedBody" \in Reason /\ "partitionChild" \in Reason
  BY DEF Reason
<1>3. SUFFICES tables'[n] = tables[n] \/ tables'[n] \in Table
  BY NoneAssumption
<1>4. \A m, t : Put(m, t) /\ t \in Table => tables'[n] = tables[n] \/ tables'[n] \in Table
  BY <1>1 DEF Put
<1>5. CASE CreateTable(st)
  <2>1. st.name \in Name
    BY <1>5, WhatIsRead DEF CreateTable
  <2>2. tables[st.name] # None => MarkUnproven(tables[st.name], "unreducedStatement", At(st, 0)) \in Table
    BY <1>1, <1>2, <2>1, MarkedTyped
  <2>3. NewTable(At(st, 0)) \in Table /\ MarkUnproven(NewTable(At(st, 0)), "malformedBody", At(st, 0)) \in Table
    BY <1>1, <1>2, NewTableTyped, MarkedTyped
  <2>4. \/ UNCHANGED tables
        \/ tables[st.name] # None /\ Put(st.name, MarkUnproven(tables[st.name], "unreducedStatement", At(st, 0)))
        \/ Put(st.name, MarkUnproven(NewTable(At(st, 0)), "malformedBody", At(st, 0)))
        \/ Put(st.name, NewTable(At(st, 0)))
    BY <1>5 DEF CreateTable
  <2> QED
    BY <1>4, <2>2, <2>3, <2>4
<1>6. CASE CreatePartitionOf(st)
  <2> DEFINE p == [declared |-> TRUE, strategy |-> None, of |-> st.parent]
             g == GetTable(st.name, At(st, 0))
             h == [g EXCEPT !.partition = p]
  <2>1. st.name \in Name /\ st.parent \in Name
    BY <1>6, WhatIsRead DEF CreatePartitionOf
  <2>2. p \in [declared : BOOLEAN, strategy : Strategy \cup {None}, of : Name \cup {None}]
    BY <2>1
  <2>3. g \in Table
    BY <1>1, <2>1, NewTableTyped DEF GetTable
  <2>4. Put(st.name, MarkUnproven(h, "partitionChild", At(st, 0)))
    BY <1>6 DEF CreatePartitionOf
  <2> HIDE DEF g, p
  <2>5. h \in Table
    BY <2>2, <2>3 DEF Table
  <2> HIDE DEF h
  <2>6. MarkUnproven(h, "partitionChild", At(st, 0)) \in Table
    BY <1>1, <1>2, <2>5, MarkedTyped
  <2> QED
    BY <1>4, <2>4, <2>6
<1>7. CASE AlterTable(st)
  <2>1. st.name \in Name \cup {None}
    BY <1>7, WhatIsRead DEF AlterTable
  <2>2. UNCHANGED tables \/ (st.name # None /\ Put(st.name, GetMentioned(st.name, At(st, 0))))
    BY <1>7 DEF AlterTable
  <2> QED
    BY <1>1, <1>4, <2>1, <2>2
<1>8. ASSUME st.table \in Name \cup {None}, UnreadIndex(st)
      PROVE  tables'[n] = tables[n] \/ tables'[n] \in Table
  <2>1. CASE UNCHANGED tables
    BY <2>1
  <2>2. CASE /\ st.table # None
             /\ Put(st.table, IF tables[st.table] = None THEN GetMentioned(st.table, At(st, 0))
                              ELSE MarkUnproven(tables[st.table], "unreducedStatement", At(st, 0)))
    <3>1. tables[st.table] # None => MarkUnproven(tables[st.table], "unreducedStatement", At(st, 0)) \in Table
      BY <1>1, <1>2, <1>8, <2>2, MarkedTyped
    <3> QED
      BY <1>1, <1>4, <1>8, <2>2, <3>1
  <2> QED
    BY <1>8, <2>1, <2>2 DEF UnreadIndex
<1>9. CASE CreateIndex(st) \/ CreateColumnstore(st) \/ IndexShaped(st)
  <2>1. /\ CreateIndex(st) \/ CreateColumnstore(st) => st.table \in Name
        /\ st.table \in Name \cup {None}
    BY <1>9, WhatIsRead DEF CreateIndex, CreateColumnstore, IndexShaped
  <2>2. ASSUME NEW cols \in Seq(Column), NEW unique \in BOOLEAN, NEW method \in Method, st.table \in Name,
               AddIndex(st, cols, unique, method)
        PROVE  tables'[n] = tables[n] \/ tables'[n] \in Table
    <3> DEFINE g == GetMentioned(st.table, At(st, 0))
               x == [cols |-> cols, unique |-> unique, method |-> method, at |-> At(st, 0)]
    <3>1. g \in Table
      BY <1>1, <2>2
    <3>2. x \in [cols : Seq(Column), unique : BOOLEAN, method : Method, at : Position]
      BY <1>1, <2>2
    <3>3. Put(st.table, [g EXCEPT !.indexes = @ \cup {x}])
      BY <2>2 DEF AddIndex
    <3> HIDE DEF g, x
    <3>4. [g EXCEPT !.indexes = @ \cup {x}] \in Table
      BY <3>1, <3>2 DEF Table
    <3> QED
      BY <1>4, <3>3, <3>4
  <2>3. CASE UNCHANGED tables
    BY <2>3
  <2>4. CASE UnreadIndex(st)
    BY <1>8, <2>1, <2>4
  <2>5. CASE CreateIndex(st) /\ AddIndex(st, st.cols, st.unique, st.method)
    <3>1. st.table \in Name /\ st.cols \in Seq(Column) /\ st.unique \in BOOLEAN /\ st.method \in Method
      BY <2>5, WhatIsRead DEF CreateIndex
    <3> QED
      BY <2>2, <2>5, <3>1
  <2>6. CASE CreateColumnstore(st) /\ AddIndex(st, <<>>, FALSE, "columnstore")
    <3>1. <<>> \in Seq(Column) /\ FALSE \in BOOLEAN
      OBVIOUS
    <3>2. st.table \in Name /\ AddIndex(st, <<>>, FALSE, "columnstore")
      BY <2>1, <2>6
    <3> QED
      BY <2>2, <3>1, <3>2, MethodsGiven
  <2>7. \/ UnreadIndex(st) \/ UNCHANGED tables
        \/ CreateIndex(st) /\ AddIndex(st, st.cols, st.unique, st.method)
        \/ CreateColumnstore(st) /\ AddIndex(st, <<>>, FALSE, "columnstore")
    BY <1>9 DEF CreateIndex, CreateColumnstore, IndexShaped
  <2> QED
    BY <2>3, <2>4, <2>5, <2>6, <2>7
<1>10. CASE OfNoTable(st)
  BY <1>10 DEF OfNoTable, CreatePartitionScheme, CreatePartitionFunction, CreateSequence, CreateView,
     CreateRoutineOrTrigger, DataOrPermission, SessionScoped, TableShaped, Skip
<1> QED
  BY <1>1, <1>5, <1>6, <1>7, <1>9, <1>10 DEF Apply, OfNoTable

\* A table the database has not had is one it creates.
LEMMA Appears ==
  ASSUME SchemaInv, NEW st \in Statement, ReadStatement(st), NEW n \in Name \ blind', db[n] = None, db'[n] # None
  PROVE  st.does \in {"createTable", "createPartition"} /\ n = st.name
<1>1. /\ Accepts(st) /\ db \in Databases /\ db' = Execute(st) /\ blind' = blind \cup LosesTrackOf(st)
  BY ReadContext
<1>2. CASE st.does = "createTable"
  BY <1>1, <1>2, CreateExecuted
<1>3. CASE st.does = "createPartition"
  <2>1. db' = [db EXCEPT ![st.name] = db[st.parent]]
    BY <1>1, <1>3 DEF Execute
  <2> QED
    BY <1>1, <1>3, <2>1 DEF Databases
<1>4. CASE st.does = "alterTable"
  BY <1>1, <1>4, AlterExecuted
<1>5. CASE st.does = "renameTable"
  <2>1. LosesTrackOf(st) = {st.name, st.to}
    BY <1>5 DEF LosesTrackOf, Targets
  <2> QED
    BY <1>1, <1>5, <2>1, RenameExecuted
<1>6. CASE st.does = "createIndex"
  BY <1>1, <1>6, IndexExecuted
<1>7. CASE st.does = "dropTable"
  <2>1. db'[n] = IF \E i \in DOMAIN st.names : st.names[i] = n THEN None ELSE db[n]
    BY <1>1, <1>7 DEF Execute
  <2> QED
    BY <2>1
<1>8. CASE st.does = "dropIndex"
  BY <1>1, <1>8 DEF Execute
<1>9. CASE st.does = "nothing"
  BY <1>1, <1>9, NothingExecuted
<1>10. st.does \in {"createTable", "createPartition", "alterTable", "reshapeTable", "renameTable", "createIndex", "dropTable",
                   "dropIndex", "nothing"}
  BY BranchKinds, BranchMeans
<1>11. CASE st.does = "reshapeTable"
  <2>1. LosesTrackOf(st) = {st.name}
    BY <1>11 DEF LosesTrackOf, Targets
  <2> QED
    BY <1>1, <1>11, <2>1, ReshapeExecuted
<1> QED
  BY <1>2, <1>3, <1>4, <1>5, <1>6, <1>7, <1>8, <1>9, <1>10, <1>11

LEMMA UnreducedGrows ==
  ASSUME NEW st \in Statement, Apply(st)
  PROVE  /\ unreduced \subseteq unreduced'
         /\ Branch(st) = "tableShaped" => unreduced' # {}
<1>1. CASE CreateTable(st) \/ CreatePartitionOf(st) \/ CreatePartitionScheme(st) \/ CreatePartitionFunction(st)
  BY <1>1 DEF CreateTable, CreatePartitionOf, CreatePartitionScheme, CreatePartitionFunction, Undeclared
<1>2. CASE CreateSequence(st) \/ CreateView(st) \/ CreateRoutineOrTrigger(st) \/ AlterTable(st) \/ DropTable(st)
  BY <1>2 DEF CreateSequence, CreateView, CreateRoutineOrTrigger, AlterTable, DropTable, Undeclared
<1>3. CASE DataOrPermission(st) \/ SessionScoped(st) \/ TableShaped(st) \/ Skip(st)
  BY <1>3 DEF DataOrPermission, SessionScoped, TableShaped, Skip, RecordResidual
<1>4. CASE CreateIndex(st) \/ CreateColumnstore(st) \/ IndexShaped(st)
  BY <1>4 DEF CreateIndex, CreateColumnstore, IndexShaped, UnreadIndex, Undeclared
<1> QED
  BY <1>1, <1>2, <1>3, <1>4 DEF Apply

LEMMA CreatedIsPut ==
  ASSUME SchemaInv, NEW st \in Statement, ReadStatement(st), Branch(st) \in {"createTable", "partitionOf"}
  PROVE  tables'[st.name] # None
<1>1. /\ Apply(st) /\ At(st, 0) \in Position /\ tables \in [Name -> Table \cup {None}]
  BY ReadContext
<1>2. st.name \in Name
  BY WhatIsRead
<1>3. ~DropTable(st)
  BY DEF DropTable
<1>4. CASE tables[st.name] # None
  BY <1>2, <1>3, <1>4, StatementPuts
<1>5. CASE tables[st.name] = None /\ Branch(st) = "createTable"
  <2>1. CreateTable(st)
    BY <1>1, <1>5 DEF Apply, CreatePartitionOf, CreatePartitionScheme, CreatePartitionFunction, CreateSequence,
       CreateView, CreateRoutineOrTrigger, AlterTable, DataOrPermission, CreateIndex, CreateColumnstore,
       IndexShaped, DropTable, SessionScoped, TableShaped, Skip
  <2>2. "malformedBody" \in Reason
    BY DEF Reason
  <2>3. NewTable(At(st, 0)) \in Table /\ MarkUnproven(NewTable(At(st, 0)), "malformedBody", At(st, 0)) \in Table
    BY <1>1, <2>2, NewTableTyped, MarkedTyped
  <2>4. \E t \in Table : Put(st.name, t)
    BY <1>5, <2>1, <2>3 DEF CreateTable
  <2> QED
    BY <1>1, <1>2, <2>4, NoneAssumption DEF Put
<1>6. CASE tables[st.name] = None /\ Branch(st) = "partitionOf"
  <2> DEFINE p == [declared |-> TRUE, strategy |-> None, of |-> st.parent]
             g == NewTable(At(st, 0))
             h == [g EXCEPT !.partition = p]
  <2>1. CreatePartitionOf(st)
    BY <1>1, <1>6 DEF Apply, CreateTable, CreatePartitionScheme, CreatePartitionFunction, CreateSequence,
       CreateView, CreateRoutineOrTrigger, AlterTable, DataOrPermission, CreateIndex, CreateColumnstore,
       IndexShaped, DropTable, SessionScoped, TableShaped, Skip
  <2>2. Put(st.name, MarkUnproven(h, "partitionChild", At(st, 0)))
    BY <1>6, <2>1 DEF CreatePartitionOf, GetTable
  <2>3. st.parent \in Name
    BY <1>6, WhatIsRead
  <2>4. p \in [declared : BOOLEAN, strategy : Strategy \cup {None}, of : Name \cup {None}]
    BY <2>3
  <2>7. g \in Table
    BY <1>1, NewTableTyped
  <2> HIDE DEF p, g
  <2>5. h \in Table
    BY <2>4, <2>7 DEF Table
  <2>6. "partitionChild" \in Reason
    BY DEF Reason
  <2> HIDE DEF h
  <2>8. MarkUnproven(h, "partitionChild", At(st, 0)) \in Table
    BY <1>1, <2>5, <2>6, MarkedTyped
  <2> QED
    BY <1>1, <1>2, <2>2, <2>8, NoneAssumption DEF Put
<1> QED
  BY <1>4, <1>5, <1>6

LEMMA StatementTraced ==
  ASSUME SchemaInv, TraceInv, NEW st \in Statement, ReadStatement(st)
  PROVE  TraceInv'
<1>1. /\ Apply(st) /\ db' = Execute(st) /\ blind' = blind \cup LosesTrackOf(st)
  BY ReadContext
<1>2. unreduced \subseteq unreduced' /\ (Branch(st) = "tableShaped" => unreduced' # {})
  BY <1>1, UnreducedGrows
<1>3. ASSUME NEW n \in Name \ (blind' \cup Found), db'[n] # None, tables'[n] = None
      PROVE  unreduced' # {}
  <2>1. CASE db[n] = None
    <3>1. st.does \in {"createTable", "createPartition"} /\ n = st.name
      BY <1>3, <2>1, Appears
    <3>2. Branch(st) \in {"createTable", "partitionOf", "tableShaped", "default"}
      BY <3>1, OnlyBranch
    <3>3. Branch(st) # "default"
      <4>1. ASSUME Branch(st) = "default"
            PROVE  n \in LosesTrackOf(st)
        BY <3>1, <4>1, BranchMeans DEF LosesTrackOf, Targets
      <4> QED
        BY <1>1, <4>1
    <3> QED
      BY <1>2, <1>3, <3>1, <3>2, <3>3, CreatedIsPut
  <2>2. CASE db[n] # None /\ tables[n] = None
    BY <1>1, <1>2, <1>3, <2>2 DEF TraceInv
  <2>3. CASE tables[n] # None
    <3>1. DropTable(st)
      BY <1>3, <2>3, StatementPuts
    <3>2. st.does = "dropTable" /\ st.names \in Seq(Name) \ {<<>>} /\ tables' = [tables EXCEPT ![Head(st.names)] = None]
      BY <3>1, BranchMeans, WhatIsRead DEF DropTable, Put
    <3>3. n = Head(st.names)
      BY <1>3, <2>3, <3>2, ReadContext
    <3>4. 1 \in DOMAIN st.names /\ st.names[1] = n
      BY <3>2, <3>3
    <3>5. db'[n] = IF \E i \in DOMAIN st.names : st.names[i] = n THEN None ELSE db[n]
      BY <1>1, <3>2 DEF Execute
    <3> QED
      BY <1>3, <3>4, <3>5
  <2> QED
    BY <2>1, <2>2, <2>3
<1> QED
  BY <1>3 DEF TraceInv

LEMMA LoopHolds ==
  ASSUME SchemaInv, Loop, UNCHANGED << db, blind, keyless >>
  PROVE  /\ \A n \in Name : tables[n] # None => tables'[n] # None
         /\ UNCHANGED unreduced
<1>1. work # NoWork /\ tables \in [Name -> Table \cup {None}] /\ work.table \in Name
  BY BodyContext, AlterContext
     DEF Loop, BodyItem, BodyEnd, AlterAddExisting, AlterAdd, AlterDrop, AlterSkip, AlterUnread, AlterEnd,
         Looping, SchemaInv, TypeOK
<1>2. UNCHANGED unreduced
  BY DEF Loop, BodyItem, BodyEnd, AlterAddExisting, AlterAdd, AlterDrop, AlterSkip, AlterUnread, AlterEnd, InLoop
<1>3. ASSUME NEW n \in Name, tables[n] # None
      PROVE  tables'[n] # None
  <2>1. CASE n # work.table
    <3>1. \A t : Put(work.table, t) => tables'[n] = tables[n]
      BY <1>1, <2>1 DEF Put
    <3>2. tables' = tables \/ \E t : Put(work.table, t)
      BY DEF Loop, BodyItem, BodyEnd, AlterAddExisting, AlterAdd, AlterDrop, AlterSkip, AlterUnread, AlterEnd
    <3> QED
      BY <1>3, <3>1, <3>2
  <2>2. CASE n = work.table /\ AlterEnd
    BY <1>3, <2>2 DEF AlterEnd
  <2>3. CASE n = work.table /\ BodyEnd
    <3> DEFINE p == ReadPartitioning(work.tail)
    <3>1. work \in BodyWork /\ Subject \in Table
      BY <2>3, BodyContext DEF BodyEnd
    <3>2. work.tail \in TailClause
      BY <3>1 DEF BodyWork
    <3>3. p \in [declared : BOOLEAN, strategy : Strategy \cup {None}, of : Name \cup {None}]
      BY <3>2 DEF ReadPartitioning, TailClause, NoPartition, SchemaInv, PartitionsOK
    <3>4. tables'[n] = [Subject EXCEPT !.partition = p]
      BY <1>1, <2>3 DEF BodyEnd, Put
    <3> HIDE DEF p
    <3>5. [Subject EXCEPT !.partition = p] \in Table
      BY <3>1, <3>3 DEF Table
    <3> QED
      BY <3>4, <3>5, NoneAssumption
  <2>4. CASE n = work.table /\ ~AlterEnd /\ ~BodyEnd
    <3>1. work' # NoWork /\ work'.table = work.table
      <4>1. CASE BodyItem
        <5>1. work.kind = "body" /\ work.items # <<>> /\ work' = Continue
          BY <4>1 DEF BodyItem, Looping
        <5>2. work \in BodyWork /\ Tail(work.items) \in Seq(Item)
          BY <5>1, BodyContext, HeadAndTail
        <5>3. Continue.kind = "body" /\ Continue.table = work.table
          BY <5>2, BodyContinued
        <5> QED
          BY <5>1, <5>3 DEF NoWork
      <4>2. CASE AlterAddExisting \/ AlterAdd \/ AlterDrop \/ AlterSkip \/ AlterUnread
        <5>1. work.kind = "alter" /\ work.items # <<>>
          BY <4>2 DEF AlterAddExisting, AlterAdd, AlterDrop, AlterSkip, AlterUnread, Looping
        <5>2. work \in AlterWork
          BY <5>1, AlterContext
        <5>3. /\ work'.kind = Continue.kind /\ work'.table = Continue.table
          BY <4>2, <5>2 DEF AlterAddExisting, AlterAdd, AlterDrop, AlterSkip, AlterUnread, Continue, AlterWork
        <5>4. Continue.kind = "alter" /\ Continue.table = work.table
          BY <5>1, <5>2 DEF Continue, AlterWork
        <5> QED
          BY <5>3, <5>4 DEF NoWork
      <4> QED
        BY <2>4, <4>1, <4>2 DEF Loop
    <3>2. Kept'
      BY LoopKept
    <3> QED
      BY <2>4, <3>1, <3>2 DEF Kept, WorkOK
  <2> QED
    BY <2>1, <2>2, <2>3, <2>4
<1> QED
  BY <1>2, <1>3

LEMMA LoopTraced ==
  ASSUME SchemaInv, TraceInv, Loop, UNCHANGED << db, blind, keyless >>
  PROVE  TraceInv'
<1>1. /\ \A n \in Name : tables[n] # None => tables'[n] # None
      /\ UNCHANGED unreduced
  BY LoopHolds
<1> QED
  BY <1>1 DEF TraceInv

-----------------------------------------------------------------------------
(* The census.                                                             *)

Counts(f) == IF f = file THEN 1 ELSE 0

LEMMA CensusTyped ==
  ASSUME SchemaInv, NEW f \in File
  PROVE  total[f] \in Nat /\ satisfied[f] \in Nat /\ silent[f] \in Nat /\ Accounted(f) \in Nat
BY DEF SchemaInv, TypeOK, Accounted

\* What a statement adds to the census: one statement, and at most one that is accounted for.
LEMMA StatementCounted ==
  ASSUME SchemaInv, NEW st \in Statement, ReadStatement(st), NEW f \in File
  PROVE  /\ file' = file /\ total'[f] = total[f] + Counts(f)
         /\ Accounted(f)' + Working(f)' <= Accounted(f) + Counts(f)
<1>1. Apply(st) /\ work = NoWork /\ work.kind = "none"
  BY ReadContext DEF NoWork
<1>2. /\ satisfied \in [File -> Nat] /\ silent \in [File -> Nat] /\ total \in [File -> Nat] /\ file \in File
  BY DEF SchemaInv, TypeOK
<1>3. file' = file /\ total' = [total EXCEPT ![file] = @ + 1]
  BY <1>1, StatementTaken DEF Take
<1>4. CASE work'.kind # "alter" /\ satisfied' \in {satisfied, [satisfied EXCEPT ![file] = @ + 1]} /\ silent' = silent
  BY <1>2, <1>3, <1>4 DEF Accounted, Working, Counts
<1>5. CASE work'.kind # "alter" /\ silent' \in {silent, [silent EXCEPT ![file] = @ + 1]} /\ satisfied' = satisfied
  BY <1>2, <1>3, <1>5 DEF Accounted, Working, Counts
<1>6. CASE silent' = silent /\ satisfied' = satisfied
  BY <1>2, <1>3, <1>6 DEF Accounted, Working, Counts
<1>7. CASE CreateTable(st)
  <2>1. satisfied' \in {satisfied, [satisfied EXCEPT ![file] = @ + 1]} /\ silent' = silent
    BY <1>7 DEF CreateTable
  <2>2. work' = work \/ work' = NewBody(st)
    BY <1>7 DEF CreateTable, NewBody
  <2>3. NewBody(st).kind = "body"
    BY DEF NewBody, NoWork
  <2> QED
    BY <1>1, <1>4, <2>1, <2>2, <2>3
<1>8. CASE DataOrPermission(st)
  <2>1. silent' = [silent EXCEPT ![file] = @ + 1] /\ satisfied' = satisfied /\ work' = work
    BY <1>8 DEF DataOrPermission, NoLoop
  <2> QED
    BY <1>1, <1>5, <2>1
<1>9. CASE ~CreateTable(st) /\ ~DataOrPermission(st)
  BY <1>1, <1>6, <1>9 DEF Apply, CreatePartitionOf, CreatePartitionScheme, CreatePartitionFunction, CreateSequence,
     CreateView, CreateRoutineOrTrigger, AlterTable, CreateIndex, CreateColumnstore, IndexShaped, DropTable,
     SessionScoped, TableShaped, Skip, Unaccounted
<1> QED
  BY <1>2, <1>3, <1>7, <1>8, <1>9 DEF Counts

\* A statement that changes the database, none of the tables lost, is not accounted for.
LEMMA ChangeUnaccounted ==
  ASSUME SchemaInv, BackedInv, NEW st \in Statement, ReadStatement(st), blind' = {}, db' # db
  PROVE  /\ UNCHANGED << satisfied, silent >>
         /\ ~Idling(work', tables'[work'.table])
<1>1. /\ Apply(st) /\ work = NoWork /\ work.kind = "none" /\ Accepts(st) /\ db \in Databases /\ db' = Execute(st)
      /\ blind' = blind \cup LosesTrackOf(st) /\ At(st, 0) \in Position
      /\ tables \in [Name -> Table \cup {None}]
  BY ReadContext DEF NoWork
<1>2. st.does # "nothing" /\ LosesTrackOf(st) = {} /\ blind = {}
  BY <1>1, NothingExecuted
<1>3. work'.kind # "alter" => ~Idling(work', tables'[work'.table])
  BY DEF Idling
<1>4. CASE CreateTable(st)
  <2>1. Branch(st) = "createTable" /\ st.does = "createTable" /\ st.name \in Name
    BY <1>4, WhatIsRead, BranchMeans DEF CreateTable
  <2>2. ~(tables[st.name] # None /\ st.guarded)
    <3>1. ASSUME tables[st.name] # None, st.guarded
          PROVE  FALSE
      <4>1. db[st.name] # None
        BY <1>2, <2>1, <3>1 DEF LosesTrackOf
      <4>2. Execute(st) = db
        BY <2>1, <4>1 DEF Execute
      <4> QED
        BY <1>1, <4>2
    <3> QED
      BY <3>1
  <2>3. UNCHANGED << satisfied, silent >>
    BY <1>4, <2>2 DEF CreateTable
  <2>4. work' = work \/ work' = NewBody(st)
    BY <1>4 DEF CreateTable, NewBody
  <2>5. NewBody(st).kind = "body"
    BY DEF NewBody, NoWork
  <2> QED
    BY <1>1, <1>3, <2>3, <2>4, <2>5
<1>5. CASE DataOrPermission(st)
  <2>1. st.does = "nothing"
    BY <1>5, MeaningAssumption DEF DataOrPermission, Means
  <2> QED
    BY <1>2, <2>1
<1>6. CASE AlterTable(st)
  <2>1. UNCHANGED << satisfied, silent >>
    BY <1>6 DEF AlterTable, Unaccounted
  <2>2. Branch(st) = "alterTable" /\ st.parts \in Seq(Part) /\ st.does \in {"alterTable", "reshapeTable", "renameTable", "nothing"}
    BY <1>6, WhatIsRead, BranchMeans DEF AlterTable
  <2>3. st.does = "alterTable"
    BY <1>2, <2>2 DEF LosesTrackOf
  <2> DEFINE n == st.name
             t == GetMentioned(n, At(st, 0))
             d == db[n]
  <2>4. n \in Name /\ d # None /\ Execute(st) = [db EXCEPT ![n] = Altered(@, st.parts)]
    BY <1>1, <2>3, WhatItSays, AlterExecuted DEF Execute
  <2>5. d \in DBTable
    BY <1>1, <2>4 DEF Databases
  <2>6. CASE work' = work
    BY <1>1, <1>3, <2>1, <2>6
  <2>7. CASE Alters(st)
    <3>1. work' = NewParts(st) /\ tables'[n] = t
      BY <1>1, <2>4, <2>7 DEF Alters
    <3>2. NewParts(st).table = n /\ NewParts(st).items = st.parts
      BY DEF NewParts, NoWork
    <3>3. Same(tables[n], t) /\ t # None
      BY <1>1, <2>4, MentionedSame, NoneAssumption
    <3>4. tables[n] # None => Backed(NoWork, tables[n], d)
      <4>1. WorkOf(n) = NoWork
        BY <1>1 DEF WorkOf
      <4> QED
        BY <1>2, <2>4, <4>1 DEF BackedInv
    <3>5. Grown(d, d)
      BY DEF Grown
    <3>6. Names(t) \subseteq d.cols
      BY <2>4, <3>3, <3>4, <3>5, SameBacked, NoWorkBacked, SMTT(30) DEF ColumnsOf
    <3> HIDE DEF t
    <3>7. ASSUME Idling(NewParts(st), t)
          PROVE  FALSE
      <4>1. NoDrops(st.parts) /\ Effective(Names(t), st.parts) = {}
        BY <3>2, <3>7 DEF Idling
      <4>2. Altered(d, st.parts) = d
        BY <2>2, <2>5, <3>6, <4>1, IdleParts
      <4> QED
        BY <1>1, <2>4, <4>2 DEF Databases
    <3> QED
      BY <2>1, <3>1, <3>2, <3>7
  <2> QED
    BY <1>6, <2>2, <2>4, <2>6, <2>7 DEF AlterTable, Alters, NewParts, Put
<1>7. CASE ~CreateTable(st) /\ ~DataOrPermission(st) /\ ~AlterTable(st)
  <2>1. UNCHANGED << satisfied, silent, work >>
    BY <1>1, <1>7 DEF Apply, CreatePartitionOf, CreatePartitionScheme, CreatePartitionFunction, CreateSequence,
       CreateView, CreateRoutineOrTrigger, CreateIndex, CreateColumnstore, IndexShaped, DropTable,
       SessionScoped, TableShaped, Skip, Unaccounted, NoLoop
  <2> QED
    BY <1>1, <1>3, <2>1
<1> QED
  BY <1>4, <1>5, <1>6, <1>7

LEMMA OwingIsWorking ==
  ASSUME NEW f
  PROVE  /\ Owing(f) \in 0 .. 1 /\ Working(f) \in 0 .. 1 /\ Owing(f) <= Working(f)
         /\ Owing(f)' \in 0 .. 1 /\ Working(f)' \in 0 .. 1 /\ Owing(f)' <= Working(f)'
         /\ Counts(f) \in 0 .. 1
BY DEF Owing, Working, Idling, Counts

LEMMA CensusAfter ==
  ASSUME SchemaInv', NEW f \in File
  PROVE  total'[f] \in Nat /\ satisfied'[f] \in Nat /\ silent'[f] \in Nat /\ Accounted(f)' \in Nat
BY DEF SchemaInv, TypeOK, Accounted

LEMMA StatementCensus ==
  ASSUME SchemaInv, BackedInv, CensusInv, ChangedInv, NEW st \in Statement, ReadStatement(st)
  PROVE  CensusInv' /\ ChangedInv'
<1>1. SchemaInv' /\ work = NoWork /\ work.kind = "none" /\ blind' = blind \cup LosesTrackOf(st) /\ changed' \subseteq File
  <2>1. SchemaInv' /\ work = NoWork /\ blind' = blind \cup LosesTrackOf(st)
    BY StatementInvariant, ReadContext
  <2>2. changed' \subseteq File
    BY <2>1 DEF SchemaInv, TypeOK
  <2> QED
    BY <2>1, <2>2 DEF NoWork
<1>2. \A f \in File : Working(f) = 0 /\ Owing(f) = 0
  BY <1>1 DEF Working, Owing, Idling
<1>3. ASSUME NEW f \in File
      PROVE  Accounted(f)' + Working(f)' <= total'[f]
  <2>1. Accounted(f) + Working(f) <= total[f]
    BY DEF CensusInv
  <2> QED
    BY <1>1, <1>2, <2>1, StatementCounted, CensusTyped, CensusAfter, OwingIsWorking
<1>4. ASSUME blind' = {}, NEW f \in changed'
      PROVE  Accounted(f)' + Owing(f)' < total'[f]
  <2>1. f \in File
    BY <1>1
  <2>2. CASE f \in changed
    <3>1. Accounted(f) + Owing(f) < total[f]
      BY <1>1, <1>4, <2>2 DEF ChangedInv
    <3>2. Owing(f)' <= Working(f)' /\ Owing(f) = 0
      BY <1>2, <2>1, OwingIsWorking
    <3> QED
      BY <1>1, <2>1, <3>1, <3>2, StatementCounted, CensusTyped, CensusAfter, OwingIsWorking
  <2>3. CASE f \notin changed
    <3>1. f = file /\ db' # db
      BY <1>4, <2>3 DEF ReadStatement
    <3>2. UNCHANGED << satisfied, silent >> /\ ~Idling(work', tables'[work'.table])
      BY <1>4, <3>1, ChangeUnaccounted
    <3>3. Accounted(f)' = Accounted(f) /\ Owing(f)' = 0
      BY <3>2 DEF Accounted, Owing
    <3>4. Accounted(f) + Working(f) <= total[f] /\ Counts(f) = 1
      BY <2>1, <3>1 DEF CensusInv, Counts
    <3> QED
      BY <1>2, <2>1, <3>3, <3>4, StatementCounted, CensusTyped
  <2> QED
    BY <2>2, <2>3
<1> QED
  BY <1>3, <1>4 DEF CensusInv, ChangedInv

\* A step of a loop that is not its end.
LEMMA LoopContinued ==
  ASSUME SchemaInv, UNCHANGED << db, blind, keyless >>, Loop, ~BodyEnd, ~AlterEnd
  PROVE  /\ UNCHANGED << file, total, satisfied, silent >>
         /\ work'.kind = work.kind
         /\ Idling(work', tables'[work'.table]) => Idling(work, tables[work.table])
<1>1. UNCHANGED << file, total, satisfied, silent >>
  BY DEF Loop, BodyItem, AlterAddExisting, AlterAdd, AlterDrop, AlterSkip, AlterUnread, InLoop
<1>2. CASE BodyItem
  <2>1. work.kind = "body" /\ work.items # <<>> /\ work' = Continue
    BY <1>2 DEF BodyItem, Looping
  <2>2. work \in BodyWork /\ Tail(work.items) \in Seq(Item)
    BY <2>1, BodyContext, HeadAndTail
  <2>3. Continue.kind = "body"
    BY <2>2, BodyContinued
  <2> QED
    BY <1>1, <2>1, <2>3 DEF Idling
<1>3. CASE AlterAddExisting \/ AlterAdd \/ AlterDrop \/ AlterSkip \/ AlterUnread
  <2>1. work.kind = "alter" /\ work.items # <<>>
    BY <1>3 DEF AlterAddExisting, AlterAdd, AlterDrop, AlterSkip, AlterUnread, Looping
  <2>2. work \in AlterWork /\ work.items \in Seq(Part)
    BY <2>1, AlterContext
  <2>3. /\ Continue.kind = "alter" /\ Continue.table = work.table /\ Continue.items = Tail(work.items)
        /\ Continue.satisfied = work.satisfied
    BY <2>1, <2>2 DEF Continue, AlterWork
  <2>4. work'.kind = Continue.kind
    BY <1>3, <2>2 DEF AlterAddExisting, AlterAdd, AlterDrop, AlterSkip, AlterUnread, Continue, AlterWork
  <2>5. CASE AlterAddExisting
    <3>1. work' = [Continue EXCEPT !.adding = TRUE] /\ tables' = tables
      BY <2>5 DEF AlterAddExisting
    <3>2. /\ work'.table = work.table /\ work'.items = Tail(work.items) /\ work'.satisfied = work.satisfied
      BY <2>2, <2>3, <3>1 DEF Continue, AlterWork
    <3>3. /\ IsAdd(Head(work.items)) /\ Head(work.items).item.kind = "column"
          /\ Head(work.items).item.name \in Names(Subject)
      BY <2>5, AddsAdd DEF AlterAddExisting, AlreadyThere
    <3>4. NoDrops(Tail(work.items)) /\ Effective(Names(Subject), Tail(work.items)) = {}
             => NoDrops(work.items) /\ Effective(Names(Subject), work.items) = {}
      BY <2>1, <2>2, <3>3, IdleStep
    <3> QED
      BY <1>1, <2>1, <2>3, <2>4, <3>1, <3>2, <3>4 DEF Idling, Subject
  <2>6. CASE AlterAdd \/ AlterDrop \/ AlterSkip \/ AlterUnread
    <3>1. work'.satisfied = FALSE
      BY <2>2, <2>6 DEF AlterAdd, AlterDrop, AlterSkip, AlterUnread, Continue, AlterWork
    <3> QED
      BY <1>1, <2>1, <2>3, <2>4, <3>1 DEF Idling
  <2> QED
    BY <1>3, <2>5, <2>6
<1> QED
  BY <1>2, <1>3 DEF Loop

LEMMA LoopCensus ==
  ASSUME SchemaInv, CensusInv, ChangedInv, Loop, UNCHANGED << db, blind, changed, keyless >>
  PROVE  CensusInv' /\ ChangedInv'
<1>1. SchemaInv' /\ changed \subseteq File
  BY LoopInvariant DEF SchemaInv, TypeOK
<1>2. UNCHANGED << file, total, silent >>
  BY DEF Loop, BodyItem, BodyEnd, AlterAddExisting, AlterAdd, AlterDrop, AlterSkip, AlterUnread, AlterEnd, InLoop
<1>3. ASSUME NEW f \in File
      PROVE  /\ Accounted(f)' + Working(f)' <= Accounted(f) + Working(f)
             /\ Accounted(f)' + Owing(f)' <= Accounted(f) + Owing(f)
  <2>1. CASE ~BodyEnd /\ ~AlterEnd
    <3>1. /\ UNCHANGED << file, total, satisfied, silent >>
          /\ work'.kind = work.kind
          /\ Idling(work', tables'[work'.table]) => Idling(work, tables[work.table])
      BY <2>1, LoopContinued
    <3>2. Accounted(f)' = Accounted(f) /\ Working(f)' = Working(f) /\ Owing(f)' <= Owing(f)
      BY <3>1 DEF Accounted, Working, Owing
    <3> QED
      BY <3>2, CensusTyped, OwingIsWorking
  <2>2. CASE BodyEnd \/ AlterEnd
    <3>1. work'.kind = "none"
      BY <2>2 DEF BodyEnd, AlterEnd, NoWork
    <3>2. Working(f)' = 0 /\ Owing(f)' = 0
      BY <3>1 DEF Working, Owing, Idling
    <3>3. CASE satisfied' = satisfied
      <4>1. Accounted(f)' = Accounted(f)
        BY <1>2, <3>3 DEF Accounted
      <4> QED
        BY <3>2, <4>1, CensusTyped, OwingIsWorking
    <3>4. CASE AlterEnd /\ work.satisfied /\ satisfied' = [satisfied EXCEPT ![file] = @ + 1]
      <4>1. work.kind = "alter" /\ work.items = <<>>
        BY <3>4 DEF AlterEnd
      <4>2. NoDrops(<<>>) /\ \A C : Effective(C, <<>>) = {}
        BY DEF NoDrops, Effective
      <4>3. Idling(work, tables[work.table])
        BY <3>4, <4>1, <4>2 DEF Idling
      <4>4. Working(f) = Counts(f) /\ Owing(f) = Counts(f)
        BY <4>1, <4>3 DEF Working, Owing, Counts
      <4>5. satisfied \in [File -> Nat]
        BY DEF SchemaInv, TypeOK
      <4>6. satisfied'[f] = satisfied[f] + Counts(f)
        BY <3>4, <4>5, CensusTyped DEF Counts
      <4>7. Accounted(f)' = Accounted(f) + Counts(f)
        BY <1>2, <4>6, CensusTyped, OwingIsWorking DEF Accounted
      <4> QED
        BY <3>2, <4>4, <4>7, CensusTyped, OwingIsWorking
    <3> QED
      BY <2>2, <3>3, <3>4 DEF BodyEnd, AlterEnd
  <2> QED
    BY <2>1, <2>2
<1>4. ASSUME NEW f \in File
      PROVE  Accounted(f)' + Working(f)' <= total'[f]
  <2>1. Accounted(f) + Working(f) <= total[f]
    BY DEF CensusInv
  <2> QED
    BY <1>1, <1>2, <1>3, <2>1, CensusTyped, CensusAfter, OwingIsWorking
<1>5. ASSUME blind' = {}, NEW f \in changed'
      PROVE  Accounted(f)' + Owing(f)' < total'[f]
  <2>1. f \in File /\ Accounted(f) + Owing(f) < total[f]
    BY <1>1, <1>5 DEF ChangedInv
  <2> QED
    BY <1>1, <1>2, <1>3, <2>1, CensusTyped, CensusAfter, OwingIsWorking
<1> QED
  BY <1>4, <1>5 DEF CensusInv, ChangedInv

-----------------------------------------------------------------------------
(* The invariant of an audit.                                              *)

LEMMA AuditStart ==
  ASSUME DInit
  PROVE  AuditInv
<1>1. SchemaInv /\ (\A n \in Name : tables[n] = None) /\ work = NoWork /\ work.kind = "none"
  BY InitInvariant DEF DInit, Init, NoWork
<1>2. BackedInv /\ KeyBackedInv
  BY <1>1 DEF BackedInv, KeyBackedInv
<1>3. TraceInv
  BY DEF DInit, TraceInv, Found
<1>4. \A f \in File : satisfied[f] = 0 /\ silent[f] = 0 /\ total[f] = 0
  BY DEF DInit, Init
<1>5. CensusInv /\ ChangedInv
  BY <1>1, <1>4 DEF CensusInv, ChangedInv, Accounted, Working, DInit
<1> QED
  BY <1>1, <1>2, <1>3, <1>5 DEF AuditInv

\* The next source, or a step of something else: no loop is then, or everything is as it was.
LEMMA SameAudit ==
  ASSUME AuditInv, SchemaInv', file' = file \/ work = NoWork,
         UNCHANGED << work, tables, unreduced, total, satisfied, silent, db, blind, changed, keyless >>
  PROVE  AuditInv'
<1>1. BackedInv' /\ KeyBackedInv'
  BY DEF AuditInv, BackedInv, KeyBackedInv, WorkOf
<1>2. TraceInv'
  BY DEF AuditInv, TraceInv
<1>3. \A f \in File : Accounted(f)' = Accounted(f) /\ Working(f)' = Working(f) /\ Owing(f)' = Owing(f)
  BY DEF Accounted, Working, Owing, Idling, NoWork
<1>4. changed \subseteq File
  BY DEF AuditInv, SchemaInv, TypeOK
<1>5. CensusInv'
  BY <1>3 DEF AuditInv, CensusInv
<1>6. ChangedInv'
  BY <1>3, <1>4 DEF AuditInv, ChangedInv
<1> QED
  BY <1>1, <1>2, <1>5, <1>6 DEF AuditInv

LEMMA AuditStep ==
  ASSUME AuditInv, [DNext]_allVars
  PROVE  AuditInv'
<1>1. SchemaInv'
  BY StepInvariant DEF AuditInv
<1>2. CASE \E st \in Statement : ReadStatement(st)
  BY <1>1, <1>2, StatementBacked, StatementTraced, StatementCensus DEF AuditInv
<1>3. CASE Loop /\ UNCHANGED << db, blind, changed, keyless >>
  BY <1>1, <1>3, LoopBacked, LoopTraced, LoopCensus DEF AuditInv
<1>4. CASE NextFile /\ UNCHANGED << db, blind, changed, keyless >>
  BY <1>1, <1>4, SameAudit DEF NextFile, Idle
<1>5. CASE UNCHANGED allVars
  BY <1>1, <1>5, SameAudit DEF allVars, vars
<1> QED
  BY <1>2, <1>3, <1>4, <1>5 DEF DNext

\* DatabaseAudit, of the tables no form of LosesTrackOf was said of: the database has the columns the
\* reducer has and, where it has a key and none was lost (LosesKey), a key too; a table the reducer
\* misses left a statement or was found; and what changed the database is not accounted for.
THEOREM AuditInvariant == DSpec => []AuditInv
<1>1. DInit => AuditInv
  BY AuditStart
<1>2. AuditInv /\ [DNext]_allVars => AuditInv'
  BY AuditStep
<1> QED
  BY <1>1, <1>2, PTL DEF DSpec

-----------------------------------------------------------------------------
(* What codefit says of what it could not read.                            *)

LEMMA TwoAtMost ==
  ASSUME NEW a, NEW b, NEW S, S \subseteq {a, b}
  PROVE  Cardinality(S) < 3
<1>1. IsFiniteSet({a}) /\ Cardinality({a}) = 1
  BY FS_Singleton
<1>2. IsFiniteSet({a} \cup {b}) /\ Cardinality({a} \cup {b}) = IF b \in {a} THEN Cardinality({a}) ELSE Cardinality({a}) + 1
  BY <1>1, FS_AddElement
<1>3. {a} \cup {b} = {a, b}
  OBVIOUS
<1>4. IsFiniteSet(S) /\ Cardinality(S) <= Cardinality({a, b})
  BY <1>2, <1>3, FS_Subset
<1>5. Cardinality(S) \in Nat
  BY <1>4, FS_CardinalityType
<1> QED
  BY <1>1, <1>2, <1>3, <1>4, <1>5

\* A source the note names is not left out for others that are defects too.
LEMMA DefectsAreNoted ==
  ASSUME NEW u \in Unread, u.reason \in Defect
  PROVE  u \in UnreadNote
<1> DEFINE S == {q \in Reasons \ {u.reason} : ComesFirst(q, u.reason)}
<1>1. S \subseteq Defect \ {u.reason}
  BY DEF ComesFirst
<1>2. \E a, b : Defect \ {u.reason} = {a, b}
  <2>1. CASE u.reason = "notText"
    <3>1. Defect \ {u.reason} = {"nothingRecognized", "resolvedNoFiles"}
      BY <2>1 DEF Defect
    <3> QED
      BY <3>1
  <2>2. CASE u.reason = "nothingRecognized"
    <3>1. Defect \ {u.reason} = {"notText", "resolvedNoFiles"}
      BY <2>2 DEF Defect
    <3> QED
      BY <3>1
  <2>3. CASE u.reason = "resolvedNoFiles"
    <3>1. Defect \ {u.reason} = {"notText", "nothingRecognized"}
      BY <2>3 DEF Defect
    <3> QED
      BY <3>1
  <2> QED
    BY <2>1, <2>2, <2>3 DEF Defect
<1> HIDE DEF S
<1>3. PICK a, b : Defect \ {u.reason} = {a, b}
  BY <1>2
<1>4. S \subseteq {a, b}
  BY <1>1, <1>3
<1>5. Cardinality(S) < 3
  BY <1>4, TwoAtMost
<1> QED
  BY <1>5 DEF UnreadNote, S, completenessInventoryReasonCap

LEMMA ChangedSeen ==
  ASSUME AuditInv
  PROVE  ChangedSourcesAreSeen
<1>1. ASSUME NEW f \in changed, blind = {}, f \notin Contributing
      PROVE  \E x \in Note.unread : x.file = f /\ x.reason \in Defect
  <2>1. f \in File /\ SchemaInv
    BY DEF AuditInv, SchemaInv, TypeOK
  <2>2. Accounted(f) + Owing(f) < total[f]
    BY <1>1 DEF AuditInv, ChangedInv
  <2>3. total[f] > Accounted(f) /\ total[f] # 0
    BY <2>1, <2>2, CensusTyped, OwingIsWorking
  <2>4. ~(total[f] <= Accounted(f))
    BY <2>1, <2>3, CensusTyped
  <2>5. ReasonFor(f) \in Defect
    BY <2>3, <2>4 DEF ReasonFor, Defect
  <2>6. PICK p \in DOMAIN Paths : f \in Paths[p]
    BY <2>1, PathsAssumption
  <2> DEFINE r == ReasonFor(f)
             u == [path |-> p, file |-> f, reason |-> r]
  <2>7. u \in Unread
    BY <1>1, <2>6 DEF Unread
  <2> HIDE DEF r
  <2>8. u.file = f /\ u.reason = r
    OBVIOUS
  <2> HIDE DEF u
  <2>9. u.reason \in Defect
    BY <2>5, <2>8 DEF r
  <2>10. u \in UnreadNote
    BY <2>7, <2>9, DefectsAreNoted
  <2>11. Note.unread = UnreadNote
    BY DEF Note
  <2> QED
    BY <2>8, <2>9, <2>10, <2>11
<1> QED
  BY <1>1 DEF ChangedSourcesAreSeen

LEMMA FilteredIsRead ==
  ASSUME NEW x \in FilteredColumnNoIndex(Schema) \cup NoCompositeIndex(Schema)
  PROVE  x[1] \in DOMAIN Schema
<1>1. PICK f \in Filter : x = <<f.model, RealColumns(Schema, f)>>
  BY DEF FilteredColumnNoIndex, NoCompositeIndex
<1>2. x[1] = f.model /\ x[2] = RealColumns(Schema, f)
  BY <1>1
<1>3. x[2] # {}
  BY FiltersUnanswered DEF Unanswered
<1> QED
  BY <1>2, <1>3 DEF RealColumns

LEMMA NothingPassed ==
  ASSUME AuditInv
  PROVE  NothingIsPassedOver
<1> SUFFICES ASSUME AllRead, Note.measured
             PROVE  LET s == Schema  note == Note.completeness  asked == UnprovenTable(s)
                    IN  /\ \A n \in Name \ (blind \cup keyless) : db[n] # None /\ db[n].keys = {} =>
                             IF tables[n] = None THEN n \in Found \/ note.statements # {}
                             ELSE n \in NoPrimaryKey(s) \cup asked
                        /\ \A g \in note.groups : g.routed = g.tables \cap asked
                        /\ \A x \in FilteredColumnNoIndex(s) \cup NoCompositeIndex(s) :
                             s[x[1]].proven \/ note.exception
  BY DEF NothingIsPassedOver
<1> DEFINE s == Schema
           note == Note.completeness
           asked == UnprovenTable(s)
           unproven == {n \in DOMAIN s : ~s[n].proven}
           named == {[tables |-> g, routed |-> Routed(g)] : g \in Groups}
<1>1. note = CompletenessNote
  BY DEF Note
<1>2. /\ note.statements = unreduced /\ note.groups \subseteq named
      /\ note.exception = (Groups # {} \/ unreduced # {})
  BY <1>1 DEF CompletenessNote
<1> HIDE DEF note
<1>3. ASSUME NEW n \in Name \ (blind \cup keyless), db[n] # None, db[n].keys = {}
      PROVE  IF tables[n] = None THEN n \in Found \/ note.statements # {}
             ELSE n \in NoPrimaryKey(s) \cup asked
  <2>1. CASE tables[n] = None
    BY <1>2, <1>3, <2>1 DEF AuditInv, TraceInv
  <2>2. CASE tables[n] # None
    <3>1. WorkOf(n) = NoWork
      BY DEF AllRead, Idle, WorkOf
    <3>2. KeyBacked(NoWork, tables[n], db[n])
      BY <2>2, <3>1 DEF AuditInv, KeyBackedInv
    <3>3. tables[n].key = <<>>
      BY <1>3, <3>2, NoWorkBacked DEF HasKey
    <3>4. n \in DOMAIN Schema
      BY <2>2 DEF Schema
    <3>5. Schema[n].key = <<>>
      BY <3>3, <3>4, SchemaRead
    <3> QED
      BY <2>2, <3>4, <3>5 DEF NoPrimaryKey, UnprovenTable
  <2> QED
    BY <2>1, <2>2
<1>4. ASSUME NEW g \in note.groups
      PROVE  g.routed = g.tables \cap asked
  <2>1. PICK group \in Groups : g = [tables |-> group, routed |-> Routed(group)]
    BY <1>2
  <2>2. group \subseteq unproven
    BY DEF Groups
  <2>3. \A n \in unproven : n \in DOMAIN Schema /\ Schema[n].key = tables[n].key
    BY SchemaRead
  <2>4. Routed(group) = group \cap asked
    BY <2>2, <2>3 DEF Routed, UnprovenTable
  <2> QED
    BY <2>1, <2>4
<1>5. ASSUME NEW x \in FilteredColumnNoIndex(s) \cup NoCompositeIndex(s)
      PROVE  s[x[1]].proven \/ note.exception
  <2>1. x[1] \in DOMAIN Schema
    BY FilteredIsRead
  <2>2. ASSUME ~s[x[1]].proven
        PROVE  Groups # {}
    <3>1. x[1] \in unproven
      BY <2>1, <2>2
    <3>2. {m \in unproven : NoteOf(m) = NoteOf(x[1])} \in Groups
      BY <3>1 DEF Groups
    <3> QED
      BY <3>2
  <2> QED
    BY <1>2, <2>2
<1> QED
  BY <1>3, <1>4, <1>5 DEF note

\* DatabaseAudit: a source that changed the database is never declared to have nothing to say, of
\* whatever statements it is, while no form of LosesTrackOf was said of any table.
THEOREM ChangedAlwaysSeen == DSpec => []ChangedSourcesAreSeen
BY AuditInvariant, ChangedSeen, PTL

\* DatabaseAudit: what codefit cannot say of a table, it says it cannot: a table without a key is
\* affirmed, asked about or missing with a statement in the note (but for the tables found, those of
\* LosesTrackOf and those of LosesKey), and no question is asked over an unproven table without the
\* note's exception.
THEOREM NothingEverPassedOver == DSpec => []NothingIsPassedOver
BY AuditInvariant, NothingPassed, PTL
=============================================================================
