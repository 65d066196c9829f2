---------------------------- MODULE SetupProofs ----------------------------
(***************************************************************************)
(* What codefit init writes and says, for every project, every set of      *)
(* migrations and every number of edits.                                   *)
(***************************************************************************)
EXTENDS ProjectSetup, FiniteSetTheorems, WellFoundedInduction, TLAPS

\* A set of numbers has a least one.
LEMMA Least ==
  ASSUME NEW S \in SUBSET Nat, S # {}
  PROVE  \E n \in S : \A m \in S : n <= m
<1>1. PICK n \in S : \A m \in S : ~ (<<m, n>> \in OpToRel(<, Nat))
  BY NatLessThanWellFounded, WFMin
<1>2. \A m \in S : ~ (m < n)
  BY <1>1 DEF OpToRel
<1> QED
  BY <1>2

-----------------------------------------------------------------------------
(* The files of a directory and their order. *)

\* Any two files have an order, and it is a strict one.
LEMMA FilesAreOrdered ==
  /\ \A f \in File : ~ Before(f, f)
  /\ \A f, g \in File : f # g => Before(f, g) \/ Before(g, f)
  /\ \A f, g, h \in File : Before(f, g) /\ Before(g, h) => Before(f, h)
BY FilesAssumption DEF Before

\* Of two files the earlier one has fewer before it.
LEMMA EarlierHasFewer ==
  ASSUME NEW S \in SUBSET File, NEW f \in S, NEW g \in S, Before(f, g)
  PROVE  Cardinality({h \in S : Before(h, f)}) < Cardinality({h \in S : Before(h, g)})
<1> DEFINE BeforeF == {h \in S : Before(h, f)}
           BeforeG == {h \in S : Before(h, g)}
<1>1. BeforeF \subseteq BeforeG /\ f \in BeforeG /\ f \notin BeforeF
  BY FilesAreOrdered
<1>2. IsFiniteSet(BeforeG)
  BY FilesAssumption, FS_Subset
<1>3. /\ IsFiniteSet(BeforeF) /\ Cardinality(BeforeF) <= Cardinality(BeforeG)
      /\ Cardinality(BeforeF) = Cardinality(BeforeG) => BeforeF = BeforeG
  BY <1>1, <1>2, FS_Subset
<1>4. Cardinality(BeforeF) \in Nat /\ Cardinality(BeforeG) \in Nat
  BY <1>2, <1>3, FS_CardinalityType
<1> QED
  BY <1>1, <1>3, <1>4

\* Every place in the order is taken by a file of the directory.
LEMMA FilesInOrder ==
  ASSUME NEW d \in Dir, tree[d] \in SUBSET File
  PROVE  /\ IsFiniteSet(tree[d]) /\ Cardinality(tree[d]) \in Nat
         /\ flywayOrderedSQL(d) \in [1 .. Cardinality(tree[d]) -> tree[d]]
<1> DEFINE S == tree[d]
           n == Cardinality(S)
           Earlier(f) == {g \in S : Before(g, f)}
           earlier == [f \in S |-> Cardinality(Earlier(f))]
           place == [f \in S |-> earlier[f] + 1]
<1>1. IsFiniteSet(S) /\ n \in Nat
  BY FilesAssumption, FS_Subset, FS_CardinalityType
<1>2. earlier \in [S -> 0 .. n - 1]
  <2> SUFFICES ASSUME NEW f \in S PROVE Cardinality(Earlier(f)) \in 0 .. n - 1
    OBVIOUS
  <2>1. Earlier(f) \subseteq S \ {f}
    BY FilesAreOrdered
  <2>2. IsFiniteSet(S \ {f}) /\ Cardinality(S \ {f}) = n - 1
    BY <1>1, FS_RemoveElement
  <2>3. IsFiniteSet(Earlier(f)) /\ Cardinality(Earlier(f)) <= n - 1
    BY <2>1, <2>2, FS_Subset
  <2>4. Cardinality(Earlier(f)) \in Nat
    BY <2>3, FS_CardinalityType
  <2> QED
    BY <1>1, <2>3, <2>4
<1>3. \A f, g \in S : f # g => earlier[f] # earlier[g]
  <2> SUFFICES ASSUME NEW f \in S, NEW g \in S, Before(f, g) PROVE earlier[f] < earlier[g]
    <3> HIDE DEF earlier
    <3> QED
      BY <1>1, <1>2, FilesAreOrdered
  <2> QED
    BY EarlierHasFewer
<1>4. \A i \in 1 .. n : \E f \in S : earlier[f] = i - 1
  <2> HIDE DEF earlier
  <2>1. place \in [S -> 1 .. n] /\ \A f, g \in S : f # g => place[f] # place[g]
    BY <1>1, <1>2, <1>3
  <2>2. place \in Injection(S, 1 .. n)
    BY <2>1 DEF Injection, IsInjective
  <2>3. IsFiniteSet(1 .. n) /\ Cardinality(1 .. n) = n
    BY <1>1, FS_Interval
  <2>4. place \in Surjection(S, 1 .. n)
    BY <2>2, <2>3, FS_Injection
  <2>5. \A i \in 1 .. n : \E f \in S : place[f] = i
    BY <2>4 DEF Surjection
  <2>6. \A f \in S : place[f] = earlier[f] + 1 /\ earlier[f] \in Int
    BY <1>1, <1>2
  <2> HIDE DEF place
  <2> QED
    BY <1>1, <2>5, <2>6
<1>5. \A i \in 1 .. n : \E f \in S : Cardinality(Earlier(f)) = i - 1
  BY <1>4
<1> QED
  BY <1>1, <1>5 DEF flywayOrderedSQL

-----------------------------------------------------------------------------
(* Reading the sources of one directory. *)

\* Reading is defined for every number of sources.
LEMMA ReadingExists ==
  ASSUME NEW parser, NEW sources, NEW N \in Nat
  PROVE  \E read : read = [n \in 0 .. N |->
                             IF n = 0 THEN Nothing ELSE Apply(read[n - 1], sources[n], parser)]
<1> DEFINE Reads(read, k) == read = [n \in 0 .. k |->
                               IF n = 0 THEN Nothing ELSE Apply(read[n - 1], sources[n], parser)]
           Bad == {k \in Nat : ~ \E read : Reads(read, k)}
<1> SUFFICES ASSUME Bad # {} PROVE FALSE
  OBVIOUS
<1>1. PICK k \in Bad : \A m \in Bad : k <= m
  BY Least
<1>2. k # 0
  <2>1. Reads([n \in 0 .. 0 |-> Nothing], 0)
    OBVIOUS
  <2> QED
    BY <1>1, <2>1
<1>3. PICK read : Reads(read, k - 1)
  BY <1>1, <1>2
<1> DEFINE more == [n \in 0 .. k |-> IF n = k THEN Apply(read[k - 1], sources[k], parser) ELSE read[n]]
<1>4. \A n \in 0 .. k : more[n] = IF n = 0 THEN Nothing ELSE Apply(more[n - 1], sources[n], parser)
  <2> SUFFICES ASSUME NEW n \in 0 .. k
               PROVE  more[n] = IF n = 0 THEN Nothing ELSE Apply(more[n - 1], sources[n], parser)
    OBVIOUS
  <2>1. CASE n = k
    BY <1>1, <1>2, <2>1
  <2>2. CASE n # k
    <3>1. n \in 0 .. k - 1 /\ (n # 0 => n - 1 \in 0 .. k - 1)
      BY <1>1, <1>2, <2>2
    <3>2. read[n] = IF n = 0 THEN Nothing ELSE Apply(read[n - 1], sources[n], parser)
      BY <1>3, <3>1
    <3>3. more[n] = read[n] /\ (n # 0 => more[n - 1] = read[n - 1])
      BY <1>1, <1>2, <2>2, <3>1
    <3> QED
      BY <3>2, <3>3
  <2> QED
    BY <2>1, <2>2
<1>5. Reads(more, k)
  BY <1>4
<1> QED
  BY <1>1, <1>5

\* What parsing finds is what the last reading leaves.
LEMMA Parsing ==
  ASSUME NEW parser, NEW sources, Len(sources) \in Nat
  PROVE  \E read :
           /\ read = [n \in 0 .. Len(sources) |->
                        IF n = 0 THEN Nothing ELSE Apply(read[n - 1], sources[n], parser)]
           /\ ParseSchema(parser, sources) = read[Len(sources)]
<1> DEFINE read == CHOOSE f : f = [n \in 0 .. Len(sources) |->
                     IF n = 0 THEN Nothing ELSE Apply(f[n - 1], sources[n], parser)]
<1>1. ParseSchema(parser, sources) = read[Len(sources)]
  BY DEF ParseSchema
<1>2. \E f : f = [n \in 0 .. Len(sources) |->
                     IF n = 0 THEN Nothing ELSE Apply(f[n - 1], sources[n], parser)]
  BY ReadingExists
<1>3. read = [n \in 0 .. Len(sources) |->
                IF n = 0 THEN Nothing ELSE Apply(read[n - 1], sources[n], parser)]
  BY <1>2
<1> QED
  BY <1>1, <1>3

\* The tables are finitely many, each under a name of its own, and all that is recorded comes
\* from the directory.
From(d, schema) ==
  /\ schema = [tables |-> schema.tables, unreduced |-> schema.unreduced]
  /\ IsFiniteSet(schema.tables)
  /\ \A t \in schema.tables : t = <<t[1], t[2]>> /\ t[2][1] = d
  /\ \A t, u \in schema.tables : t[1] = u[1] => t = u
  /\ \A s \in schema.unreduced : s[1] = d

\* A file of the directory leaves it so.
LEMMA ApplyFrom ==
  ASSUME NEW d, NEW schema, From(d, schema), NEW f \in File, NEW parser, parser # "prisma"
  PROVE  From(d, Apply(schema, <<d, f>>, parser))
<1> DEFINE kept == {t \in schema.tables : t[1] \notin Drops[f]}
           new  == {c \in Creates[f] : \A t \in kept : t[1] # c}
           added == {<<c, <<d, f>>>> : c \in new}
<1>1. CASE parser \in ReadBy[f]
  <2>1. Apply(schema, <<d, f>>, parser) = [tables |-> kept \cup added, unreduced |-> schema.unreduced]
    BY <1>1 DEF Apply, From
  <2>2. IsFiniteSet(kept) /\ IsFiniteSet(new)
    BY FilesAssumption, FS_Subset DEF From
  <2>3. IsFiniteSet(added)
    <3>1. [c \in new |-> <<c, <<d, f>>>>] \in Surjection(new, added)
      BY DEF Surjection
    <3> QED
      BY <2>2, <3>1, FS_Surjection
  <2>4. IsFiniteSet(kept \cup added)
    BY <2>2, <2>3, FS_Union
  <2>5. \A t \in kept \cup added : t = <<t[1], t[2]>> /\ t[2][1] = d
    BY DEF From
  <2>6. \A t, u \in kept \cup added : t[1] = u[1] => t = u
    <3> SUFFICES ASSUME NEW t \in kept \cup added, NEW u \in kept \cup added, t[1] = u[1]
                 PROVE  t = u
      OBVIOUS
    <3>1. CASE t \in kept /\ u \in kept
      BY <3>1 DEF From
    <3>2. CASE t \in added /\ u \in added
      BY <3>2
    <3>3. ~ (t \in kept /\ u \in added) /\ ~ (u \in kept /\ t \in added)
      OBVIOUS
    <3> QED
      BY <3>1, <3>2, <3>3
  <2>7. \A s \in schema.unreduced : s[1] = d
    BY DEF From
  <2> DEFINE after == Apply(schema, <<d, f>>, parser)
  <2> HIDE DEF kept, added
  <2>8. /\ after = [tables |-> after.tables, unreduced |-> after.unreduced]
        /\ after.tables = kept \cup added /\ after.unreduced = schema.unreduced
    BY <2>1
  <2> HIDE DEF after
  <2>9. From(d, after)
    BY <2>4, <2>5, <2>6, <2>7, <2>8 DEF From
  <2> QED
    BY <2>9 DEF after
<1>2. CASE parser \notin ReadBy[f]
  BY <1>2, SMTT(30) DEF Apply, From
<1> QED
  BY <1>1, <1>2

\* So reading a whole directory does.
LEMMA DirectoryFrom ==
  ASSUME NEW d \in Dir, tree[d] \in SUBSET File, NEW parser, parser # "prisma"
  PROVE  From(d, ParseSchema(parser, Sources(d)))
<1> DEFINE N == Cardinality(tree[d])
           source == Sources(d)
<1>1. /\ N \in Nat /\ DOMAIN source = 1 .. N
      /\ \A i \in 1 .. N : source[i] = <<d, flywayOrderedSQL(d)[i]>> /\ flywayOrderedSQL(d)[i] \in File
  BY FilesInOrder, FilesAssumption DEF Sources
<1>2. Len(source) = N
  BY <1>1
<1> HIDE DEF source
<1>3. PICK read :
        /\ read = [n \in 0 .. N |-> IF n = 0 THEN Nothing ELSE Apply(read[n - 1], source[n], parser)]
        /\ ParseSchema(parser, source) = read[N]
  BY <1>1, <1>2, Parsing
<1> DEFINE Bad == {n \in 0 .. N : ~ From(d, read[n])}
<1>4. Bad = {}
  <2> SUFFICES ASSUME Bad # {} PROVE FALSE
    OBVIOUS
  <2>0. Bad \in SUBSET Nat
    BY <1>1
  <2>1. PICK k \in Bad : \A m \in Bad : k <= m
    BY <2>0, Least
  <2>2. CASE k = 0
    <3>1. read[k] = Nothing
      BY <1>1, <1>3, <2>2
    <3>2. From(d, Nothing)
      BY FS_EmptySet DEF From, Nothing
    <3> QED
      BY <2>1, <3>1, <3>2
  <2>3. CASE k # 0
    <3>1. k - 1 \in 0 .. N /\ k \in 1 .. N /\ k - 1 < k
      BY <1>1, <2>1, <2>3
    <3>2. From(d, read[k - 1])
      BY <2>1, <3>1
    <3>3. read[k] = Apply(read[k - 1], source[k], parser)
      BY <1>3, <2>3, <3>1
    <3> QED
      BY <1>1, <2>1, <3>1, <3>2, <3>3, ApplyFrom
  <2> QED
    BY <2>2, <2>3
<1>5. From(d, read[N])
  BY <1>1, <1>4
<1> QED
  BY <1>3, <1>5 DEF source

-----------------------------------------------------------------------------
(* What a directory proves, and what an audit of it answers. *)

TreeOK == tree \in [Dir -> (SUBSET File) \cup {None}]

\* The tables an audit finds in a directory.
TablesOf(d) == ParseSchema("postgresql", Sources(d)).tables

\* A sequence of one path has that path.
LEMMA OnlyOne == \A d : ToSet(<<d>>) = {d}
BY DEF ToSet

\* A directory selects the SQL parser, of PostgreSQL unless a type is configured.
LEMMA DirectorySelectsSQL ==
  ASSUME NEW d \in Dir, tree[d] # None
  PROVE  ParserForPaths(<<d>>, "") = "postgresql" /\ "postgresql" # None
<1>1. ToSet(<<d>>) = {d}
  BY OnlyOne
<1>2. classifySchemaPath(d) = "sql"
  BY FilesAssumption DEF classifySchemaPath
<1>3. {classifySchemaPath(p) : p \in ToSet(<<d>>)} = {"sql"}
  BY <1>1, <1>2
<1> QED
  BY <1>3, NoneAssumption DEF ParserForPaths, sqlDialectParser

\* A directory proves its order by the names of its files, and then counts the tables.
LEMMA WhatIsProven ==
  ASSUME NEW d \in Dir, tree[d] # None, TreeOK
  PROVE  /\ Prove(d) = [ordered |-> Prove(d).ordered, sqlFiles |-> Prove(d).sqlFiles,
                        tables |-> Prove(d).tables]
         /\ tree[d] \in SUBSET File
         /\ Prove(d).ordered <=> tree[d] # {} /\ \A f \in tree[d] : Version[f] # None
         /\ Prove(d).sqlFiles \in Nat /\ (Prove(d).sqlFiles > 0 <=> tree[d] # {})
         /\ Prove(d).tables \in Nat
         /\ Prove(d).ordered =>
              /\ Prove(d).tables = Cardinality(TablesOf(d))
              /\ Prove(d).tables = 0 <=> TablesOf(d) = {}
<1>1. tree[d] \in SUBSET File
  BY DEF TreeOK
<1>2. IsFiniteSet(tree[d]) /\ Cardinality(tree[d]) \in Nat
  BY <1>1, FilesInOrder
<1>3. Cardinality(tree[d]) > 0 <=> tree[d] # {}
  BY <1>2, FS_EmptySet
<1>4. IsFiniteSet(TablesOf(d))
  BY <1>1, DirectoryFrom DEF TablesOf, From
<1>5. Cardinality(TablesOf(d)) \in Nat /\ (Cardinality(TablesOf(d)) = 0 <=> TablesOf(d) = {})
  BY <1>4, FS_CardinalityType, FS_EmptySet
<1>6. Prove(d) = [ordered |-> OrderingIsProven(tree[d]), sqlFiles |-> Cardinality(tree[d]),
                  tables |-> IF OrderingIsProven(tree[d]) THEN Cardinality(TablesOf(d)) ELSE 0]
  BY DirectorySelectsSQL DEF Prove, TablesOf
<1>7. /\ Prove(d).ordered = OrderingIsProven(tree[d]) /\ Prove(d).sqlFiles = Cardinality(tree[d])
      /\ Prove(d).tables = IF OrderingIsProven(tree[d]) THEN Cardinality(TablesOf(d)) ELSE 0
      /\ Prove(d) = [ordered |-> Prove(d).ordered, sqlFiles |-> Prove(d).sqlFiles,
                     tables |-> Prove(d).tables]
  BY <1>6
<1>8. OrderingIsProven(tree[d]) <=> tree[d] # {} /\ \A f \in tree[d] : Version[f] # None
  BY DEF OrderingIsProven
<1>9. OrderingIsProven(tree[d]) \in BOOLEAN
  BY DEF OrderingIsProven
<1>10. CASE OrderingIsProven(tree[d])
  BY <1>1, <1>2, <1>3, <1>5, <1>7, <1>8, <1>10
<1>11. CASE ~ OrderingIsProven(tree[d])
  BY <1>1, <1>2, <1>3, <1>7, <1>8, <1>9, <1>11
<1> QED
  BY <1>10, <1>11

\* The sources of one path alone are its sources.
LEMMA OnePath ==
  ASSUME NEW d, NEW paths, paths = <<d>>
  PROVE  FlattenSeq([k \in DOMAIN paths |-> Sources(paths[k])]) = Sources(d)
<1> DEFINE seqs == [k \in DOMAIN paths |-> Sources(paths[k])]
           f == CHOOSE f : f = [i \in 1 .. Len(seqs) |->
                              IF i = 1 THEN seqs[i] ELSE f[i - 1] \o seqs[i]]
<1>1. Len(seqs) = 1 /\ seqs[1] = Sources(d)
  OBVIOUS
<1> HIDE DEF seqs
<1>2. FlattenSeq(seqs) = f[1]
  BY <1>1 DEF FlattenSeq
<1> DEFINE g == [i \in 1 .. 1 |-> seqs[1]]
<1>3. g = [i \in 1 .. 1 |-> IF i = 1 THEN seqs[i] ELSE g[i - 1] \o seqs[i]]
  OBVIOUS
<1>4. \E h : h = [i \in 1 .. Len(seqs) |-> IF i = 1 THEN seqs[i] ELSE h[i - 1] \o seqs[i]]
  BY <1>1, <1>3
<1>5. f = [i \in 1 .. Len(seqs) |-> IF i = 1 THEN seqs[i] ELSE f[i - 1] \o seqs[i]]
  BY <1>4
<1>6. f[1] = seqs[1]
  BY <1>1, <1>5
<1> QED
  BY <1>1, <1>2, <1>6 DEF seqs

\* What an answer says.
LEMMA AnswerFields ==
  \A x, status, tables : x = Answer(status, tables) => x.status = status /\ x.tables = tables
BY DEF Answer

\* An audit that cannot read a file of its one directory finds no table.
LEMMA DirectoryUnread ==
  ASSUME NEW d \in Dir, tree[d] # None, tree[d] \cap Unreadable # {},
         NEW cfg, cfg # None, Valid(cfg), cfg.paths = <<d>>, cfg.type = ""
  PROVE  ScanDB(cfg).tables = {}
<1>1. ToSet(<<d>>) = {d} /\ <<d>> # <<>>
  BY OnlyOne
<1>2. Missing(d)
  BY FilesAssumption DEF Missing
<1>3. ScanDB(cfg) = Answer("error", {})
  BY <1>1, <1>2, DirectorySelectsSQL DEF ScanDB
<1> QED
  BY <1>3, AnswerFields

\* An audit of one directory finds the tables it counts, and measures it when there are any.
LEMMA DirectoryMeasured ==
  ASSUME NEW d \in Dir, tree[d] # None, tree[d] \cap Unreadable = {}, TreeOK,
         NEW cfg, cfg # None, Valid(cfg), cfg.paths = <<d>>, cfg.type = ""
  PROVE  /\ TablesOf(d) = {} => ScanDB(cfg).tables = {}
         /\ TablesOf(d) # {} => ScanDB(cfg).status = "measured"
         /\ TablesOf(d) # {} => Cardinality(ScanDB(cfg).tables) = Cardinality(TablesOf(d))
<1> DEFINE schema == ParseSchema("postgresql", Sources(d))
           names == {t[1] : t \in schema.tables}
<1>1. From(d, schema)
  BY DirectoryFrom, WhatIsProven
<1>2. ToSet(<<d>>) = {d} /\ <<d>> # <<>>
  BY OnlyOne
<1>3. ~ Missing(d)
  BY FilesAssumption DEF Missing
<1>4. ScanDB(cfg) = Audit(<<d>>, "postgresql")
  BY <1>2, <1>3, DirectorySelectsSQL DEF ScanDB
<1>5. Audit(<<d>>, "postgresql") = IF \E s \in Contributing(schema) : s[1] = d
                                  THEN Answer("measured", names) ELSE Answer("notMeasured", {})
  <2>1. ParseSchema("postgresql", FlattenSeq([k \in DOMAIN <<d>> |-> Sources(<<d>>[k])])) = schema
    BY OnePath
  <2> QED
    BY <1>2, <2>1 DEF Audit
<1>6. schema.tables # {} => \E s \in Contributing(schema) : s[1] = d
  <2>1. \A t \in schema.tables : t[2] \in Contributing(schema) /\ t[2][1] = d
    BY <1>1 DEF From, Contributing
  <2> QED
    BY <2>1
<1>7. schema.tables = {} => names = {}
  OBVIOUS
<1>8. Cardinality(names) = Cardinality(schema.tables)
  <2> DEFINE name == [t \in schema.tables |-> t[1]]
  <2>1. name \in Surjection(schema.tables, names)
    BY DEF Surjection
  <2>2. name \in Injection(schema.tables, names)
    BY <1>1, <2>1 DEF Injection, IsInjective, From
  <2> QED
    <3>1. IsFiniteSet(schema.tables)
      BY <1>1 DEF From
    <3> HIDE DEF name, names, schema
    <3> QED
      BY <2>1, <2>2, <3>1, FS_Surjection
<1> HIDE DEF schema, names
<1>9. CASE schema.tables = {}
  <2>1. ScanDB(cfg) = Answer("measured", {}) \/ ScanDB(cfg) = Answer("notMeasured", {})
    BY <1>4, <1>5, <1>7, <1>9
  <2>2. ScanDB(cfg).tables = {}
    BY <2>1, AnswerFields
  <2> QED
    BY <2>2, <1>9 DEF TablesOf, schema
<1>10. CASE schema.tables # {}
  <2>1. ScanDB(cfg) = Answer("measured", names)
    BY <1>4, <1>5, <1>6, <1>10
  <2>2. ScanDB(cfg).status = "measured" /\ ScanDB(cfg).tables = names
    BY <2>1, AnswerFields
  <2> QED
    BY <2>2, <1>8, <1>10 DEF TablesOf, schema
<1> QED
  BY <1>9, <1>10

-----------------------------------------------------------------------------
(* What init detects. *)

\* What makes a candidate.
LEMMA CandidateShape ==
  \A d \in Dir, n \in Nat, reason \in {"", "orderNotProven", "noTable", "ambiguous"} :
    [path |-> d, tables |-> n, reason |-> reason] \in Candidate
BY DEF Candidate

\* A directory is proven, or there is a reason why not.
LEMMA CandidateOf ==
  ASSUME TreeOK, NEW d \in Dir, tree[d] # None, tree[d] # {},
         NEW c, c = [path |-> d, tables |-> Prove(d).tables, reason |-> reasonFor(Prove(d))]
  PROVE  /\ c \in Candidate
         /\ Proven(c) <=> Prove(d).ordered /\ TablesOf(d) # {}
         /\ Proven(c) => Prove(d).tables = Cardinality(TablesOf(d))
         /\ Proven(c) <=> c.reason = ""
         /\ Proven(c) => Prove(d).tables > 0
         /\ ~ Proven(c) => (\E f \in tree[d] : Version[f] = None) \/ TablesOf(d) = {}
         /\ c.reason # "ambiguous"
<1> DEFINE ordered == Prove(d).ordered
           n == Prove(d).tables
           reason == reasonFor(Prove(d))
<1>1. /\ n \in Nat
      /\ ordered <=> \A f \in tree[d] : Version[f] # None
      /\ ordered => n = Cardinality(TablesOf(d))
      /\ ordered => (n = 0 <=> TablesOf(d) = {})
  BY WhatIsProven
<1>2. c.path = d /\ c.tables = n /\ c.reason = reason
  OBVIOUS
<1>3. reason \in {"orderNotProven", "noTable", ""}
  BY DEF reasonFor
<1>4. reason = "" <=> ordered /\ n # 0
  BY DEF reasonFor
<1>5. c = [path |-> d, tables |-> n, reason |-> reason]
  OBVIOUS
<1> HIDE DEF ordered, n, reason
<1>6. c \in Candidate
  <2>1. n \in Nat
    BY <1>1
  <2>2. reason \in {"", "orderNotProven", "noTable", "ambiguous"}
    BY <1>3
  <2> QED
    BY <1>5, <2>1, <2>2, CandidateShape
<1>7. Proven(c) <=> reason = "" /\ n > 0
  BY <1>2 DEF Proven
<1>8. n # 0 <=> n > 0
  BY <1>1
<1>9. Proven(c) <=> reason = ""
  BY <1>4, <1>7, <1>8
<1>10. /\ Proven(c) <=> ordered /\ TablesOf(d) # {}
       /\ ~ Proven(c) => (\E f \in tree[d] : Version[f] = None) \/ TablesOf(d) = {}
  BY <1>1, <1>4, <1>9
<1> QED
  BY <1>1, <1>2, <1>3, <1>4, <1>6, <1>8, <1>9, <1>10 DEF ordered, n, reason

\* The candidates are the directories in sight that hold SQL and did not fail to be read, each with
\* what it proves.
LEMMA CandidatesFound ==
  ASSUME TreeOK
  PROVE  /\ IsFiniteSet(detectSchemaCandidates)
         /\ detectSchemaCandidates \subseteq Candidate
         /\ \A c \in detectSchemaCandidates :
              /\ c.path \in Walked /\ tree[c.path] # {} /\ tree[c.path] # None
              /\ Proven(c) <=> Prove(c.path).ordered /\ TablesOf(c.path) # {}
              /\ ~ ProveFails(c.path) /\ (Proven(c) => tree[c.path] \cap Unreadable = {})
              /\ Proven(c) => c.tables = Cardinality(TablesOf(c.path))
              /\ Proven(c) <=> c.reason = ""
              /\ Proven(c) => c.tables > 0
              /\ ~ Proven(c) => (\E f \in tree[c.path] : Version[f] = None) \/ TablesOf(c.path) = {}
              /\ c.reason # "ambiguous"
         /\ \A c, e \in detectSchemaCandidates : c.path = e.path => c = e
         /\ \A d \in Walked : tree[d] # {} /\ ~ ProveFails(d) =>
              \E c \in detectSchemaCandidates : c.path = d
<1> DEFINE Sql == {w \in Walked : ~ ProveFails(w) /\ Prove(w).sqlFiles > 0}
           found(d) == [path |-> d, tables |-> Prove(d).tables, reason |-> reasonFor(Prove(d))]
<1>1. /\ Sql \subseteq Dir /\ Sql = {w \in Walked : tree[w] # {} /\ ~ ProveFails(w)}
      /\ \A d \in Sql : tree[d] # None /\ d \in Dir
  BY WhatIsProven DEF Walked
<1>2. IsFiniteSet(Sql)
  BY <1>1, FilesAssumption, FS_Subset
<1>3. detectSchemaCandidates = {found(d) : d \in Sql}
  BY DEF detectSchemaCandidates
<1>4. IsFiniteSet(detectSchemaCandidates)
  <2>1. [d \in Sql |-> found(d)] \in Surjection(Sql, detectSchemaCandidates)
    BY <1>3 DEF Surjection
  <2> QED
    BY <1>2, <2>1, FS_Surjection
<1>5. \A d \in Sql :
        /\ found(d) \in Candidate
        /\ Proven(found(d)) <=> Prove(d).ordered /\ TablesOf(d) # {}
        /\ Proven(found(d)) => Prove(d).tables = Cardinality(TablesOf(d))
        /\ Proven(found(d)) <=> found(d).reason = ""
        /\ Proven(found(d)) => Prove(d).tables > 0
        /\ ~ Proven(found(d)) => (\E f \in tree[d] : Version[f] = None) \/ TablesOf(d) = {}
        /\ found(d).reason # "ambiguous"
  <2> TAKE d \in Sql
  <2> DEFINE c == found(d)
  <2>1. c = [path |-> d, tables |-> Prove(d).tables, reason |-> reasonFor(Prove(d))]
    OBVIOUS
  <2>2. d \in Dir /\ tree[d] # None /\ tree[d] # {}
    BY <1>1
  <2> HIDE DEF c
  <2> QED
    BY <2>1, <2>2, CandidateOf DEF c
<1>6. \A d \in Sql : found(d).path = d /\ found(d).tables = Prove(d).tables
  OBVIOUS
<1> HIDE DEF found, Sql
<1>7. \A c \in detectSchemaCandidates : \E d \in Sql : c = found(d) /\ c.path = d /\ c.tables = Prove(d).tables
  BY <1>3, <1>6
<1>8. \A c \in detectSchemaCandidates : c.path \in Walked /\ tree[c.path] # {} /\ tree[c.path] # None
  BY <1>1, <1>7
<1>9. \A c, e \in detectSchemaCandidates : c.path = e.path => c = e
  BY <1>7
<1>10. \A d \in Walked : tree[d] # {} /\ ~ ProveFails(d) => \E c \in detectSchemaCandidates : c.path = d
  BY <1>1, <1>3, <1>6
<1>11. detectSchemaCandidates \subseteq Candidate
  BY <1>3, <1>5
<1>12. \A c \in detectSchemaCandidates :
          /\ Proven(c) <=> Prove(c.path).ordered /\ TablesOf(c.path) # {}
          /\ Proven(c) => c.tables = Cardinality(TablesOf(c.path))
          /\ Proven(c) <=> c.reason = ""
          /\ Proven(c) => c.tables > 0
          /\ ~ Proven(c) => (\E f \in tree[c.path] : Version[f] = None) \/ TablesOf(c.path) = {}
          /\ c.reason # "ambiguous"
  BY <1>5, <1>7
<1>13. \A c \in detectSchemaCandidates :
          ~ ProveFails(c.path) /\ (Proven(c) => tree[c.path] \cap Unreadable = {})
  <2> TAKE c \in detectSchemaCandidates
  <2>1. c.path \in Dir /\ tree[c.path] # None /\ tree[c.path] # {} /\ ~ ProveFails(c.path)
    BY <1>1, <1>7
  <2>2. Proven(c) => OrderingIsProven(tree[c.path])
    BY <1>12, <2>1, WhatIsProven DEF OrderingIsProven
  <2> QED
    BY <2>1, <2>2 DEF ProveFails
<1> QED
  BY <1>4, <1>8, <1>9, <1>10, <1>11, <1>12, <1>13

\* The detections: one proven directory is configured, several are ambiguous, and a Prisma schema
\* leaves no candidate.
Detection(i) ==
  /\ i = [language |-> i.language, type |-> i.type, paradigm |-> i.paradigm, paths |-> i.paths,
          candidates |-> i.candidates]
  /\ i.language \in {"go", "typescript", "undetected"} /\ i.candidates \subseteq Candidate
  /\ i.type \in {"", "postgresql", "mysql", "sqlite"} /\ i.paradigm \in {"", "auto"}
  /\ \/ i.paths = <<PrismaFile>> /\ i.candidates = {}
     \/ i.paths = <<>> /\ i.type = "" /\ i.paradigm = ""
     \/ i.type = "" /\ i.paradigm = "" /\ \E c \in i.candidates : i.paths = <<c.path>> /\ c.tables > 0
  /\ \A c \in i.candidates : c.path \notin ToSet(i.paths) => c.reason # ""
  /\ \A c \in i.candidates : c.reason = "ambiguous" => i.paths = <<>>
  /\ \A c, e \in i.candidates : c.path = e.path => c = e

\* What it says is so.
Current(i) ==
  /\ Detection(i)
  /\ i.paths # <<PrismaFile>> =>
       {c.path : c \in i.candidates} = {d \in Walked : tree[d] # {} /\ ~ ProveFails(d)}
  /\ \A c \in i.candidates :
       /\ tree[c.path] # None
       /\ c.path \in ToSet(i.paths) => c.tables = Cardinality(TablesOf(c.path)) /\ TablesOf(c.path) # {}
       /\ c.reason = "ambiguous" => TablesOf(c.path) # {}
       /\ c.path \in ToSet(i.paths) \/ c.reason = "ambiguous" => tree[c.path] \cap Unreadable = {}
       /\ i.paths # <<>> /\ c.path \notin ToSet(i.paths) =>
            (\E f \in tree[c.path] : Version[f] = None) \/ TablesOf(c.path) = {}

\* What init detects is a detection, and is so.
LEMMA DetectedIsCurrent ==
  ASSUME TreeOK
  PROVE  Current(Detected)
<1> DEFINE found == detectSchemaCandidates
           proven == {c \in found : Proven(c)}
           i == Detected
<1>1. detectLanguage \in {"go", "typescript", "undetected"}
  BY DEF detectLanguage
<1>2. CASE detectLanguage = "typescript" /\ prisma # "absent"
  <2>1. i = [language |-> "typescript", type |-> Provider, paradigm |-> "auto",
             paths |-> <<PrismaFile>>, candidates |-> {}]
    BY <1>2 DEF Detected
  <2> HIDE DEF i
  <2>2. /\ i.language = "typescript" /\ i.type = Provider /\ i.paradigm = "auto"
        /\ i.paths = <<PrismaFile>> /\ i.candidates = {}
    BY <2>1
  <2>3. Detection(i)
    BY <2>1, <2>2, ProjectAssumption DEF Detection
  <2> QED
    BY <2>2, <2>3 DEF Current, i
<1>3. CASE ~ (detectLanguage = "typescript" /\ prisma # "absent") /\ Cardinality(proven) = 1
  <2>1. PICK c : proven = {c}
    BY <1>3, CandidatesFound, FS_Subset, FS_Singleton
  <2>2. i = [language |-> detectLanguage, type |-> "", paradigm |-> "",
             paths |-> <<c.path>>, candidates |-> found]
    BY <1>3, <2>1 DEF Detected, discoverSQLSchema
  <2> HIDE DEF i
  <2>3. /\ i.language = detectLanguage /\ i.type = "" /\ i.paradigm = ""
        /\ i.paths = <<c.path>> /\ i.candidates = found /\ ToSet(i.paths) = {c.path}
    BY <2>2, OnlyOne
  <2>4. c \in found /\ Proven(c) /\ \A e \in found : Proven(e) => e = c
    BY <2>1
  <2>5. \A e \in found : e.path \notin {c.path} => ~ Proven(e)
    BY <2>4
  <2>6. \A e \in found : e.path \in {c.path} => Proven(e)
    BY <2>4, CandidatesFound
  <2>7. c.path # PrismaFile /\ i.paths # <<PrismaFile>> /\ i.paths # <<>>
    <3>1. c.path \in Dir
      BY <2>4, CandidatesFound DEF Walked
    <3>2. c.path # PrismaFile
      BY <3>1, FilesAssumption
    <3>3. <<c.path>> # <<PrismaFile>> /\ <<c.path>> # <<>>
      BY <3>2
    <3> QED
      BY <2>3, <3>3
  <2>8. Detection(i)
    BY <1>1, <2>2, <2>3, <2>4, <2>5, CandidatesFound DEF Detection
  <2>9. {e.path : e \in found} = {d \in Walked : tree[d] # {} /\ ~ ProveFails(d)}
    <3> HIDE DEF found
    <3>1. \A e \in found : e.path \in Walked /\ tree[e.path] # {} /\ ~ ProveFails(e.path)
      BY CandidatesFound DEF found
    <3>2. \A d \in Walked : tree[d] # {} /\ ~ ProveFails(d) => \E e \in found : e.path = d
      BY CandidatesFound DEF found
    <3> QED
      BY <3>1, <3>2
  <2> QED
    BY <2>3, <2>5, <2>6, <2>8, <2>9, CandidatesFound DEF Current, i
<1>4. CASE ~ (detectLanguage = "typescript" /\ prisma # "absent") /\ Cardinality(proven) # 1
  <2> DEFINE told(c) == IF c \in proven THEN [c EXCEPT !.reason = "ambiguous"] ELSE c
             all == {told(c) : c \in found}
  <2>1. i = [language |-> detectLanguage, type |-> "", paradigm |-> "", paths |-> <<>>, candidates |-> all]
    BY <1>4 DEF Detected, discoverSQLSchema
  <2> HIDE DEF i
  <2>2. /\ i.language = detectLanguage /\ i.type = "" /\ i.paradigm = ""
        /\ i.paths = <<>> /\ i.candidates = all
    BY <2>1
  <2>3. \A c \in found : /\ told(c) \in Candidate /\ told(c).path = c.path /\ told(c).reason # ""
                         /\ told(c).reason = "ambiguous" => Proven(c)
    <3> TAKE c \in found
    <3>1. c \in Candidate /\ (Proven(c) <=> c.reason = "") /\ c.reason # "ambiguous"
      BY CandidatesFound
    <3>2. CASE Proven(c)
      <4>1. told(c) = [c EXCEPT !.reason = "ambiguous"]
        BY <3>2
      <4> QED
        BY <3>1, <3>2, <4>1 DEF Candidate
    <3>3. CASE ~ Proven(c)
      <4>1. told(c) = c
        BY <3>3
      <4> QED
        BY <3>1, <3>3, <4>1
    <3> QED
      BY <3>2, <3>3
  <2> HIDE DEF told
  <2>4. /\ \A e \in all : \E c \in found : e = told(c)
        /\ \A c \in found : told(c) \in all
    OBVIOUS
  <2> HIDE DEF all, found
  <2>10. \A e \in all : \E c \in found : /\ e \in Candidate /\ e.path = c.path /\ e.reason # ""
                                         /\ e = told(c)
                                         /\ e.reason = "ambiguous" => Proven(c)
    BY <2>3, <2>4
  <2>11. \A c, e \in found : c.path = e.path => c = e
    BY CandidatesFound DEF found
  <2>12. \A c \in found : c.path \in Walked /\ tree[c.path] # {} /\ tree[c.path] # None /\ ~ ProveFails(c.path)
    BY CandidatesFound DEF found
  <2>13. \A c \in found : Proven(c) => TablesOf(c.path) # {} /\ tree[c.path] \cap Unreadable = {}
    BY CandidatesFound DEF found
  <2>14. \A d \in Walked : tree[d] # {} /\ ~ ProveFails(d) => \E c \in found : c.path = d
    BY CandidatesFound DEF found
  <2>5. Detection(i)
    <3>1. all \subseteq Candidate /\ \A e \in all : e.reason # ""
      BY <2>10
    <3>2. \A c, e \in all : c.path = e.path => c = e
      <4> SUFFICES ASSUME NEW x \in all, NEW y \in all, x.path = y.path PROVE x = y
        OBVIOUS
      <4>1. PICK c \in found : x = told(c) /\ x.path = c.path
        BY <2>10
      <4>2. PICK e \in found : y = told(e) /\ y.path = e.path
        BY <2>10
      <4> QED
        BY <2>11, <4>1, <4>2
    <3> QED
      BY <1>1, <2>1, <2>2, <3>1, <3>2 DEF Detection
  <2>6. {e.path : e \in all} = {d \in Walked : tree[d] # {} /\ ~ ProveFails(d)}
    <3>1. \A e \in all : e.path \in Walked /\ tree[e.path] # {} /\ ~ ProveFails(e.path)
      <4> SUFFICES ASSUME NEW x \in all PROVE x.path \in Walked /\ tree[x.path] # {} /\ ~ ProveFails(x.path)
        OBVIOUS
      <4>1. PICK c \in found : x.path = c.path
        BY <2>10
      <4> QED
        BY <2>12, <4>1
    <3>2. \A d \in Walked : tree[d] # {} /\ ~ ProveFails(d) => \E e \in all : e.path = d
      BY <2>3, <2>4, <2>14
    <3> QED
      BY <3>1, <3>2
  <2>7. ToSet(<<>>) = {}
    BY DEF ToSet
  <2>8. \A e \in all :
          /\ tree[e.path] # None
          /\ e.reason = "ambiguous" => TablesOf(e.path) # {} /\ tree[e.path] \cap Unreadable = {}
    <3> SUFFICES ASSUME NEW x \in all
                 PROVE  /\ tree[x.path] # None
                        /\ x.reason = "ambiguous" =>
                             TablesOf(x.path) # {} /\ tree[x.path] \cap Unreadable = {}
      OBVIOUS
    <3>1. PICK c \in found : x.path = c.path /\ (x.reason = "ambiguous" => Proven(c))
      BY <2>10
    <3> QED
      BY <2>12, <2>13, <3>1
  <2> QED
    BY <2>2, <2>5, <2>6, <2>7, <2>8 DEF Current, i
<1> QED
  BY <1>2, <1>3, <1>4

-----------------------------------------------------------------------------
(* What is written and said of a detection. *)

\* The candidate a note offers is one of them, an ambiguous one where there is one.
LEMMA FirstIsOffered ==
  ASSUME NEW found, found \subseteq Candidate
  PROVE  /\ FirstCandidate(found) \in Dir \cup {None}
         /\ (\E c \in found : c.reason = "ambiguous") =>
              \E c \in found : c.reason = "ambiguous" /\ FirstCandidate(found) = c.path
<1> DEFINE ambiguous == {c \in found : c.reason = "ambiguous"}
           offered == IF ambiguous # {} THEN ambiguous ELSE found
           first == CHOOSE c \in offered : \A d \in offered : PathRank[c.path] <= PathRank[d.path]
           ranks == {PathRank[c.path] : c \in offered}
<1>1. CASE offered = {}
  <2>1. FirstCandidate(found) = None
    BY <1>1 DEF FirstCandidate
  <2> QED
    BY <1>1, <2>1
<1>2. CASE offered # {}
  <2>1. FirstCandidate(found) = first.path
    BY <1>2 DEF FirstCandidate
  <2>2. offered \subseteq found
    OBVIOUS
  <2>3. \A c \in offered : c.path \in Dir /\ PathRank[c.path] \in Nat
    BY <2>2, ProjectAssumption DEF Candidate
  <2>4. ranks \in SUBSET Nat /\ ranks # {}
    BY <1>2, <2>3
  <2>5. PICK r \in ranks : \A m \in ranks : r <= m
    BY <2>4, Least
  <2>6. PICK c \in offered : r = PathRank[c.path]
    BY <2>5
  <2>7. \A d \in offered : PathRank[c.path] <= PathRank[d.path]
    BY <2>5, <2>6
  <2>8. first \in offered
    BY <2>7
  <2> HIDE DEF first
  <2> QED
    BY <2>1, <2>3, <2>8
<1> QED
  BY <1>1, <1>2

\* A configuration written from a detection is valid and names its paths.
LEMMA Rendered ==
  ASSUME NEW i, Detection(i)
  PROVE  /\ RenderConfig(i) # None /\ Valid(RenderConfig(i))
         /\ RenderConfig(i).paths = i.paths /\ RenderConfig(i).type = i.type
         /\ Paths(RenderConfig(i)) = ToSet(i.paths)
         /\ RenderConfig(i).note = CandidatesNote(i)
<1> DEFINE cfg == RenderConfig(i)
<1>1. cfg = [language |-> i.language, paths |-> i.paths, type |-> i.type,
             paradigm |-> i.paradigm, note |-> CandidatesNote(i)]
  <2>1. i.paths = <<>> => i.type = "" /\ i.paradigm = ""
    <3>1. \A x : <<x>> # <<>>
      OBVIOUS
    <3> QED
      BY <3>1 DEF Detection
  <2> QED
    BY <2>1 DEF RenderConfig, DatabaseSection
<1>2. i.paths \in Seq(Dir \cup {PrismaFile})
  <2>1. \A x \in Dir \cup {PrismaFile} : <<x>> \in Seq(Dir \cup {PrismaFile})
    OBVIOUS
  <2>2. \A c \in i.candidates : c.path \in Dir
    BY DEF Detection, Candidate
  <2>3. CASE i.paths = <<PrismaFile>>
    BY <2>1, <2>3
  <2>4. CASE i.paths = <<>>
    BY <2>4
  <2>5. CASE \E c \in i.candidates : i.paths = <<c.path>>
    BY <2>1, <2>2, <2>5
  <2> QED
    BY <2>3, <2>4, <2>5 DEF Detection
<1>3. CandidatesNote(i) \in [found : SUBSET Candidate, example : Dir \cup {None}]
  <2>1. LeftOut(i) \subseteq Candidate
    BY DEF LeftOut, Detection
  <2>2. FirstCandidate(i.candidates) \in Dir \cup {None}
    BY FirstIsOffered DEF Detection
  <2> QED
    BY <2>1, <2>2 DEF CandidatesNote
<1>4. /\ i.language \in allowedLanguages /\ i.type \in allowedDBTypes \cup {""}
      /\ i.paradigm \in allowedParadigms \cup {""}
  BY DEF Detection, allowedLanguages, allowedDBTypes, allowedParadigms
<1>5. cfg \in Configuration
  <2>1. \A language \in allowedLanguages, paths \in Seq(Dir \cup {PrismaFile}),
           type \in allowedDBTypes \cup {""}, paradigm \in allowedParadigms \cup {""},
           note \in [found : SUBSET Candidate, example : Dir \cup {None}] :
             [language |-> language, paths |-> paths, type |-> type, paradigm |-> paradigm,
              note |-> note] \in Configuration
    BY DEF Configuration
  <2>2. [language |-> i.language, paths |-> i.paths, type |-> i.type,
         paradigm |-> i.paradigm, note |-> CandidatesNote(i)] \in Configuration
    BY <1>2, <1>3, <1>4, <2>1
  <2> QED
    BY <1>1, <2>2
<1>6. cfg # None
  BY <1>5, ConfigurationAssumption
<1>7. /\ cfg.paths = i.paths /\ cfg.type = i.type /\ cfg.note = CandidatesNote(i)
      /\ cfg.language = i.language /\ cfg.paradigm = i.paradigm
  BY <1>1
<1> HIDE DEF cfg
<1>8. Valid(cfg)
  BY <1>4, <1>7 DEF Valid
<1>9. Paths(cfg) = ToSet(cfg.paths)
  BY <1>6, <1>8 DEF Paths
<1> QED
  BY <1>6, <1>7, <1>8, <1>9 DEF cfg

\* A section that says nothing of the schema.
LEMMA SilentSection ==
  ASSUME NEW x, NEW left, x.schema = [says |-> "", written |-> {}, left |-> left]
  PROVE  x.schema.says = "" /\ x.schema.left = left
<1> DEFINE section == x.schema
<1>1. section = [says |-> "", written |-> {}, left |-> left]
  OBVIOUS
<1> HIDE DEF section
<1>2. section.says = "" /\ section.left = left
  BY <1>1
<1> QED
  BY <1>2 DEF section

\* What a section of the report says.
LEMMA SectionFields ==
  \A x, says, written, left :
    x = [says |-> says, written |-> written, left |-> left] =>
      x.says = says /\ x.written = written /\ x.left = left
OBVIOUS

\* The candidates a report tells apart: the written one, and the others, each with its reason.
LEMMA WrittenAndLeft ==
  ASSUME NEW i, Detection(i)
  PROVE  /\ provenSchema(i) = {c \in i.candidates : c.path \in ToSet(i.paths)}
         /\ \A c \in i.candidates \ provenSchema(i) : c.path \notin ToSet(i.paths) /\ c.reason # ""
         /\ LeftOut(i) = i.candidates \ provenSchema(i)
         /\ provenSchema(i) # {} => writeSchemaSection(i) =
              [says |-> "configured", written |-> provenSchema(i), left |-> LeftOut(i)]
         /\ i.paths = <<>> => provenSchema(i) = {} /\ writeSchemaSection(i) =
              [says |-> "notConfigured", written |-> {}, left |-> LeftOut(i)]
         /\ provenSchema(i) = {} /\ i.paths # <<>> =>
              /\ i.paths = <<PrismaFile>> /\ LeftOut(i) = {}
              /\ writeSchemaSection(i) = [says |-> "", written |-> {}, left |-> LeftOut(i)]
<1>1. \A c \in i.candidates : c.path \in ToSet(i.paths) => c.tables > 0
  <2>1. CASE i.paths = <<PrismaFile>> /\ i.candidates = {}
    BY <2>1
  <2>2. CASE i.paths = <<>>
    <3>1. ToSet(i.paths) = {}
      BY <2>2 DEF ToSet
    <3> QED
      BY <3>1
  <2>3. CASE \E c \in i.candidates : i.paths = <<c.path>> /\ c.tables > 0
    <3>1. PICK c \in i.candidates : i.paths = <<c.path>> /\ c.tables > 0
      BY <2>3
    <3>2. ToSet(i.paths) = {c.path}
      BY <3>1, OnlyOne
    <3>3. \A e \in i.candidates : e.path = c.path => e = c
      BY DEF Detection
    <3> QED
      BY <3>1, <3>2, <3>3
  <2> QED
    BY <2>1, <2>2, <2>3 DEF Detection
<1>2. provenSchema(i) = {c \in i.candidates : c.path \in ToSet(i.paths)}
  BY <1>1 DEF provenSchema
<1>3. \A c \in i.candidates \ provenSchema(i) : c.path \notin ToSet(i.paths) /\ c.reason # ""
  BY <1>2 DEF Detection
<1>4. LeftOut(i) = i.candidates \ provenSchema(i)
  BY <1>2 DEF LeftOut
<1>5. i.paths = <<>> => provenSchema(i) = {} /\ i.candidates = LeftOut(i)
  <2>1. ToSet(<<>>) = {}
    BY DEF ToSet
  <2> QED
    BY <1>2, <1>4, <2>1
<1>6. provenSchema(i) = {} /\ i.paths # <<>> => i.paths = <<PrismaFile>> /\ LeftOut(i) = {}
  <2> SUFFICES ASSUME provenSchema(i) = {}, i.paths # <<>>
               PROVE  i.paths = <<PrismaFile>> /\ LeftOut(i) = {}
    OBVIOUS
  <2>1. \A c \in i.candidates : i.paths # <<c.path>>
    BY <1>2, OnlyOne
  <2>2. i.paths = <<PrismaFile>> /\ i.candidates = {}
    BY <2>1 DEF Detection
  <2> QED
    BY <1>4, <2>2
<1>7. provenSchema(i) # {} => writeSchemaSection(i) =
        [says |-> "configured", written |-> provenSchema(i), left |-> LeftOut(i)]
  BY <1>4 DEF writeSchemaSection, writeSchemaProof
<1>8. i.paths = <<>> => writeSchemaSection(i) =
        [says |-> "notConfigured", written |-> {}, left |-> LeftOut(i)]
  BY <1>5 DEF writeSchemaSection, writeSchemaGap
<1>9. provenSchema(i) = {} /\ i.paths # <<>> =>
        writeSchemaSection(i) = [says |-> "", written |-> {}, left |-> LeftOut(i)]
  BY <1>6 DEF writeSchemaSection, writeSchemaGap
<1> QED
  BY <1>2, <1>3, <1>4, <1>5, <1>6, <1>7, <1>8, <1>9

-----------------------------------------------------------------------------
(* An init changes nothing it detects. *)

\* The order of the files is that of the tree.
LEMMA SameFiles ==
  ASSUME tree' = tree
  PROVE  \A d : flywayOrderedSQL(d)' = flywayOrderedSQL(d)
BY DEF flywayOrderedSQL

\* So are the sources,
LEMMA SameSources ==
  ASSUME tree' = tree
  PROVE  \A d : Sources(d)' = Sources(d)
BY SameFiles DEF Sources

\* and what is read of them,
LEMMA SameReading ==
  ASSUME prisma' = prisma
  PROVE  \A schema, source, parser : Apply(schema, source, parser)' = Apply(schema, source, parser)
BY DEF Apply

\* file after file,
LEMMA SameParsing ==
  ASSUME prisma' = prisma
  PROVE  \A parser, sources : ParseSchema(parser, sources)' = ParseSchema(parser, sources)
BY SMTT(30) DEF ParseSchema, Apply

\* and what a directory proves,
LEMMA SameProof ==
  ASSUME tree' = tree, prisma' = prisma
  PROVE  \A d : Prove(d)' = Prove(d)
BY SameSources, SameParsing DEF Prove, ParserForPaths, classifySchemaPath

\* and what is detected.
LEMMA SameDetection ==
  ASSUME tree' = tree, prisma' = prisma, detectLanguage' = detectLanguage
  PROVE  Detected' = Detected
<1>1. \A d : Prove(d)' = Prove(d)
  BY SameProof
<1>2. Walked' = Walked
  BY DEF Walked
<1>3. detectSchemaCandidates' = detectSchemaCandidates
  BY <1>1, <1>2 DEF detectSchemaCandidates, ProveFails
<1> QED
  BY <1>3 DEF Detected

\* A sequence over a set is one over a larger set.
LEMMA WiderSeq ==
  ASSUME NEW S, NEW T, S \subseteq T, NEW s \in Seq(S)
  PROVE  s \in Seq(T)
BY \A x \in S : x \in T

\* The agents init knows, and those of them its own skill is not news of.
Targets == {ClaudeCode, OpenCode, Codex, fallbackTarget}
Settled == {t \in Targets : t.base = ".agents" \/ t.markers \cap present # {}}

AgentNames == [k \in DOMAIN PlacementTargets |-> PlacementTargets[k].name]

\* Init places its skill for settled agents.
LEMMA PlacedAreSettled ==
  /\ PlacementTargets \in Seq(Settled)
  /\ Settled \subseteq Targets
<1>1. /\ Detects(ClaudeCode) \in Seq(Settled) /\ Detects(OpenCode) \in Seq(Settled)
      /\ Detects(Codex) \in Seq(Settled)
  <2>1. \A t \in {ClaudeCode, OpenCode, Codex} : t.markers \cap present # {} => t \in Settled
    BY DEF Settled, Targets
  <2>2. \A t \in Settled : <<t>> \in Seq(Settled)
    OBVIOUS
  <2>3. <<>> \in Seq(Settled)
    OBVIOUS
  <2> QED
    BY <2>1, <2>2, <2>3 DEF Detects
<1>2. DetectAgents \in Seq(Settled)
  BY <1>1 DEF DetectAgents
<1>3. fallbackTarget \in Settled
  BY DEF fallbackTarget, Settled, Targets
<1>4. <<fallbackTarget>> \in Seq(Settled)
  BY <1>3
<1> QED
  BY <1>2, <1>4 DEF PlacementTargets, Settled

\* Where the skill of each agent goes.
LEMMA TargetBases ==
  /\ ClaudeCode.base = ".claude" /\ OpenCode.base = ".opencode"
  /\ Codex.base = ".agents" /\ fallbackTarget.base = ".agents"
BY DEF ClaudeCode, OpenCode, Codex, fallbackTarget

\* To write the skill of a settled agent changes neither the language nor the agents.
LEMMA PlacingIsQuiet ==
  ASSUME NEW t \in Settled, present' = present \cup {t.base}
  PROVE  /\ detectLanguage' = detectLanguage
         /\ PlacementTargets' = PlacementTargets
         /\ Settled \subseteq Settled'
<1>1. t.base \in {".claude", ".opencode", ".agents"}
  BY TargetBases DEF Settled, Targets
<1>2. detectLanguage' = detectLanguage
  BY <1>1 DEF detectLanguage
<1>3. t.base = ".claude" => ClaudeCode.markers \cap present # {}
  BY TargetBases DEF Settled, Targets
<1>4. t.base = ".opencode" => OpenCode.markers \cap present # {}
  BY TargetBases DEF Settled, Targets
<1>5. /\ Detects(ClaudeCode)' = Detects(ClaudeCode)
      /\ Detects(OpenCode)' = Detects(OpenCode)
      /\ Detects(Codex)' = Detects(Codex)
  <2>1. ClaudeCode.markers \cap present' # {} <=> ClaudeCode.markers \cap present # {}
    BY <1>1, <1>3 DEF ClaudeCode
  <2>2. OpenCode.markers \cap present' # {} <=> OpenCode.markers \cap present # {}
    BY <1>1, <1>4 DEF OpenCode
  <2>3. Codex.markers \cap present' # {} <=> Codex.markers \cap present # {}
    BY <1>1 DEF Codex
  <2> QED
    BY <2>1, <2>2, <2>3 DEF Detects, ClaudeCode, OpenCode, Codex
<1>6. DetectAgents' = DetectAgents
  BY <1>5 DEF DetectAgents
<1>7. Settled \subseteq Settled'
  BY DEF Settled
<1> QED
  BY <1>2, <1>6, <1>7 DEF PlacementTargets, fallbackTarget

-----------------------------------------------------------------------------
(* The invariant. *)

AtWork == step \in {"writing", "placing"}

SetupTypeOK ==
  /\ TreeOK
  /\ step \in {"idle", "asking", "detecting", "writing", "placing"}
  /\ pending \in Seq(Targets)
  /\ AtWork => Detection(info)

\* What this init has taken out of a configuration is what it will say it dropped.
LostInv ==
  /\ step \in {"asking", "detecting", "writing"} => lost = {}
  /\ step = "placing" =>
       /\ lost = {c.path : c \in result.dropped}
       /\ \A c \in result.dropped : c.reason # ""
  /\ report # None =>
       /\ Idle => lost = {c.path : c \in report.dropped}
       /\ \A c \in report.dropped \cup report.schema.left : c.reason # ""

\* While nobody changes the project, what it detected, and what it wrote of it, stays so.
RunInv ==
  runQuiet =>
    /\ AtWork /\ info = Detected
    /\ step = "placing" =>
         /\ result.agents = AgentNames
         /\ pending \in Seq(Settled)
         /\ result.action # "skipped" => config = RenderConfig(Detected)

\* And what it reported: also through the next init, up to its report.
ReportInv ==
  report # None /\ quiet =>
    /\ AtWork => runQuiet
    /\ report.schema = writeSchemaSection(Detected)
    /\ report.agents = AgentNames
    /\ report.action # "skipped" =>
         /\ config = RenderConfig(Detected)
         /\ step = "placing" => result.dropped = {}

SetupInv == SetupTypeOK /\ LostInv /\ RunInv /\ ReportInv

\* A project nobody has run init on.
LEMMA SetupInit == Init => SetupInv
<1> SUFFICES ASSUME Init PROVE SetupInv
  OBVIOUS
<1>1. TreeOK
  BY ProjectAssumption DEF Init, TreeOK
<1>2. <<>> \in Seq(Targets)
  OBVIOUS
<1> QED
  BY <1>1, <1>2 DEF Init, SetupInv, SetupTypeOK, LostInv, RunInv, ReportInv, AtWork

\* A change of the developer's leaves what was said of the project without force.
LEMMA DeveloperKeeps ==
  ASSUME SetupInv, Developer
  PROVE  SetupInv'
<1>1. Edit
  BY DEF Developer, AddMigration, RemoveDirectory, EditPrisma, AddToRoot, RemoveFromRoot, EditConfig
<1>2. TreeOK'
  <2>1. CASE \E d \in Dir, f \in File : AddMigration(d, f)
    <3>1. PICK d \in Dir, f \in File : AddMigration(d, f)
      BY <2>1
    <3>2. Level(d) \cup {f} \in SUBSET File /\ {} \in SUBSET File
      BY DEF SetupInv, SetupTypeOK, TreeOK, Level
    <3> QED
      BY <3>1, <3>2 DEF AddMigration, SetupInv, SetupTypeOK, TreeOK
  <2>2. CASE \E d \in Dir : RemoveDirectory(d)
    BY <2>2 DEF RemoveDirectory, SetupInv, SetupTypeOK, TreeOK
  <2>3. CASE UNCHANGED tree
    BY <2>3 DEF SetupInv, SetupTypeOK, TreeOK
  <2>4. /\ \A text : EditPrisma(text) => UNCHANGED tree
        /\ \A x : AddToRoot(x) => UNCHANGED tree
        /\ \A x : RemoveFromRoot(x) => UNCHANGED tree
        /\ \A cfg : EditConfig(cfg) => UNCHANGED tree
    BY DEF EditPrisma, AddToRoot, RemoveFromRoot, EditConfig, project
  <2> QED
    BY <2>1, <2>2, <2>3, <2>4 DEF Developer
<1> QED
  BY <1>1, <1>2 DEF Edit, SetupInv, SetupTypeOK, LostInv, RunInv, ReportInv, AtWork, Idle

\* An init that changes none of what is detected.
LEMMA SameSaid ==
  ASSUME tree' = tree, prisma' = prisma, present' = present
  PROVE  /\ Detected' = Detected /\ AgentNames' = AgentNames
         /\ Settled' = Settled /\ PlacementTargets' = PlacementTargets
         /\ TreeOK => TreeOK'
<1>1. detectLanguage' = detectLanguage
  BY DEF detectLanguage
<1>2. PlacementTargets' = PlacementTargets
  BY DEF PlacementTargets, DetectAgents, Detects, ClaudeCode, OpenCode, Codex, fallbackTarget
<1> QED
  BY <1>1, <1>2, SameDetection DEF AgentNames, Settled, TreeOK, Targets

\* Before the detection nothing of the project is touched.
LEMMA AskingKeeps ==
  ASSUME SetupInv,
         (\E force, nonInteractive \in BOOLEAN : Begin(force, nonInteractive))
           \/ \E yes \in BOOLEAN : Confirm(yes)
  PROVE  SetupInv'
<1>1. /\ UNCHANGED <<project, config, info, result, pending, report, quiet, runQuiet>>
      /\ step' \in {"asking", "detecting"} /\ step \in {"idle", "asking"}
      /\ lost' = {}
  BY DEF Begin, Confirm, Idle, SetupInv, LostInv
<1>2. /\ Detected' = Detected /\ AgentNames' = AgentNames /\ TreeOK'
  BY <1>1, SameSaid DEF project, SetupInv, SetupTypeOK
<1>3. SetupTypeOK'
  BY <1>1, <1>2 DEF SetupInv, SetupTypeOK, AtWork
<1>4. LostInv'
  BY <1>1 DEF SetupInv, LostInv, Idle
<1>5. RunInv'
  BY <1>1 DEF SetupInv, RunInv, AtWork
<1>6. writeSchemaSection(Detected)' = writeSchemaSection(Detected)
  BY <1>2
<1>7. RenderConfig(Detected)' = RenderConfig(Detected)
  BY <1>2
<1>8. ReportInv'
  BY <1>1, <1>2, <1>6, <1>7 DEF SetupInv, ReportInv, AtWork
<1> QED
  BY <1>3, <1>4, <1>5, <1>8 DEF SetupInv

\* The detection is one, and current.
LEMMA DetectKeeps ==
  ASSUME SetupInv, Detect
  PROVE  SetupInv'
<1>1. /\ UNCHANGED <<project, config, result, pending, report, quiet, lost>>
      /\ step = "detecting" /\ step' = "writing" /\ runQuiet' /\ info' = Detected
  BY DEF Detect
<1>2. /\ Detected' = Detected /\ AgentNames' = AgentNames /\ TreeOK'
  BY <1>1, SameSaid DEF project, SetupInv, SetupTypeOK
<1>3. Detection(info')
  BY <1>1, DetectedIsCurrent DEF Current, SetupInv, SetupTypeOK
<1>4. SetupTypeOK'
  BY <1>1, <1>2, <1>3 DEF SetupInv, SetupTypeOK, AtWork, Detection
<1>5. LostInv'
  BY <1>1 DEF SetupInv, LostInv, Idle
<1>6. RunInv'
  BY <1>1, <1>2 DEF RunInv, AtWork
<1>7. writeSchemaSection(Detected)' = writeSchemaSection(Detected)
  BY <1>2
<1>8. RenderConfig(Detected)' = RenderConfig(Detected)
  BY <1>2
<1>9. ReportInv'
  BY <1>1, <1>2, <1>7, <1>8 DEF SetupInv, ReportInv, AtWork
<1> QED
  BY <1>4, <1>5, <1>6, <1>9 DEF SetupInv

\* What is accounted for is where the skill goes.
LEMMA AccountKeeps ==
  ASSUME SetupInv, NEW action, NEW dropped, Account(action, dropped), step = "writing", prisma' = prisma,
         NEW before, lost' = {c.path : c \in dropped}, \A c \in dropped : c.reason # "",
         action # "skipped" => config' = RenderConfig(info),
         action = "skipped" => config' = config,
         config = RenderConfig(info) => dropped = {}
  PROVE  SetupInv'
<1>1. /\ UNCHANGED <<project, info, report, quiet, runQuiet>> /\ step' = "placing"
      /\ result'.action = action /\ result'.dropped = dropped /\ result'.agents = AgentNames
      /\ pending' = PlacementTargets
  BY DEF Account, AgentNames
<1>2. /\ Detected' = Detected /\ AgentNames' = AgentNames /\ Settled' = Settled /\ TreeOK'
  BY <1>1, SameSaid DEF project, SetupInv, SetupTypeOK
<1>3. pending' \in Seq(Settled) /\ pending' \in Seq(Targets)
  <2>1. pending' \in Seq(Settled) /\ Settled \subseteq Targets
    BY <1>1, PlacedAreSettled
  <2>2. pending' \in Seq(Targets)
    BY <2>1, WiderSeq
  <2> QED
    BY <2>1, <2>2
<1>4. SetupTypeOK'
  BY <1>1, <1>2, <1>3 DEF SetupInv, SetupTypeOK, AtWork, Detection, Targets
<1>5. LostInv'
  BY <1>1 DEF SetupInv, LostInv, Idle
<1>6. writeSchemaSection(Detected)' = writeSchemaSection(Detected)
  BY <1>2
<1>7. RenderConfig(Detected)' = RenderConfig(Detected)
  BY <1>2
<1>8. RunInv'
  BY <1>1, <1>2, <1>3, <1>7 DEF SetupInv, RunInv, AtWork
<1>9. ReportInv'
  <2> SUFFICES ASSUME report # None, quiet PROVE ReportInv'
    BY <1>1 DEF ReportInv
  <2>1. runQuiet /\ info = Detected
    BY DEF SetupInv, ReportInv, RunInv, AtWork
  <2>2. report.action # "skipped" => config = RenderConfig(info) /\ config' = config
    BY <2>1 DEF SetupInv, ReportInv
  <2> QED
    BY <1>1, <1>2, <1>6, <1>7, <2>1, <2>2 DEF SetupInv, ReportInv, AtWork
<1> QED
  BY <1>4, <1>5, <1>8, <1>9 DEF SetupInv

\* What is taken out of the configuration is what is reported as dropped.
LEMMA ConfigKeeps ==
  ASSUME SetupInv, SkipConfig \/ WriteConfig
  PROVE  SetupInv'
<1>1. step = "writing" /\ lost = {} /\ Detection(info)
  BY DEF SkipConfig, WriteConfig, SetupInv, LostInv, SetupTypeOK, AtWork
<1>2. CASE SkipConfig
  <2>1. Account("skipped", {}) /\ config' = config /\ lost' = lost /\ prisma' = prisma
    BY <1>2 DEF SkipConfig, Account, project
  <2>2. lost' = {c.path : c \in {}}
    BY <1>1, <2>1
  <2> QED
    BY <1>1, <2>1, <2>2, AccountKeeps
<1>3. CASE WriteConfig
  <2> DEFINE action == IF config = None THEN "created" ELSE "overwritten"
             dropped == droppedSchemaPaths(config, info)
  <2>1. /\ Account(action, dropped) /\ config' = RenderConfig(info) /\ prisma' = prisma
        /\ lost' = Paths(config) \ Paths(config') /\ action # "skipped"
    BY <1>3 DEF WriteConfig, Account, project
  <2>2. Paths(config') = ToSet(info.paths)
    BY <1>1, <2>1, Rendered
  <2>3. dropped = {[path |-> p, reason |-> dropReason(info, p)] : p \in Paths(config) \ ToSet(info.paths)}
    BY DEF droppedSchemaPaths
  <2>4. lost' = {c.path : c \in dropped}
    <3>1. \A p, r : [path |-> p, reason |-> r].path = p
      OBVIOUS
    <3>2. {c.path : c \in dropped} = {[path |-> p, reason |-> dropReason(info, p)].path :
                                       p \in Paths(config) \ ToSet(info.paths)}
      BY <2>3
    <3> QED
      BY <2>1, <2>2, <3>1, <3>2
  <2>5. \A p : p \notin ToSet(info.paths) => dropReason(info, p) # ""
    BY <1>1 DEF Detection, dropReason
  <2>6. \A c \in dropped : c.reason # ""
    <3>1. \A p, r : [path |-> p, reason |-> r].reason = r
      OBVIOUS
    <3> SUFFICES ASSUME NEW c \in dropped PROVE c.reason # ""
      OBVIOUS
    <3>2. PICK p \in Paths(config) \ ToSet(info.paths) : c = [path |-> p, reason |-> dropReason(info, p)]
      BY <2>3
    <3> QED
      BY <2>5, <3>1, <3>2
  <2>7. config = RenderConfig(info) => dropped = {}
    BY <1>1, <2>3, Rendered
  <2> HIDE DEF action, dropped
  <2> QED
    BY <1>1, <2>1, <2>4, <2>6, <2>7, AccountKeeps
<1> QED
  BY <1>2, <1>3

\* An init that fails reports nothing.
LEMMA FailKeeps ==
  ASSUME SetupInv, ConfigFails \/ PlaceFails
  PROVE  SetupInv'
<1>1. Fail
  BY DEF ConfigFails, PlaceFails
<1>2. TreeOK' /\ <<>> \in Seq(Targets)'
  BY <1>1 DEF Fail, project, SetupInv, SetupTypeOK, TreeOK, Targets
<1> QED
  BY <1>1, <1>2 DEF Fail, Over, SetupInv, SetupTypeOK, LostInv, RunInv, ReportInv, AtWork

\* The skill of an agent is no news of the project.
LEMMA PlaceKeeps ==
  ASSUME SetupInv, PlaceSkill
  PROVE  SetupInv'
<1>1. /\ UNCHANGED <<tree, prisma, config, step, info, result, report, quiet, runQuiet, lost>>
      /\ step = "placing" /\ pending # <<>> /\ pending' = Tail(pending)
      /\ present' = present \cup {Head(pending).base}
  BY DEF PlaceSkill
<1>2. SetupTypeOK'
  <2>1. pending' \in Seq(Targets)
    BY <1>1 DEF SetupInv, SetupTypeOK
  <2> QED
    BY <1>1, <2>1 DEF SetupInv, SetupTypeOK, TreeOK, AtWork, Detection, Targets
<1>3. LostInv'
  BY <1>1 DEF SetupInv, LostInv, Idle
<1>4. CASE ~ runQuiet
  BY <1>1, <1>2, <1>3, <1>4 DEF SetupInv, RunInv, ReportInv, AtWork
<1>5. CASE runQuiet
  <2>1. pending \in Seq(Settled) /\ result.agents = AgentNames /\ info = Detected
    BY <1>1, <1>5 DEF SetupInv, RunInv
  <2>2. Head(pending) \in Settled /\ Tail(pending) \in Seq(Settled)
    BY <1>1, <2>1
  <2>3. /\ detectLanguage' = detectLanguage /\ PlacementTargets' = PlacementTargets
        /\ Settled \subseteq Settled'
    BY <1>1, <2>2, PlacingIsQuiet
  <2>4. Detected' = Detected /\ AgentNames' = AgentNames
    BY <1>1, <2>3, SameDetection DEF AgentNames
  <2>5. pending' \in Seq(Settled')
    BY <1>1, <2>2, <2>3
  <2>6. writeSchemaSection(Detected)' = writeSchemaSection(Detected)
    BY <2>4
  <2>7. RenderConfig(Detected)' = RenderConfig(Detected)
    BY <2>4
  <2>8. RunInv'
    BY <1>1, <1>5, <2>1, <2>4, <2>5, <2>7 DEF SetupInv, RunInv, AtWork
  <2>9. ReportInv'
    BY <1>1, <1>5, <2>4, <2>6, <2>7 DEF SetupInv, ReportInv, AtWork
  <2> QED
    BY <1>2, <1>3, <2>8, <2>9 DEF SetupInv
<1> QED
  BY <1>4, <1>5

\* The report says what was detected and done.
LEMMA ReportKeeps ==
  ASSUME SetupInv, Report
  PROVE  SetupInv'
<1>1. /\ UNCHANGED <<project, config, lost>> /\ step = "placing" /\ step' = "idle"
      /\ report' = formatReport /\ quiet' = runQuiet /\ runQuiet' = FALSE /\ pending' = <<>>
  BY DEF Report, Over
<1>2. /\ Detected' = Detected /\ AgentNames' = AgentNames /\ TreeOK'
  BY <1>1, SameSaid DEF project, SetupInv, SetupTypeOK
<1>3. SetupTypeOK'
  BY <1>1, <1>2 DEF SetupTypeOK, AtWork
<1>4. Detection(info)
  BY <1>1 DEF SetupInv, SetupTypeOK, AtWork
<1>5. /\ report'.action = result.action /\ report'.agents = result.agents
      /\ report'.dropped = result.dropped /\ report'.schema = writeSchemaSection(info)
  BY <1>1 DEF formatReport
<1>6. \A c \in writeSchemaSection(info).left : c.reason # ""
  <2>1. writeSchemaSection(info).left = LeftOut(info)
    <3>1. CASE provenSchema(info) # {}
      <4>1. writeSchemaSection(info) =
              [says |-> "configured", written |-> provenSchema(info), left |-> LeftOut(info)]
        BY <1>4, <3>1, WrittenAndLeft
      <4> QED
        BY <4>1, SectionFields
    <3>2. CASE info.paths = <<>>
      <4>1. writeSchemaSection(info) = [says |-> "notConfigured", written |-> {}, left |-> LeftOut(info)]
        BY <1>4, <3>2, WrittenAndLeft
      <4> QED
        BY <4>1, SectionFields
    <3>3. CASE provenSchema(info) = {} /\ info.paths # <<>>
      <4>1. writeSchemaSection(info) = [says |-> "", written |-> {}, left |-> LeftOut(info)]
        BY <1>4, <3>3, WrittenAndLeft
      <4> QED
        BY <4>1, SectionFields
    <3> QED
      BY <3>1, <3>2, <3>3
  <2>2. LeftOut(info) = info.candidates \ provenSchema(info)
    BY <1>4, WrittenAndLeft
  <2>3. \A c \in info.candidates \ provenSchema(info) : c.reason # ""
    BY <1>4, WrittenAndLeft
  <2> QED
    BY <2>1, <2>2, <2>3
<1>7. LostInv'
  BY <1>1, <1>5, <1>6 DEF SetupInv, LostInv, Idle
<1>8. RunInv'
  BY <1>1 DEF RunInv
<1>9. writeSchemaSection(Detected)' = writeSchemaSection(Detected)
  BY <1>2
<1>10. RenderConfig(Detected)' = RenderConfig(Detected)
  BY <1>2
<1>11. ReportInv'
  BY <1>1, <1>2, <1>5, <1>9, <1>10 DEF SetupInv, RunInv, ReportInv, AtWork
<1> QED
  BY <1>3, <1>7, <1>8, <1>11 DEF SetupInv

\* Every step keeps the invariant.
LEMMA SetupNext == SetupInv /\ [Next]_vars => SetupInv'
<1> SUFFICES ASSUME SetupInv, [Next]_vars PROVE SetupInv'
  OBVIOUS
<1>1. CASE UNCHANGED vars
  <2>1. /\ Detected' = Detected /\ AgentNames' = AgentNames /\ Settled' = Settled /\ TreeOK'
    BY <1>1, SameSaid DEF vars, project, SetupInv, SetupTypeOK
  <2>2. writeSchemaSection(Detected)' = writeSchemaSection(Detected)
    BY <2>1
  <2>3. RenderConfig(Detected)' = RenderConfig(Detected)
    BY <2>1
  <2>4. UNCHANGED <<config, step, info, result, pending, report, quiet, runQuiet, lost>>
    BY <1>1 DEF vars
  <2>5. SetupTypeOK' /\ LostInv'
    BY <2>1, <2>4, ZenonT(40) DEF SetupInv, SetupTypeOK, LostInv, AtWork, Idle, Detection, Targets
  <2>6. RunInv'
    BY <2>1, <2>3, <2>4 DEF SetupInv, RunInv, AtWork
  <2>7. ReportInv'
    BY <2>1, <2>2, <2>3, <2>4 DEF SetupInv, ReportInv, AtWork
  <2> QED
    BY <2>5, <2>6, <2>7 DEF SetupInv
<1>2. CASE Developer
  BY <1>2, DeveloperKeeps
<1>3. CASE Run
  BY <1>3, AskingKeeps, DetectKeeps, ConfigKeeps, FailKeeps, PlaceKeeps, ReportKeeps DEF Run
<1> QED
  BY <1>1, <1>2, <1>3 DEF Next

\* The invariant holds in every state.
LEMMA SetupInvariant == Spec => []SetupInv
BY SetupInit, SetupNext, PTL DEF Spec

-----------------------------------------------------------------------------
(* What the invariant says of the report. *)

\* A directory alone in a configuration is a configuration, and a valid one.
LEMMA AloneIsValid ==
  ASSUME NEW d \in Dir
  PROVE  /\ Alone(d) # None /\ Valid(Alone(d))
         /\ Alone(d).paths = <<d>> /\ Alone(d).type = ""
<1>1. /\ Alone(d).paths = <<d>> /\ Alone(d).type = ""
      /\ Alone(d).language = "undetected" /\ Alone(d).paradigm = ""
  BY DEF Alone
<1>2. Valid(Alone(d))
  BY <1>1 DEF Valid, allowedLanguages, allowedParadigms, allowedDBTypes
<1>3. NoNote \in [found : SUBSET Candidate, example : Dir \cup {None}]
  BY DEF NoNote
<1>4. Alone(d) \in Configuration
  BY <1>3 DEF Alone, Configuration, allowedLanguages, allowedParadigms, allowedDBTypes
<1> QED
  BY <1>1, <1>2, <1>4, ConfigurationAssumption

\* What it says is proven an audit measures, and nothing else in sight could have been written.
LEMMA SaidIsMeasured ==
  ASSUME TreeOK, NEW i, Current(i), NEW cfg, cfg = RenderConfig(i), NEW c \in provenSchema(i)
  PROVE  /\ ScanDB(cfg).status = "measured"
         /\ Cardinality(ScanDB(cfg).tables) = c.tables
         /\ \A d \in Walked \ ToSet(cfg.paths) :
              tree[d] = {} \/ (\E f \in tree[d] : Version[f] = None) \/ ScanDB(Alone(d)).tables = {}
<1>1. Detection(i)
  BY DEF Current
<1>2. c \in i.candidates /\ c.path \in ToSet(i.paths) /\ c.path \in Dir
  <2>1. c \in i.candidates /\ c.path \in ToSet(i.paths)
    BY DEF provenSchema
  <2>2. i.candidates \subseteq Candidate
    BY <1>1 DEF Detection
  <2> QED
    BY <2>1, <2>2 DEF Candidate
<1>3. cfg # None /\ Valid(cfg) /\ cfg.paths = i.paths /\ cfg.type = i.type
  BY <1>1, Rendered
<1>4. /\ i.paths # <<>>
      /\ i.paths # <<PrismaFile>>
  <2>1. ToSet(<<>>) = {}
    BY DEF ToSet
  <2>2. PrismaFile \notin Dir /\ ToSet(<<PrismaFile>>) = {PrismaFile}
    BY OnlyOne, FilesAssumption
  <2> QED
    BY <1>2, <2>1, <2>2
<1>5. i.paths = <<c.path>> /\ i.type = ""
  <2>1. PICK e \in i.candidates : i.paths = <<e.path>> /\ i.type = ""
    BY <1>1, <1>4 DEF Detection
  <2>2. c.path = e.path
    BY <1>2, <2>1, OnlyOne
  <2> QED
    BY <2>1, <2>2
<1>6. /\ tree[c.path] # None /\ TablesOf(c.path) # {} /\ c.tables = Cardinality(TablesOf(c.path))
      /\ tree[c.path] \cap Unreadable = {}
  BY <1>2 DEF Current
<1>7. ScanDB(cfg).status = "measured" /\ Cardinality(ScanDB(cfg).tables) = c.tables
  BY <1>2, <1>3, <1>5, <1>6, DirectoryMeasured, ZenonT(40)
<1>8. ASSUME NEW d \in Walked \ ToSet(cfg.paths), tree[d] # {}, ~ \E f \in tree[d] : Version[f] = None
      PROVE  ScanDB(Alone(d)).tables = {}
  <2>1. d \in Dir /\ tree[d] # None
    BY DEF Walked
  <2>2. CASE tree[d] \cap Unreadable # {}
    BY <2>1, <2>2, AloneIsValid, DirectoryUnread
  <2>3. CASE tree[d] \cap Unreadable = {}
    <3>1. PICK e \in i.candidates : e.path = d
      <4>1. d \in {e.path : e \in i.candidates}
        BY <1>4, <1>8, <2>3 DEF Current, ProveFails
      <4> QED
        BY <4>1
    <3>2. TablesOf(d) = {}
      BY <1>3, <1>4, <1>8, <3>1 DEF Current
    <3> QED
      BY <2>1, <2>3, <3>2, AloneIsValid, DirectoryMeasured
  <2> QED
    BY <2>2, <2>3
<1> QED
  BY <1>7, <1>8

\* What is reported as written is measured.
LEMMA ReportedIsMeasured == SetupInv => WrittenIsMeasured
<1> SUFFICES ASSUME SetupInv, Reported, quiet, report.action # "skipped"
             PROVE  CASE report.schema.says = "configured" ->
                         /\ ScanDB(config).status = "measured"
                         /\ \A c \in report.schema.written : Cardinality(ScanDB(config).tables) = c.tables
                         /\ \A d \in Walked \ ToSet(config.paths) :
                              tree[d] = {} \/ (\E f \in tree[d] : Version[f] = None)
                                \/ ScanDB(Alone(d)).tables = {}
                      [] report.schema.says = "notConfigured" -> ScanDB(config).status = "notMeasured"
                      [] OTHER -> ToSet(config.paths) = {PrismaFile}
  BY DEF WrittenIsMeasured
<1> DEFINE i == Detected
<1>1. report.schema = writeSchemaSection(i) /\ config = RenderConfig(i)
  BY DEF SetupInv, ReportInv, Reported
<1>2. Current(i) /\ Detection(i) /\ TreeOK
  BY DetectedIsCurrent DEF SetupInv, SetupTypeOK, Current
<1> HIDE DEF i
<1>3. config # None /\ Valid(config) /\ config.paths = i.paths
  BY <1>1, <1>2, Rendered
<1>4. CASE provenSchema(i) # {}
  <2>1. report.schema = [says |-> "configured", written |-> provenSchema(i), left |-> LeftOut(i)]
    BY <1>1, <1>2, <1>4, WrittenAndLeft
  <2>2. report.schema.says = "configured" /\ report.schema.written = provenSchema(i)
    BY <2>1, SectionFields
  <2>3. \A c \in provenSchema(i) :
          /\ ScanDB(config).status = "measured"
          /\ Cardinality(ScanDB(config).tables) = c.tables
          /\ \A d \in Walked \ ToSet(config.paths) :
               tree[d] = {} \/ (\E f \in tree[d] : Version[f] = None) \/ ScanDB(Alone(d)).tables = {}
    BY <1>1, <1>2, SaidIsMeasured
  <2> QED
    BY <1>4, <2>2, <2>3
<1>5. CASE i.paths = <<>>
  <2>1. report.schema = [says |-> "notConfigured", written |-> {}, left |-> LeftOut(i)]
    BY <1>1, <1>2, <1>5, WrittenAndLeft
  <2>2. report.schema.says = "notConfigured"
    BY <2>1, SectionFields
  <2>3. ScanDB(config) = Answer("notMeasured", {})
    BY <1>3, <1>5 DEF ScanDB
  <2> QED
    BY <2>2, <2>3, AnswerFields
<1>6. CASE provenSchema(i) = {} /\ i.paths # <<>>
  <2>1. report.schema = [says |-> "", written |-> {}, left |-> LeftOut(i)]
    BY <1>1, <1>2, <1>6, WrittenAndLeft
  <2>2. report.schema.says = ""
    BY <2>1, SilentSection
  <2>3. i.paths = <<PrismaFile>>
    BY <1>2, <1>6, WrittenAndLeft
  <2> QED
    BY <1>3, <2>2, <2>3, OnlyOne
<1> QED
  BY <1>4, <1>5, <1>6

\* What is lost or left out is named.
LEMMA ReportedIsComplete == SetupInv => LossesAreNamed
<1> SUFFICES ASSUME SetupInv, Reported PROVE LossesAreNamed
  BY DEF LossesAreNamed
<1>1. /\ lost = {c.path : c \in report.dropped}
      /\ \A c \in report.dropped \cup report.schema.left : c.reason # ""
  BY DEF SetupInv, LostInv, Reported
<1>2. ASSUME quiet, report.action # "skipped"
      PROVE  /\ \/ {c.path : c \in report.schema.left} =
                     {d \in Walked : tree[d] # {} /\ ~ ProveFails(d)} \ ToSet(config.paths)
                \/ report.schema.says = ""
             /\ config.note.found = report.schema.left
             /\ (\E c \in config.note.found : c.reason = "ambiguous") =>
                  ScanDB(Alone(config.note.example)).status = "measured"
  <2> DEFINE i == Detected
  <2>1. report.schema = writeSchemaSection(i) /\ config = RenderConfig(i)
    BY <1>2 DEF SetupInv, ReportInv, Reported
  <2>2. Current(i) /\ Detection(i) /\ TreeOK
    BY DetectedIsCurrent DEF SetupInv, SetupTypeOK, Current
  <2> HIDE DEF i
  <2>3. config.paths = i.paths /\ config.note = CandidatesNote(i)
    BY <2>1, <2>2, Rendered
  <2>4. config.note.found = LeftOut(i)
    BY <2>3 DEF CandidatesNote
  <2>5. /\ report.schema.left = LeftOut(i)
        /\ report.schema.says # "" => i.paths # <<PrismaFile>>
    <3>1. CASE provenSchema(i) # {}
      <4>1. report.schema = [says |-> "configured", written |-> provenSchema(i), left |-> LeftOut(i)]
        BY <2>1, <2>2, <3>1, WrittenAndLeft
      <4>2. i.candidates # {}
        BY <3>1 DEF provenSchema
      <4>3. \A x \in Dir : <<x>> # <<PrismaFile>> /\ <<x>> # <<>>
        BY FilesAssumption
      <4>4. i.paths # <<PrismaFile>>
        <5>1. i.candidates \subseteq Candidate
          BY <2>2 DEF Detection
        <5>2. \A c \in i.candidates : <<c.path>> # <<PrismaFile>>
          BY <4>3, <5>1 DEF Candidate
        <5>3. <<>> # <<PrismaFile>>
          OBVIOUS
        <5> QED
          BY <2>2, <4>2, <5>2, <5>3 DEF Detection
      <4> QED
        BY <4>1, <4>4, SectionFields
    <3>2. CASE i.paths = <<>>
      <4>1. report.schema = [says |-> "notConfigured", written |-> {}, left |-> LeftOut(i)]
        BY <2>1, <2>2, <3>2, WrittenAndLeft
      <4> QED
        BY <3>2, <4>1, SectionFields
    <3>3. CASE provenSchema(i) = {} /\ i.paths # <<>>
      <4>1. report.schema = [says |-> "", written |-> {}, left |-> LeftOut(i)]
        BY <2>1, <2>2, <3>3, WrittenAndLeft
      <4>2. report.schema.says = "" /\ report.schema.left = LeftOut(i)
        BY <4>1, SilentSection
      <4> QED
        BY <4>2
    <3> QED
      BY <3>1, <3>2, <3>3
  <2>6. i.paths # <<PrismaFile>> =>
          {c.path : c \in LeftOut(i)} = {d \in Walked : tree[d] # {} /\ ~ ProveFails(d)} \ ToSet(i.paths)
    <3>1. {c.path : c \in LeftOut(i)} = {c.path : c \in i.candidates} \ ToSet(i.paths)
      BY DEF LeftOut
    <3> QED
      BY <2>2, <3>1 DEF Current
  <2>7. ASSUME NEW c \in LeftOut(i), c.reason = "ambiguous"
        PROVE  ScanDB(Alone(config.note.example)).status = "measured"
    <3>1. c \in i.candidates
      BY DEF LeftOut
    <3>2. i.paths = <<>>
      BY <2>2, <2>7, <3>1 DEF Detection
    <3>3. config.note.example = FirstCandidate(i.candidates)
      BY <2>3, <3>2 DEF CandidatesNote
    <3>4. i.candidates \subseteq Candidate
      BY <2>2 DEF Detection
    <3>5. PICK e \in i.candidates : e.reason = "ambiguous" /\ FirstCandidate(i.candidates) = e.path
      BY <2>7, <3>1, <3>4, FirstIsOffered
    <3>6. /\ e.path \in Dir /\ tree[e.path] # None
          /\ TablesOf(e.path) # {} /\ tree[e.path] \cap Unreadable = {}
      BY <2>2, <3>4, <3>5 DEF Current, Candidate
    <3> QED
      BY <2>2, <3>3, <3>5, <3>6, AloneIsValid, DirectoryMeasured
  <2> QED
    BY <2>3, <2>4, <2>5, <2>6, <2>7
<1> QED
  BY <1>1, <1>2 DEF LossesAreNamed

-----------------------------------------------------------------------------
(* The theorems. *)

\* Over a project of any directories and files, in any state a developer may have left it, what
\* a finished init says it proved and wrote is what the next audit measures, with the tables it
\* counted, and no other directory in sight could have been written instead: the answer of a
\* directory depends on nothing but its files, which nobody has changed.
THEOREM InitWritesWhatIsMeasured == Spec => []WrittenIsMeasured
BY SetupInvariant, ReportedIsMeasured, PTL

\* A schema path a finished init took out of a configuration that loaded, and a directory in sight
\* that it did not write and of which no file failed to be read for its proof, is named by the
\* report and by the configuration, with a reason; a path the configuration offers to the
\* developer's choice is one an audit measures.
THEOREM InitNamesItsLosses == Spec => []LossesAreNamed
BY SetupInvariant, ReportedIsComplete, PTL

\* Only the configuration step goes on to the agents, and only the report step reports.
LEMMA RerunStep ==
  ASSUME SetupInv, [Next]_vars, report # None, quiet
  PROVE  /\ step = "writing" /\ step' = "placing" /\ report.action # "skipped" => config' = config
         /\ step = "placing" /\ report' # report /\ report' # None =>
              /\ report'.agents = report.agents
              /\ report'.schema.left = report.schema.left
              /\ report.action # "skipped" => report'.dropped = {}
<1>1. ASSUME step = "writing", step' = "placing", report.action # "skipped"
      PROVE  config' = config
  <2>1. info = Detected /\ config = RenderConfig(Detected)
    BY <1>1 DEF SetupInv, RunInv, ReportInv, AtWork
  <2>2. SkipConfig \/ WriteConfig
    BY <1>1 DEF Next, vars, Run, Begin, Confirm, Detect, ConfigFails, PlaceSkill, PlaceFails, Report,
                Fail, Over, Developer, AddMigration, RemoveDirectory, EditPrisma, AddToRoot,
                RemoveFromRoot, EditConfig, Edit
  <2> QED
    BY <2>1, <2>2 DEF SkipConfig, WriteConfig
<1>2. ASSUME step = "placing", report' # report, report' # None
      PROVE  /\ report'.agents = report.agents
             /\ report'.schema.left = report.schema.left
             /\ report.action # "skipped" => report'.dropped = {}
  <2>1. Report
    BY <1>2 DEF Next, vars, Run, Begin, Confirm, Detect, SkipConfig, WriteConfig, Account, ConfigFails,
                PlaceSkill, PlaceFails, Fail, Over, Developer, AddMigration, RemoveDirectory,
                EditPrisma, AddToRoot, RemoveFromRoot, EditConfig, Edit
  <2>2. /\ report' = formatReport
        /\ info = Detected /\ result.agents = AgentNames
        /\ report.schema = writeSchemaSection(Detected) /\ report.agents = AgentNames
        /\ report.action # "skipped" => result.dropped = {}
    BY <1>2, <2>1 DEF Report, SetupInv, RunInv, ReportInv, AtWork
  <2>3. /\ report'.agents = result.agents /\ report'.dropped = result.dropped
        /\ report'.schema = writeSchemaSection(info)
    BY <2>2 DEF formatReport
  <2> QED
    BY <2>2, <2>3
<1> QED
  BY <1>1, <1>2

\* Init run again over a project nobody changed writes the same configuration, names the same
\* agents and directories and drops nothing: the skill it wrote is no sign of another agent or
\* of another language.
THEOREM InitIsStable == Spec => RerunIsStable
<1>1. SetupInv /\ [Next]_vars =>
        [ report # None /\ quiet =>
            /\ step = "writing" /\ step' = "placing" /\ report.action # "skipped" => config' = config
            /\ step = "placing" /\ report' # report /\ report' # None =>
                 /\ report'.agents = report.agents
                 /\ report'.schema.left = report.schema.left
                 /\ report.action # "skipped" => report'.dropped = {} ]_vars
  BY RerunStep
<1> QED
  BY <1>1, SetupInvariant, PTL DEF Spec, RerunIsStable
=============================================================================
