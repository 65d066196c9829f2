---------------------------- MODULE SchemaSources ----------------------------
(***************************************************************************)
(* From database.schema_paths to a schema: which parser the paths select,  *)
(* which files they resolve to and in which order, what a directory proves  *)
(* before init may write it, and what codefit-scan-db answers for a        *)
(* configuration (config/validate.go, schemasource, sensors/db, mcp).      *)
(* What a file declares is the effect its statements leave in the schema.  *)
(***************************************************************************)
EXTENDS Integers, SequencesExt

CONSTANTS
  None,
  Dir,         \* directories of the project, as project-relative paths
  PrismaFile,  \* prisma/schema.prisma
  File,        \* .sql files a directory can hold
  Version,     \* the number a name V<n>__ carries, or None
  Rank,        \* the lexical order of the names
  Creates,     \* the tables a file leaves declared
  Drops,       \* the tables it drops first
  Unreadable,  \* files whose bytes cannot be read: another's, or a link to nothing
  ReadBy       \* the dialects whose grammar its statements follow

ASSUME FilesAssumption ==
  /\ IsFiniteSet(Dir) /\ IsFiniteSet(File) /\ Unreadable \subseteq File
  /\ \A f \in File : /\ Version[f] \in Nat \cup {None}
                     /\ Rank[f] \in Nat
                     /\ IsFiniteSet(Creates[f])
                     /\ ReadBy[f] \subseteq {"postgresql", "mysql", "sqlserver"}
  /\ \A f, g \in File : Rank[f] = Rank[g] => f = g
  /\ PrismaFile \notin Dir

ASSUME NoneAssumption == None \notin {"postgresql", "mysql", "sqlserver", "prisma"}

VARIABLES
  tree,    \* the .sql files at each directory's own level, or None where there is no directory
  prisma   \* the Prisma schema: absent, one that declares no model, or one that does

-----------------------------------------------------------------------------
(* The configuration. *)

allowedLanguages == {"typescript", "java", "python", "go", "undetected"}
allowedParadigms == {"oltp", "olap", "mixed", "auto"}
allowedDBTypes   == {"postgresql", "mysql", "sqlserver", "sqlite", "none"}

\* Load with validate.  A file cut short decodes to a configuration without a language.
Valid(cfg) ==
  /\ cfg.language \in allowedLanguages
  /\ cfg.paradigm \in allowedParadigms \cup {""}
  /\ cfg.type \in allowedDBTypes \cup {""}

-----------------------------------------------------------------------------
(* The parser, by the shape of the paths. *)

classifySchemaPath(p) ==
  CASE p = PrismaFile -> "prisma"
    [] p # PrismaFile /\ tree[p] # None -> "sql"
    [] OTHER -> "unknown"

sqlDialectParser(type) ==
  CASE type \in {"postgresql", "mysql", "sqlserver"} -> type
    [] type \in {"", "none"} -> "postgresql"
    [] OTHER -> None

ParserForPaths(paths, type) ==
  LET kinds == {classifySchemaPath(p) : p \in ToSet(paths)}
  IN CASE {"prisma", "sql"} \subseteq kinds -> None
       [] "prisma" \in kinds /\ "sql" \notin kinds -> "prisma"
       [] "sql" \in kinds /\ "prisma" \notin kinds -> sqlDialectParser(type)
       [] OTHER -> None

-----------------------------------------------------------------------------
(* The sources. *)

\* flywayOrderedSQL: versions by number, every other name after them by the alphabet.
Before(f, g) ==
  \/ Version[f] # None /\ Version[g] = None
  \/ Version[f] # None /\ Version[g] # None /\ Version[f] < Version[g]
  \/ Version[f] = Version[g] /\ Rank[f] < Rank[g]

\* Each file at its place: as many come before it as it has predecessors.
flywayOrderedSQL(d) ==
  [i \in 1..Cardinality(tree[d]) |->
     CHOOSE f \in tree[d] : Cardinality({g \in tree[d] : Before(g, f)}) = i - 1]

\* A configured path that is not there, or holds a file that cannot be read, ends the reading of all.
Missing(p) ==
  IF p = PrismaFile THEN prisma = "absent" ELSE tree[p] = None \/ tree[p] \cap Unreadable # {}

\* readSchemaSources: one entry, one level of it.
Sources(p) ==
  IF p = PrismaFile THEN << <<p, p>> >>
  ELSE LET files == flywayOrderedSQL(p) IN [i \in DOMAIN files |-> <<p, files[i]>>]

\* ParseSchema: the tables that are left, each with the source that declares it, and the sources
\* of statements that were recorded and not reduced.
Nothing == [tables |-> {}, unreduced |-> {}]

Apply(schema, source, parser) ==
  LET f    == source[2]
      kept == {t \in schema.tables : t[1] \notin Drops[f]}
      new  == {c \in Creates[f] : \A t \in kept : t[1] # c}
  IN CASE parser = "prisma" ->
            [schema EXCEPT !.tables = @ \cup {<<"model", source>> : m \in {prisma} \cap {"models"}}]
       [] parser # "prisma" /\ parser \in ReadBy[f] ->
            [schema EXCEPT !.tables = kept \cup {<<c, source>> : c \in new}]
       [] OTHER -> [schema EXCEPT !.unreduced = @ \cup {source}]

ParseSchema(parser, sources) ==
  LET read[n \in 0..Len(sources)] ==
        IF n = 0 THEN Nothing ELSE Apply(read[n - 1], sources[n], parser)
  IN  read[Len(sources)]

Contributing(schema) == {t[2] : t \in schema.tables} \cup schema.unreduced

-----------------------------------------------------------------------------
(* What a directory proves. *)

\* OrderingIsProven: at least one file, and a version on every one.
OrderingIsProven(files) == files # {} /\ \A f \in files : Version[f] # None

\* Prove gives no answer of a directory of which a file cannot be read; one without an order it does
\* not read.
ProveFails(d) == OrderingIsProven(tree[d]) /\ tree[d] \cap Unreadable # {}

\* Prove: the order, and the tables reading it as an audit would leaves.
Prove(d) ==
  LET ordered == OrderingIsProven(tree[d])
  IN  [ ordered |-> ordered, sqlFiles |-> Cardinality(tree[d]),
        tables  |-> IF ordered
                    THEN Cardinality(ParseSchema(ParserForPaths(<<d>>, ""), Sources(d)).tables)
                    ELSE 0 ]

-----------------------------------------------------------------------------
(* codefit-scan-db *)

Answer(status, tables) == [status |-> status, tables |-> tables]

\* Audit: measured unless every configured path left nothing in the schema.
Audit(paths, parser) ==
  LET schema == ParseSchema(parser, FlattenSeq([k \in DOMAIN paths |-> Sources(paths[k])]))
  IN  IF \E p \in ToSet(paths) : \E s \in Contributing(schema) : s[1] = p
      THEN Answer("measured", {t[1] : t \in schema.tables})
      ELSE Answer("notMeasured", {})

\* HandleScanDB: an invalid configuration and a path that cannot be read are errors, a
\* configuration without a schema or a parser is not measured.
ScanDB(cfg) ==
  CASE cfg = None -> Answer("notMeasured", {})
    [] cfg # None /\ ~ Valid(cfg) -> Answer("error", {})
    [] cfg # None /\ Valid(cfg) /\ (cfg.paths = <<>> \/ ParserForPaths(cfg.paths, cfg.type) = None) ->
         Answer("notMeasured", {})
    [] OTHER ->
         IF \E p \in ToSet(cfg.paths) : Missing(p) THEN Answer("error", {})
         ELSE Audit(cfg.paths, ParserForPaths(cfg.paths, cfg.type))
=============================================================================
