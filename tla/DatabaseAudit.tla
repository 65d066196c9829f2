--------------------------- MODULE DatabaseAudit ---------------------------
(***************************************************************************)
(* The DB sensor's reading of a project: the sources the configured paths  *)
(* resolve to are reduced in order, the rules are run over the schema, and *)
(* every source that left nothing in it is declared with its reason        *)
(* (sensors/db Audit, unread.go).  The schema is compared with the         *)
(* database the same statements make.                                      *)
(***************************************************************************)
EXTENDS DeclaredSchema

CONSTANTS
  TypeOf, ListColumn, AuditStamp, Sensitive, BaseOf, Filter,
  Paths,     \* database.schema_paths, in order: the files each entry resolved to
  NotText    \* files whose bytes are not text

INSTANCE SchemaRules

ASSUME RulesAssumption ==
  /\ ListColumn \subseteq Column /\ AuditStamp \subseteq Column /\ Sensitive \subseteq Column
  /\ DOMAIN TypeOf = Column /\ DOMAIN BaseOf = Column
  /\ \A f \in Filter : IsFiniteSet(f.cols)

\* A place is a line of its source: of two elements one comes first in the text.
ASSUME PlaceAssumption == Id \subseteq Nat

ASSUME PathsAssumption ==
  /\ NotText \subseteq File
  /\ \A p \in DOMAIN Paths : Paths[p] \subseteq File
  /\ UNION {Paths[p] : p \in DOMAIN Paths} = File

-----------------------------------------------------------------------------
(* What the rules read of the schema. *)

View(t) == [ cols |-> Names(t), key |-> t.key, indexes |-> t.indexes, foreign |-> t.foreign,
             proven |-> StructureProven(t) ]

Schema == [n \in {m \in Name : tables[m] # None} |-> View(tables[n])]

-----------------------------------------------------------------------------
(* unread.go: the sources that contributed nothing. *)

\* contributingFiles: any element, and any record of a statement that was not reduced.
Contributing ==
  {p[1] : p \in elements \cup unreduced \cup withheld \cup
     UNION {{tables[n].at} \cup {c.at : c \in tables[n].cols} \cup {f.at : f \in tables[n].foreign} \cup
            {x.at : x \in tables[n].indexes} \cup {u.at : u \in tables[n].unreduced}
              : n \in DOMAIN Schema}}

Accounted(f) == satisfied[f] + silent[f]

\* reasonFor: blindness is what is left when nothing explains the file.  A file of which the
\* tokenizer finds no statement declares nothing outside whitespace and comments.
ReasonFor(f) ==
  CASE f \in NotText                  -> "notText"
    [] f \notin NotText /\ total[f] = 0 -> "noDeclarations"
    [] f \notin NotText /\ total[f] > Accounted(f) -> "nothingRecognized"
    [] f \notin NotText /\ total[f] > 0 /\ total[f] <= Accounted(f) /\ satisfied[f] > 0 -> "alreadySatisfied"
    [] OTHER                          -> "declaresNoSchema"

Defect == {"notText", "nothingRecognized", "resolvedNoFiles"}

\* unreadSources: a configured path without a file, and each file of a path that left no trace.
Unread ==
  {[path |-> p, file |-> 0, reason |-> "resolvedNoFiles"] : p \in {q \in DOMAIN Paths : Paths[q] = {}}} \cup
  UNION {{[path |-> p, file |-> f, reason |-> ReasonFor(f)] : f \in Paths[p] \ Contributing} : p \in DOMAIN Paths}

\* wholeScanUnproductive: no configured path contributed anything.
Measured == \E p \in DOMAIN Paths : Paths[p] \cap Contributing # {}

-----------------------------------------------------------------------------
(* db.go: the note of the answer. *)

completenessInventoryTableCap == 5
completenessInventoryReasonCap == 3

\* unreadNote: the reasons that are defects come first, and of those no source is left out.
Sooner(u, w) == u.path < w.path \/ (u.path = w.path /\ u.file < w.file)
Reasons == {u.reason : u \in Unread}
ComesFirst(q, r) ==
  IF (q \in Defect) # (r \in Defect) THEN q \in Defect
  ELSE \E u \in Unread : u.reason = q /\ \A w \in Unread : w.reason = r => Sooner(u, w)
UnreadNote ==
  {u \in Unread :
     /\ Cardinality({q \in Reasons \ {u.reason} : ComesFirst(q, u.reason)}) < completenessInventoryReasonCap
     /\ u.reason \in Defect \/
          Cardinality({w \in Unread : w.reason = u.reason /\ Sooner(w, u)}) < completenessInventoryTableCap}

\* routingClause: the tables DB-050 made a question of.
Routed(group) == {n \in group : tables[n].key = <<>>}

\* completenessNote: the unproven tables, those of one Note together, which names the reasons a
\* table was marked with; above the cap, which groups are left out is a matter of their order.
NoteOf(n) == {r.reason : r \in tables[n].unreduced}
Groups ==
  LET unproven == {n \in DOMAIN Schema : ~Schema[n].proven}
  IN  {{m \in unproven : NoteOf(m) = NoteOf(n)} : n \in unproven}
CompletenessNote ==
  [ groups     |-> IF Cardinality(Groups) <= completenessInventoryReasonCap
                   THEN {[tables |-> g, routed |-> Routed(g)] : g \in Groups} ELSE {},
    statements |-> unreduced,
    exception  |-> Groups # {} \/ unreduced # {} ]

\* withheldNote, by the place of the declaration.
WithheldNote == withheld

\* Audit: a scan that read nothing has no note but the first.
Note ==
  IF Measured
  THEN [measured |-> TRUE, unread |-> UnreadNote, completeness |-> CompletenessNote, withheld |-> WithheldNote]
  ELSE [measured |-> FALSE, unread |-> UnreadNote]

\* The sources are all read.
AllRead == Idle /\ pending = None /\ file = Files

-----------------------------------------------------------------------------
(* Properties *)

\* What a rule concludes from an absence, it concludes of the database: a proven table said to
\* have no primary key has none, a foreign key or a filter said to be unindexed is, and a table
\* said to keep no timestamp keeps none.  Excepted are the tables the reducer lost track of and,
\* where a key serves as an index, those it may have a key of that the database has not.
IndexesOf(t) == {x.cols : x \in t.indexes} \cup t.keys
Unserved(t, S) ==
  /\ \A cols \in IndexesOf(t) : {cols[i] : i \in DOMAIN cols \cap 1..Cardinality(S)} # S
  /\ \A cols \in t.keys \cup {x.cols : x \in {y \in t.indexes : y.unique}} :
       cols = <<>> \/ \E i \in DOMAIN cols : cols[i] \notin S

AbsencesAreReal ==
  Idle =>
    LET seen == {n \in DOMAIN Schema : n \notin blind \cup keyless /\ Schema[n].proven}
    IN  /\ \A n \in NoPrimaryKey(Schema) \ blind : db[n] # None /\ db[n].keys = {}
        /\ \A x \in ForeignKeyNoIndex(Schema) : x[1] \notin blind \cup keyless =>
             \A cols \in IndexesOf(db[x[1]]) : \E i \in DOMAIN x[2].cols :
               i \notin DOMAIN cols \/ cols[i] # x[2].cols[i]
        /\ \A n \in NoTimestamps(Schema) \ blind :
             \A c \in db[n].cols : c \in AuditStamp => TypeOf[c] \notin {"int", "datetime"}
        /\ \A x \in FilteredColumnNoIndex(Schema) \cup NoCompositeIndex(Schema) :
             x[1] \in seen => Unserved(db[x[1]], x[2])

\* DB-011a and DB-011b ask whether an index is redundant.  Dropping every index they ask about
\* at once leaves each lookup the indexes served, and each unique key they enforced.
RedundantIndexesAreRedundant ==
  Idle => \A n \in DOMAIN Schema :
    LET t == Schema[n]
        kept == [t EXCEPT !.indexes = @ \ (Duplicates(t) \cup Subsumed(t))]
    IN  /\ \A x \in t.indexes : x.cols # <<>> => CoveredByOrderedPrefix(kept, x.cols)
        /\ {x.cols : x \in {y \in t.indexes : y.unique}} = {x.cols : x \in {y \in kept.indexes : y.unique}}

\* A source whose statements changed the database is never declared to have nothing to say: it
\* is in the schema, or the note names it as one codefit was blind over.  That is so while the
\* reducer has lost track of no table.
ChangedSourcesAreSeen ==
  AllRead => \A f \in changed :
    f \in Contributing \/ blind # {} \/ \E x \in Note.unread : x.file = f /\ x.reason \in Defect

\* Tables the database may have before the first source.
Found == {n \in Name : \E d \in Before : d[n] # None}

\* What codefit cannot say of a table it says it cannot.  A table without a key is affirmed, asked
\* about, or missing with a statement in the note (but for those no source declares, those the
\* reducer lost track of, and those it may have a key of that the database has not: a key that was
\* dropped by its name, or went with a column); of an unproven table the note says whether
\* it was asked about; and no question of the code is asked over one without the note's exception.
NothingIsPassedOver ==
  AllRead /\ Note.measured =>
    LET s == Schema  note == Note.completeness  asked == UnprovenTable(s)
    IN  /\ \A n \in Name \ (blind \cup keyless) : db[n] # None /\ db[n].keys = {} =>
             IF tables[n] = None THEN n \in Found \/ note.statements # {}
             ELSE n \in NoPrimaryKey(s) \cup asked
        /\ \A g \in note.groups : g.routed = g.tables \cap asked
        /\ \A x \in FilteredColumnNoIndex(s) \cup NoCompositeIndex(s) : s[x[1]].proven \/ note.exception
=============================================================================
