# codefit in TLA+

This directory specifies the parts of codefit that keep state or decide what an agent gets to see. codefit
is a Go MCP server (`src/internal`, about 28 500 lines without tests) that audits AI-generated code: an
agent calls its tools, reasons about what they ask, and a human accepts or rejects. TLC model-checks the
modules on small instances and TLAPS proves most of their properties for every value of the constants.
`PROJECT.json` lists the runs, which source lines each definition stands for, the hazards, the findings and
the theorems.

To repeat a run: `tlc -config ledger.cfg MCAuditLedger`. To repeat a proof: `tlapm BaselineProofs.tla`.

## 1. The system

codefit answers tool calls. Between calls it remembers exactly two things: the committed file
`.codefit-baseline`, its audit memory, and an opt-in finding cache under `.codefit/cache`. Everything else
is computed afresh from the files of the project. Calls are served by one or several processes (one per
client), and nothing in the code keeps two calls apart.

```
 agent / human
   |  scan-all, accept, record-verdict, prune, register/unregister helper, confirm-surface, ...
   v
 mcp  ----------------------------------------------------------------------------------------
   |  Load / Save           | analysis                      | shaping the answer
   v                        v                               v
 core/baseline           sensors/security --- core/cache   core/report (endpoints, buckets)
 .codefit-baseline          providers/typescript, golang   mcp/scanall_budget (byte budget)
                            core/ruleengine, core/surface  core/scoring, mcp/verdictscore
                         sensors/db
                            schemasource, providers/sqlddl (and Prisma, ORM providers)
                            core/db, dbrules, dwrules, paradigm
                         core/crossrules (code x schema)
```

| component | state | operations | what is hard | what makes it correct |
|---|---|---|---|---|
| Committed baseline, `core/baseline` | the items (fingerprint, acknowledgement, verdict history) and the registered helpers, one YAML file | Load, Save (temp file and rename), Diff, Accept, RecordVerdict, Prune, register / unregister helper | several loops of Diff over one list: an item may be carried, replaced, pruned, added; crash inside Save | one entry for each fingerprint; nothing acknowledged but by a human; the file always whole |
| Baseline calls, `mcp/baseline`, `mcp/recordverdict`, `mcp/scanall` | none of their own between calls; a copy of the file while one runs | scan-all, accept, record-verdict, prune, helpers | read-modify-write over a shared file without a lock; partial looks (scope, language, a sensor that did not run); the code edited between steps | what was answered as recorded stays while the code stays; gone means gone; a question is silenced only after an answer the client got |
| scan-all's answer, `core/report`, `mcp/scanall_budget` | none | aggregate, classify, fit to the budget | a search over a size that is not monotone; three lists cut from their ends | facts are never withheld; the worst is withheld last; as few as needed; it ends |
| Finding cache, `core/cache` | entry files in one directory per analyzer (a generation) | identity, get, put (temp file and rename), prune | several processes over one directory, kills, upgraded binaries, foreign files | a hit is what a cold scan would make; a prune takes nothing current; no torn entry |
| Scoring, `core/scoring`, `mcp/verdictscore`, `core/surface` | none | penalties of findings and of verdicts, weighted mean of the measured dimensions | dimensions that were not measured, verdicts that contradict each other | a dismissal never changes the score; an unmeasured dimension is no perfect score |
| Change scope, `core/scope` | none | full or a set of files | forgetting a scope reads as full | a scan forgets only what it looked at |
| Security sensor, `sensors/security` | none (the cache) | walk, analyse each file, regex layer, deduplicate | languages, unread files | every file in scope is analysed or declared |
| DB sensor and schema sources, `sensors/db`, `schemasource`, `mcp/scandb` | none | choose the parser, resolve and order the schema paths, reduce them, run the rules, declare what was not read | files that no parser reads, files whose every statement was already satisfied, tables that are not proven | what was not read is declared, never taken for absent |
| SQL DDL provider, `providers/sqlddl` | the splitter's and the reducer's, for one reading | split statements, reduce CREATE, ALTER, DROP, INDEX, routines, triggers, views | order of statements, guarded and repeated forms, items in no known form, statements run together, bodies with separators inside | a table called proven lacks nothing that was declared; a body called complete is whole |
| DB rules, `core/dbrules`, `core/dwrules`, `core/paradigm`, `core/db`, `core/crossrules` | none | rules over the schema model, index coverage, detection of warehouses and their roles | conclusions from absences over incomplete models, claims over all tables of a kind | an absence is claimed only where it is one; a role never rests on what was lost |
| Rule engine, `core/ruleengine` | compiled rules | load, match | nested boolean matchers | a rule matches exactly what its tree says |
| Language providers, `providers/typescript`, `providers/golang`, `providers/registry` | none | parse, extract surface, findings, query filters | pattern recognition over syntax trees | see section 5 |
| CVE lookup, `core/cve`, `mcp/cve` | none | parse manifests, batch query, details | requests that fail half-way | a failed part is an error, never "no vulnerability" |
| Surface framework and confirm-surface, `core/surface`, `mcp/surface` | none | what is unresolved, what a confirmed item costs | severities and confidences | a confirmed item becomes one finding |
| Coverage manifest, other scan handlers, server | none | render, register tools | none of state | |
| Configuration and init, `config`, `scaffold`, `cli` | `.codefit.yaml` and the skill files in the agents' directories | detect, prove a schema directory, write, report, re-run | each write can fail; the project changes meanwhile; a re-run over a hand-written or older configuration | what it says it wrote is what the next audit measures; nothing it takes away goes unnamed |
| Text helpers, `core/sourcetext`, `core/namematch`, ... | none | decode, strip comments, match names | characters | |

`PROJECT.json`, "components", says how much of each is modelled; section 5 says what is not.

## 2. The modules

### The audit memory

| module | what it is |
|---|---|
| `Baseline` | the values of `core/baseline` and its pure functions |
| `BaselineStore` | the calls of package `mcp` over the file, step by step |
| `AuditLedger` | `BaselineStore` and the promises its answers made (a history variable) |
| `AuditAnswers` | `BaselineStore` and what was told, withheld, approved and judged (history variables) |
| `AuditMemory` | the abstract specification: one atomic step for each call |
| `BaselineInstance`, `MCAuditLedger`, `MCAuditAnswers` | the small project TLC checks |
| `BaselineProofs` | the proofs |

**Values.** A fingerprint hashes the category, the file and the content of an item, so the category and the
file are functions of it (`CategoryOf`, `FileOf`). The YAML list of items is kept per fingerprint as the
*sequence* of its entries, because the code can represent duplicates, and because `index` takes the last
duplicate while `RecordVerdict` updates the first. Verdict histories are sets: no caller tells the order or
number of equal verdicts apart. Display fields, reasons and dates are left out.

`DiffNext`, `DiffShown`, `DiffGone` are the three results of `Diff`. At each file and category the code pairs
a new item with the gone item that comes first in the list; since the order of different fingerprints is not
kept, `Replacements` is the set of all pairings of the right size, a superset of what the code may choose.

**State.** `code` is what an analysis of the whole project would yield now (the developer edits it at any
time), `disk` the file, `tmp[c]` the temp file a call has open, `call[c]` its local variables: the loaded
baseline `mem`, what its sensors observed (`seen`), the part of the baseline they looked at (`looked`), the
arguments, and the answer it will give.

**Actions.** One per step that another actor can come between:

| handler | actions |
|---|---|
| `scan-all` | `ScanLoad`, `ScanRun` (sensors, diff, budget, write gate), `ScanFails`, then `SaveCreate` ... or, over budget, straight to `Reply` |
| `accept` | `AcceptLoad`, `Save...`, `Reply` |
| `record-verdict` | `VerdictAnalyse` (the files are re-analysed), `VerdictLoad`, `Save...`, `Reply` |
| `prune` | `PruneAnalyse` (the whole project is re-analysed), `PruneLoad`, `Save...`, `Reply` |
| register / unregister | `RegisterLoad`, `UnregisterLoad`, `Save...`, `Reply` |
| `Save` | `SaveCreate` (CreateTemp), `SaveWrite`, `SaveRename`, or `SaveFails` at any of them |
| environment | `Edit` (the developer), `Crash` (the process is killed at any step of a call) |

`ScanRun` has the whole condition under which a dimension is measured: a full or narrowed scope, a language
that is exposed or not, a DB dimension that is configured, in scope and still not measured, and the cross
rules, which run only when the language has a query extractor and see only the filters of the files in
scope. `Scanned` is `buildScanAll`'s list of the categories that join the gone scope.

Two constants are assumptions about the world, not about the code: `Serial` says the client sends a call only
after the reply of the last one (nothing in the code enforces it: several clients can share a project), and
`CanFail` allows failing writes and kills.

**Abstract specification.** `AuditMemory` says what a reader of the file may rely on: a human decides, an
agent reasons, a scan looks (and may forget an item only in exchange for a new one at the same place), a
prune forgets, helpers come and go. `BaselineStore` defines `memory` from the last entry of each fingerprint on
disk and instantiates it (`Memory`). `ImplementsMemory` is then the property that calls one at a time behave
as atomic steps, whatever fails inside.

### The answer of scan-all

| module | what it is |
|---|---|
| `ScanAll` | `AggregateEndpoints`, `ClassifyEndpoints`, the rendering and its size |
| `BudgetSearch` | the search of `fitToBudget`, over any response and any `Fits` |
| `MCScanAll`, `ScanAllProofs` | a small project; the proofs |

`audit` is the input: what the sensor observed, what the baseline shows of it, and the budget in bytes. The
handler runs once through `Aggregate`, `Build`, then `Halve` until the bounds meet, and `Walk`. A list of
endpoints is a set with its ranking (`Ranking`), since no two endpoints share a rank. The order, gap kinds
and certainty of a concern come from the category and the facts the code reads off it (`Reached`, `Left`,
`Guarded`, `Limited`). The serialized size is linear in what is rendered, plus a note: its prose is longer as
soon as something is withheld, and it contains two numbers, so its length depends on their digits. That is
what makes the size *not* monotone, and what the search has to cope with.

### The finding cache

| module | what it is |
|---|---|
| `FindingCache` | the cache, the walk of the security sensor that consults it, and the environment |
| `MCFindingCache`, `FindingCacheProofs` | an instance; the proofs |

An entry file lies under a key `<<analyzer, path, content>>` (hashes in the code) and holds a payload that
names the key again; the entries of one analyzer form a generation directory, and `recent` is the order of
the directories' modification times. A process resolves its identity once, prunes once (`List`, `Remove` whole
generations and list its own; then for each name listed `Look` at the age of what is there, and `Unlink` it if it
was old: two system calls, between which others act), and then walks: each
file is read, looked up, and analysed and stored (`Write` the temp file, `Rename`) if not found. `served`
holds the last analysis taken for a file and the one that would have been made: the properties compare the
two. The environment kills processes, edits files, registers helpers, installs other binaries where the
running ones were started from, lets a month pass, and drops foreign or copied files into the directory.

### The scores

| module | what it is |
|---|---|
| `VerdictScore` | which verdicts become findings, what they cost, the scores of an answer, and the calls that change them |
| `MCVerdictScore`, `VerdictScoreProofs` | an instance; the proofs |

Here the order of verdicts matters (ties go to the last), so `verdicts[i]` is the list an item's record holds,
and `known`, `acked` are the items listed and accepted. A call is one step: that calls one at a time act as
such is what `ImplementsMemory` checks of `BaselineStore`. `Scan` computes its answer from the baseline as it was
loaded and then changes it: it lists what it saw, and replaces gone items by new ones at the same file and
category (`Replaced`), which leave with all that was recorded of them (`Drop`). `measured` is any
non-empty set of the two dimensions a scan measures; which are is decided as in `BaselineStore`. A batch of
verdicts is recorded one after the other. Confidence is in hundredths, so that comparing it is exact; the clamp
of a confidence of 1 to 0.99 plays no part in a score. Negative weights, which the validation lets pass as
long as the sum is 100, are excluded by `VerdictAssumption`.

### The schema

| module | what it is |
|---|---|
| `SchemaReducer` | `providers/sqlddl`: the fold of the sources' statements into the neutral schema, with its accounts |
| `DeclaredSchema` | a database that executes the same statements, as the specification of the reducer |
| `SchemaRules` | the rules over tables (`core/dbrules`, `core/crossrules`, `core/db/indexcover.go`), as operators over a schema |
| `DatabaseAudit` | the sensor's reading: the sources, the unread floor, the notes, and what they promise of the database |
| `MCSchema`, `DatabaseProofs` | an instance; the proofs |

A statement is a record of the heads it matches (`shapes`: the code tries its regular expressions in order, and
more than one can match), what those branches read of it, and `does`, what it means to the database. One
statement is one step, and so is each item of a CREATE TABLE body or part of an ALTER, because an item can be
lost in the middle. The reducer's state is the schema (`tables`, `elements`, `nonTable`, ...), what it remembers
(`seenIndex`), and its accounts by source: `total`, `satisfied`, `silent`, from which `sensors/db/unread.go` decides what
to say of a source that left nothing. An element is told apart by its place in the text, so that two equal
constraints are two.

`DeclaredSchema` runs in lockstep: `db` is what a server would make of the same statements, each as a whole, with the
refusals of a server as guards (`Accepts`): the sources are migrations that were once applied. An ALTER is one change: what it
drops it drops before it adds (`Effective`), and what it adds must be new (`Present`). A key, an index or a constraint may be dropped
by its name (`Unconstrained`), which the reducer takes for a column nobody has. Three history variables: `blind` (tables of which a form
was said that the code is known to lose, `LosesTrackOf`), `keyless` (tables of which the reducer may have a key that the database has
not: one dropped with its column or by its name, or one a guarded ADD gave only the reducer, `LosesKey`), `changed` (sources that changed
the database at all). The first two are what the properties leave out, each where it says so; section 5 lists the forms.

Two items of a body may stand with no comma between them (`GluedItem`). The code cuts them where the second begins with PRIMARY KEY,
UNIQUE or FOREIGN KEY and goes straight on to its columns (`Cut`, `isTableConstraintHead`); any other second item is read as part of
the first and lost, on a table that stays proven (limit 12 of dbcoverage, `reduce.go:1438`), but for the words of it that
`applyColumn` takes for modifiers of the column (`Absorbed`).

What a statement's heads have to do with what it does is not left open. `MeaningAssumption` states, head by head, that what a
branch reads of a statement is what the statement does, wherever the code is able to read it: an item in a known form declares
what it spells, an index is of a table whose name the expression matches, a DROP names what it drops. Where the code skips, the
statement may do more: one that no head matches may create, alter, index, rename or drop a table (T-SQL's IF around a statement,
SELECT INTO, a CREATE SCHEMA with its tables), and an ALTER may reshape its table in words the code has no reading for, a RENAME COLUMN,
a MODIFY, a list of dropped columns (`reshapeTable`; `reduce.go:1919`, `1942`). Both make the table one of `blind`. TLC evaluates the
assumption on the statements of the instance, and the proofs take it for all.

### Routines and their bodies

| module | what it is |
|---|---|
| `SqlText` | `split.go`: a file is cut into statements, one token a step |
| `RoutineRules` | what the reducer makes of the statements of a file (routines, triggers, views, tables), and the rules that read bodies: DB-020, DB-030, DB-031, DB-040, DB-041 |
| `TextAudit` | what both promise, against what the author of the file wrote |
| `MCText`, `TextProofs` | files of up to three constructs, in every way a dialect protects a body; the proofs |

A token is a lexical class with its words; a literal, a comment, a `DELIMITER` or `GO` line is one token, consumed
whole as the loop does. The splitter's state is that of the code: the terminator, whether a dollar block was
seen, whether the head is a routine's. `of` is a ghost: the construct the author wrote a token for. No definition
of the splitter or of the rules reads it.

What an author may write is a predicate on files, not a list of them (`AuthorAssumption`, in the seven parts that
`TextAudit` names): constructs stand one after the other (`Ordered`); the head of a routine, trigger or table stands where one begins
and nowhere else, but for the tables a body builds (`HeadsBegin`); no construct holds a client line or the terminator its file has named with DELIMITER, and
a trigger without a body of its own no `;` (`KeepsSeparatorsOut`); a routine is divided from what follows it, and where
blocks are dollar-quoted from what comes before it (`RoutinesAreDivided`); dollar quotes come in pairs within a construct, and a routine
that has both a block and a `;` outside of it is of the one style the code is known to mistake (`BlocksProtect`); between constructs
are only client lines, comments and terminators, and a terminator comes after every statement that is neither a routine nor one
that its author left without (`SeparatorsSeparate`; only tables and data are left so); a table is
CREATE TABLE with a body in parentheses that close, and no other statement's head after it (`TablesAreShaped`). The files
of `MCText` satisfy it, which TLC evaluates, and the proofs use nothing else of them.

### The warehouse

| module | what it is |
|---|---|
| `Paradigm` | `core/paradigm`: the signals, the gate, the roles, the override |
| `Warehouse` | a warehouse as its DDL declares it and as a reader that may lose items or whole statements has it |
| `WarehouseAudit` | the DW rules (`core/dwrules`), the items withheld in a warehouse, and their note |
| `MCWarehouse`, `WarehouseProofs` | an instance; the proofs |

`Warehouse` abstracts the reducer to its contract: a statement is read whole, in part (the table is then not
proven), or not at all (a record on the schema remains). `declared` and `read` are the two schemas;
the same operators are evaluated on both and compared. `ReaderContract` states what the roles rely on; it is what
`ProvenIsWhole` says of the reducer itself.

### Configuration and init

| module | what it is |
|---|---|
| `SchemaSources` | from `database.schema_paths` to a schema: validation, parser, files and their order, the proof of a directory, the answer of `codefit-scan-db` |
| `ProjectSetup` | `codefit init`, step by step, with a developer who works on the project meanwhile |
| `MCSetup`, `SetupProofs` | an instance; the proofs |

`ProjectSetup` is a process: `Begin` (flags), `Confirm` (the prompt), `Detect` (the walk, the proofs), `WriteConfig`,
`SkipConfig` or `ConfigFails` (the write is not atomic: `Partly` is what a cut file loads as), `PlaceSkill` for each
agent's directory or `PlaceFails`, `Report`. `Developer` adds and removes migrations, edits the Prisma schema, makes
agent directories, and edits the configuration, between any two steps. A file's content is its effect: the tables it
creates and drops, and the dialects that can read it. What `Detect` sees is a function of the files, the Prisma schema and the names
under the root (`present`), and the skill of an agent makes one more such name. `runQuiet` says nobody touched the project since the
running init looked at it, `quiet` that nobody did since the look behind the last report.

## 3. The runs

Passing:

| run | question | instance |
|---|---|---|
| `ledger` | Do calls one at a time, with edits, failing writes and kills anywhere, keep every promise, and act as atomic steps? | two questions of one handler (an edit can replace one with the other) and a question of the code x schema cross; one caller, a verdict, a helper; 248 022 states |
| `answers` | May a scan be silent on something its user never had an account of, or may anything but a human acknowledge? | two questions and a deterministic finding of one handler; one caller; 1 229 944 states |
| `scan` | Which endpoints does an answer withhold, and how many? | seven concerns in two files: every subset of them observed, every subset of those shown, five budgets; about 55 000 states |
| `cache` | Is what the cache serves what a cold scan would make? | two processes, one path, two contents, three binaries, two helper sets; 322 000 states |
| `verdicts` | What moves a score, and does an answer account for every confirmed item? | an operation of a handler, two queries in loops of one file (one can replace the other), a critical finding of the schema; four verdicts that differ in what decides; 68 000 states |
| `schema` | Is what the rules conclude from the schema so in the database, and is the rest declared? | two sources of at most two statements out of 46, over two tables, a table no source declares and a view; 389 524 states |
| `text` | Are the bodies, tables and claims read from a file those its author wrote? | files of up to three constructs: bodies of up to two of 22 statements, under every separator, before and after tables; 212 943 states |
| `warehouse` | Do the roles and claims over a warehouse survive what the reader loses of it? | a fact, an item dimension, a calendar, an ordinary table, a partition; two statements lost whole or in part; 37 212 states |
| `setup` | Is what `codefit init` says what the next audit finds? | four directories (one inside another, one a build output, one too deep), five migrations of which one cannot be read, three hand-written configurations, any two edits; 3 677 654 states |

What each property says:

- `TypeOK`, of `BaselineStore`. Its one part that is more than a type: the file is always a whole baseline, never torn.
- `OneEntryEach`: no fingerprint is listed twice in the file or in a call's copy. `Diff` adds an observed item in
  one loop and an out-of-scope one in another, and an item of a narrowed cross pass meets both.
- `DecisionsKept`, `VerdictsKept`: what `accept` or `record-verdict` answered as recorded is in the file for as long
  as the code of the item stays, through every later scan, prune, verdict, failure and kill.
- `GoneMeansAbsent`: an item reported gone is not in the code the scan analysed.
- `ImplementsMemory`: the calls implement `AuditMemory`.
- `OnlyHumansAccept`: an item is acknowledged only if a request to accept named its own fingerprint: no verdict
  acknowledges, and no edited item inherits from the one it replaces.
- `AffirmationsShown`: a scan shows each unaccepted affirmation it looks at, every time, whatever the budget.
- `SilencedOnlyIfAnswered`: a scan is silent only on items the client has had an account of. This is the write
  gate (invariant I3 of `docs/specs/audit-protocol.md`): an answer nobody could read is not saved.
- `FactsNamed`: every shown deterministic finding is rendered, whatever the budget withholds.
- `WorstKeptLongest`: lists empty in order clean, frontier, actionable, and each from its mild end.
- `FewestWithheld`: no smaller number of withheld endpoints but zero would fit; a scan is given up as over budget
  only if none fits. `WalkStandsStill`: the forward walk after the binary search never moves. `Answered`: it ends.
- `ServesThisFile`, `ServesThisAnalyzer`: a hit is of the very bytes read, at their path, and made by the running
  binary (as long as no binary was replaced under a running process, which `swapped` records).
- `StoredWhole`: no torn entry. `PruneSpares`: a prune takes a young entry of its own generation only when
  another process put it under the name of an old one between the prune's look at that one and its removal
  (`prune.go:183`, `187`; recorded by `raced`). That window is real in the code and in the model: without the excuse
  TLC finds it violated. It costs one analysis, made anew.
- `DismissalsCountNothing`: recording that an item is fine or uncertain changes no score, whatever was said before.
  `AgreementCountsOnce`: nor does a second agent that says the same as the one that counts.
- `RaisedByDecision`: while code and acceptances stay, a score rises only when an agent at least as sure as all
  before it judges the defect milder. (That this raises it is what `strongestVulnerable` documents.)
- `VerdictsDeclared`: each open confirmed item an answer saw costs its dimension, or is counted as not scored; also
  after the scan has replaced items, and new items have joined.
- `GlobalBetween`: the global score lies between those of the measured dimensions.
- `ProvenIsWhole`: a table codefit calls proven has every column, key, index and foreign key the statements gave it,
  however they were guarded or repeated, over several statements and sources, also with a CREATE TABLE run on from
  another and with the comma missing before a PRIMARY KEY, UNIQUE or FOREIGN KEY (`Table.Complete`, ADR 0034). Tables in
  `blind` are excepted: a table with any other comma missing is called proven and is not whole.
- `AbsencesAreReal`: a missing key, an unindexed foreign key or filter, missing timestamps, said of a proven table, are
  missing in the database. `NothingIsPassedOver`: the converse. A table without a key is affirmed, asked about, or
  covered by a statement in the note, unless no source declares it (`Found`); of an unproven table the note says whether
  it was asked about. Both leave out the tables in `blind`, and of those in `keyless` what depends on a key: DB-050 is
  silent on a proven table whose key was dropped by its name or with its column.
- `RedundantIndexesAreRedundant`: dropping all the indexes DB-011a and DB-011b ask about, together, loses no lookup and no
  unique key.
- `ChangedSourcesAreSeen`: a source whose statements changed the database is in the schema or is named as one codefit was
  blind over, never as one that had nothing to say (ADR 0072), while `blind` is empty.
- `CompleteBodiesAreWhole`: a body marked complete has every token its author wrote for it and none of another
  construct. `TablesAreThoseDeclared`: no table is lost to a body or statement next to it, none inside a whole body
  surfaces. `ClaimsFollowTheBodies`: what the five rules claim of a body is what it does.
- `ReaderContract`: proven tables are the declared ones, foreign keys are lost and never invented, a missing table has
  left a record. `PromotionIsSafe`: a role given from what was read is the role of what was declared.
  `UndecidedAreNamed`: a role that a lost statement took away is named as undecided.
- `ClaimsHoldInTheWarehouse`, `NoTimeDimensionIsSo`: what the DW rules claim holds of the declared warehouse.
- `SilencedOnlyInWarehouses`: a 1NF question is withheld only in a schema with the evidence of a warehouse or on the
  developer's word, and never without the note that names its table.
- `WrittenIsMeasured`: a directory init says it proved is measured by the next audit with the tables it counted, and was
  the only one it could have chosen. `LossesAreNamed`: a schema path it takes out, or found and left, is named with a
  reason, but for a directory of which a file could not be read. `RerunIsStable`: a second run over an untouched project changes nothing.

Runs that show where the code does not do what one of its texts says (`PROJECT.json`, "findings", quotes the
text for each):

| run | what TLC finds |
|---|---|
| `lost_update` | With two calls in flight an accepted item loses its acknowledgement to a scan that loaded before it: rename makes the write atomic, not the read-modify-write. |
| `stale_helpers` | The key of an entry does not name the registered helpers, on which the analysis depends. |
| `claimed_unwritten` | A run that keeps an existing configuration reports the directory it proved as "written as database.schema_paths"; the configuration it kept does not hold it. |

Other disagreements met while modelling have no run of their own. The properties above state what does hold and leave
these out by name:

- What the budget withholds is saved as known, so the re-run the note recommends is silent on it
  (`scanall_budget.go:219`). The note of a cut answer is some 400 bytes longer than that of a whole one, and the search
  never tries zero once the answer is too large: one that fits whole can be cut (`scanall_budget.go:47`).
- A narrowed pass reads every schema file, but `Diff` skips affirmations whose file is not in scope
  (`baseline.go:368`). A full pass in a language without query extractor adds the cross categories to the gone scope
  though the cross did not run (`scanall.go:642`). A prune re-scans one language and deletes the items of the other
  (`mcp/baseline.go:601`).
- `dropColumn` (`reduce.go:2455`) keeps a primary key whose column goes, so DB-050 is silent on a table that has none.
  So it is when the key is dropped by its name: `DROP CONSTRAINT pk` and `DROP PRIMARY KEY` are taken for columns
  (`reduce.go:1952`), which also leaves indexes and foreign keys that are gone, and drops a column called `constraint`.
  So it is when a guarded `ADD COLUMN ... PRIMARY KEY` names a column which the database has and the reducer, over a
  body it could not read whole, has not: the reducer takes the key and the database changes nothing (`reduce.go:1894`).
  A comma missing before anything but PRIMARY KEY, UNIQUE or FOREIGN KEY loses the second item on a table called proven
  (`reduce.go:1438`; `missing_comma_test.go:465` holds it so). `seenIndex` outlives its index and table
  (`reduce.go:2144`). RENAME is a recognized skip, and `DROP TABLE a, b` drops `a` alone (`reduce.go:546`). DB-011b
  calls a lookup served by an index that DROP INDEX removed, which the reducer does not read (`reduce.go:578`). A source
  of recognized skips alone is reported as one nothing was recognized in (`unread.go:61`).
- A dollar-quoted literal before the first inner `;` of an unquoted body is taken for the proof that it is whole
  (`reduce.go:628`). A comment between BEGIN and TRY hides the handler from DB-031 (`db031.go:117`). DB-040 takes an
  upsert's UPDATE for a statement (`db040.go:151`), and finds documentation only in dollar-quoted bodies, as the
  splitter drops other comments (`split.go:161`). INSERT, DROP or SET run on to a CREATE TABLE disappear.
- `Resolve` copies the list of undecided tables that a closed gate left empty (`paradigm.go:510`), and the record of
  whole statements that were not reduced demotes no role.
- When placing the skill fails after the configuration was overwritten, the report of the dropped paths is lost
  (`generate.go:69`); a previous configuration that does not load has no dropped paths (`generate.go:124`); and
  `dropReason` says a path "no longer holds SQL files" also where it does but Prisma took precedence
  (`generate.go:142`). A directory of which one file cannot be read is neither a candidate nor named
  (`detect.go:319`). The skill says of a Prisma path that codefit proved it (`skill.go:180`).

### Bounds, and why they are enough

- *Fingerprints.* Two at one file and category are needed for a replacement, and for a replacement that leaves one
  of two in place; a third in the schema file (the cross question) for a category and file that may be out of scope
  while observed; a deterministic finding for affirmations. `Baseline` treats fingerprints one by one apart from the
  pairing, and pairs only within one file and category, so a larger project is a union of such cases.
  `q1` and `q2` are interchangeable in every constant and property (`MCSymmetry`).
- *Callers.* One for the runs under `Serial` (a second idle caller adds nothing: it may start only when all are
  idle), two in `lost_update`.
- *Languages.* One: `OneLanguage` is a hypothesis of the promises (see the disagreements above).
- *Code.* `Edit` changes one fingerprint in a step, and any number of edits may come between two steps.
- *Budgets and sizes of `scan`.* Entries differ in size by bucket; the five budgets reach from one that nothing
  fits to one that everything fits; with `Radix` 2 the numbers in the note change their length at 2 as the code's
  do at 10, so the non-monotone step occurs. `FitsMonotone`, the hypothesis of `FewestAlwaysWithheld`, holds there.
- `GenerationsKept` is 2 (3 in the code): with three binaries a prune has something to drop and something to keep.
- `MaxEvents` 2 bounds the environment of the cache: replacing a binary and killing its process, copying a
  file and editing its original, and so on. It is a bound in a guard.
- `MaxVerdicts` 2 bounds the verdicts in the baseline, also in a guard: two on one item are needed for one to outdo,
  repeat or contradict the other, one on each of two for items that are scored together or replace each other.
  The verdicts of `MCVerdicts` differ in confidence, severity and word, so that each rule of the choice decides
  somewhere. `loop1` and `loop2` are interchangeable (`MCSymmetry`).
- `PerSource` 2 and `Files` 2 bound the histories of `schema`, in a guard: a CREATE and what changes it, in one source or
  in two, before or after each other; a statement run on to another or glued inside counts once more. The 46 statements take
  the branches of `builder.apply` (a routine's does what a trigger's does, a hash-prefixed table is the session's own) and
  each kind of body item, and those whose outcome depends on what came before, in both ways.
- The files of `text` place a body of at most two statements before and after a table: enough for a separator inside it,
  for one construct that reaches into the next, and for a comment that comes before a write.
- `MaxLost` 2 bounds the lost statements of `warehouse`: one can take a role away, two can hide the reason. Of
  the fact and of the item dimension there is a body that reaches the poles of the type profile and one that does not.
- `MaxEdits` 2 bounds the developer in `setup`, in a guard: one edit between proof and write, one between write and
  audit. `DiscoveryDepth` is the code's.

`CHECK_DEADLOCK FALSE` is in the runs of one reading, which end: `scan`, `schema`, `text`, `warehouse`.

### Fairness

None is assumed of the calls, the developer or the processes: a client may stop, and a process may be killed, so
those specifications state safety only. The readings of `schema`, `text` and `warehouse` are folds over finite inputs. `ScanAll` has `WF_vars(Next)`: within a call the handler is a sequential
program that takes its next step, and `Answered` asks whether the search it runs ends.

## 4. The proofs

| theorem | module | says |
|---|---|---|
| `TypeCorrect`, `NoDuplicates` | `BaselineProofs` | `TypeOK`, `OneEntryEach`, for every project and any overlap of calls |
| `GoneIsAbsent` | `BaselineProofs` | `GoneMeansAbsent`, for any overlap of calls, given `OneLanguage` and `CrossIsExtracted` |
| `StoreImplementsMemory` | `BaselineProofs` | `ImplementsMemory`: the store refines `AuditMemory`, whatever fails or is killed, given `Serial` |
| `AcceptanceLasts`, `VerdictsLast` | `BaselineProofs` | `DecisionsKept`, `VerdictsKept`, given `Serial` and `OneLanguage` |
| `HumansDecide`, `AffirmationsAreShown` | `BaselineProofs` | `OnlyHumansAccept`, `AffirmationsShown`, for any overlap of calls |
| `SilenceIsAnswered` | `BaselineProofs` | `SilencedOnlyIfAnswered`, given `Serial` and no failing write or kill (`~CanFail`) |
| `ScanInvariant`, `FactsAlwaysNamed`, `WalkNeverMoves`, `FewestAlwaysWithheld` | `ScanAllProofs` | the search's invariant; `FactsNamed`; `WalkStandsStill`; `FewestWithheld`, given `FitsMonotone` |
| `WorstAlwaysKeptLongest` | `ScanAllProofs` | `WorstKeptLongest` |
| `CacheInvariant`, `AlwaysServesThisFile`, `AlwaysServesThisAnalyzer`, `AlwaysStoredWhole`, `AlwaysSpares` | `FindingCacheProofs` | the invariant of the store; the four properties of the cache |
| `VerdictsInvariant`, `DismissalsAlwaysCountNothing`, `VerdictsAlwaysDeclared`, `GlobalAlwaysBetween` | `VerdictScoreProofs` | only listed items have verdicts and an answer is one to the baseline as it stands; the three properties |
| `AgreementAlwaysCountsOnce`, `AlwaysRaisedByDecision` | `VerdictScoreProofs` | `AgreementCountsOnce`, `RaisedByDecision` |
| `ReaderContractAlways`, `PromotionAlwaysSafe`, `UndecidedAlwaysNamed` | `WarehouseProofs` | the reader's contract; `PromotionIsSafe`; `UndecidedAreNamed` |
| `SilencedAlwaysInWarehouses`, `NoTimeDimensionAlwaysSo`, `ClaimsAlwaysHold` | `WarehouseProofs` | `SilencedOnlyInWarehouses`, `NoTimeDimensionIsSo`, `ClaimsHoldInTheWarehouse` |
| `SchemaInvariant`, `ProvenAlwaysWhole` | `DatabaseProofs` | the reducer follows the database, statement by statement and item by item; `ProvenIsWhole` |
| `AbsencesAlwaysReal`, `RedundantAlwaysRedundant` | `DatabaseProofs` | `AbsencesAreReal`, `RedundantIndexesAreRedundant` |
| `AuditInvariant`, `ChangedAlwaysSeen`, `NothingEverPassedOver` | `DatabaseProofs` | the invariant with its accounts; `ChangedSourcesAreSeen`, `NothingIsPassedOver` |
| `TextInvariant`, `CompleteAlwaysWhole` | `TextProofs` | what the splitter holds and has cut off, of any file; `CompleteBodiesAreWhole` |
| `TablesAlwaysDeclared` | `TextProofs` | `TablesAreThoseDeclared`, of any file |
| `InitWritesWhatIsMeasured`, `InitNamesItsLosses` | `SetupProofs` | `WrittenIsMeasured`, `LossesAreNamed`, for every project and any edits |
| `InitIsStable` | `SetupProofs` | `RerunIsStable` |

Assumptions about constants, each evaluated by TLC on every run that extends its module: `FingerprintAssumption` and
`StoreAssumption` (finitely many fingerprints; the categories of the three sensors are disjoint, as `OwnedCategories`
documents), `ScanAssumption`, `CacheAssumption`, `VerdictAssumption`, `ParadigmAssumption`, `WarehouseAssumption`,
`AuditAssumption`; of the schema `ReducerAssumption` (the fields a head reads, and that a place in the text has one
statement), `MeaningAssumption` (section 2), `NoneAssumption` (`None` is no value of the model; each module that uses it says
of what), `BeforeAssumption` (a database found before the first source
is any), `PerSourceAssumption`, `RulesAssumption`, `PlaceAssumption` (of two elements one comes first in the text) and
`PathsAssumption` (the paths resolve to the sources); of init `FilesAssumption` (finitely many directories and files, of which each
creates finitely many tables, and no two files of the same name), `ProjectAssumption` (projects are trees of those, and paths are in a
lexical order) and `ConfigurationAssumption` (`None` is no configuration); of the text `SourceAssumption` (one of the three dialects, a
sequence of tokens) and `AuthorAssumption` (section 2).

Five hypotheses appear in the theorems that need them. `Serial`: one call at a time. `OneLanguage`: requests name the
language the code is written in. `CrossIsExtracted`: where the cross finds anything, its language has a query extractor.
`~CanFail`: no write fails and no process is killed. `FitsMonotone`: an answer that withholds more does not grow. The runs
`ledger`, `answers` and `scan` satisfy those of their theorems.

**The baseline.** `StoreInv` is `TypeOK`, `OneEntryEach`, and that a call about to rename has a whole temp file
(`TempWhole`): without the last, `SaveRename` could put a torn file in place. `Diff` is described by lemmas on
one fingerprint (`DiffFacts`, `DiffKeeps`, `DiffDrops`, `DiffAcks`), each with its entries in exactly one of the
cases of `NextEntries`.

**What is gone.** An item is reported gone only by a scan that looked at it, and a sensor that looked at an item of the
code has seen it (`LooksAndSees`). The one sensor that can look without seeing is the cross without an extractor, and a scan
in a language that is not the item's; these are the two hypotheses (see the disagreements of section 3). No other
step of any call writes the list (`NewsStep`).

**The refinement.** `MemoryInv` says of each call what its copy is in terms of the file (`Plans`): what `AuditMemory` may make of
the file in one step, once it is renamed. Under `Serial` nothing moves the file between load and rename, so only
`SaveRename` is visible, and what it shows is what the call planned; every other step stutters, failures and kills too. The
two hard plans are a scan's and a prune's, where items leave. That a scan forgets only in exchange for new items at the same place
needs that the pairing of `Diff` replaces no more than are new (`ReplacesNoMore`, by cardinality), and that an item the file holds
stays tracked unless it was replaced (`KnownIsTracked`).

**The promises.** That the file honours a promise is not inductive: between load and rename it is the call's copy
that must honour it. `LedgerInv` adds, for each phase of a call, what it carries from the earlier ones
(`Carries`): a scan's copy is the file, a prune has seen every promised item of the code, a copy on its way to
disk honours all promises and already holds what the call will promise, and at the reply the file does. `Serial` is
what makes the copy current (`OneInFlight`); `OneLanguage` is what makes a prune's look a look at everything.
The central lemma is `NothingToReplace`: an item in the code that a scan looked at was seen, hence is neither
gone nor replaced.

**The answers.** `AnswersInv` says that everything acknowledged in the file, in a copy or in a temp file has been
named by a request to accept, and that an answer which is about to be given shows what it must. It needs no
hypothesis on the overlap of calls. `SilencedOnlyIfAnswered` needs two: the account is given at the reply, after the
rename, so a call in between, or a process killed there, would leave items in the file that no answer has told of. `AccountInv` says
that every item in the file, and in a copy on its way there, is accounted for or is among what the one call in flight will
account for when it replies.

**The search.** `ScanInv`: `0 <= lo <= hi <= MaxDroppable`, and `hi` fits or is the largest. So the walk, which
starts where the bounds meet, stops at once, whether or not the size is monotone. Minimality needs
`FitsMonotone`. That the worst is kept longest needs of the search only that its lists are finite and its number is one: for
any number, what is withheld of a bucket is a tail of its ranking (`TailOf`), and a bucket is cut only after the milder one is
empty (`WithheldInOrder`).

**The cache.** Whatever names its own key, in the store or in the hands of a process, is the analysis that key
describes (`CacheInv`, with the analyzer only as long as no process took another's identity). Foreign files may
lie under any name; a hit requires the payload to name the key, and that is why it suffices. `RaceInv` follows a
prune from its look to its removal: what lies under the name is old, or the process is in `raced`.

**The scores.** `VerdictInv`: only listed items have verdicts, and the last answer is what a scan would compute of
the baseline *now*. The second part needs the first: the scan that answered has since added items, which can
have no verdict, and removed others, which it did not see (`SameAnswer`). `MostConfidentExists` shows that a
choice by confidence and then by place is always possible (least elements of sets of numbers, by
well-foundedness), `MeanBetween` that a rounded mean stays between its two numbers, for all weights. For the two action
properties on single verdicts, findings made of verdicts are put in bijection with the items that cost (`CountedOnce`,
`CountsByItem`), so a score moves only if an item starts or stops costing a severity (`NotRaised`); what appending one verdict
does to the strongest of a list is a lemma (`VulnerableAppended`).

**The roles.** `ReaderContract` is inductive: each statement changes the declared and the read table of one name, and
what is lost of it is a foreign key, or all of it with a record. A role needs foreign keys (a fact has two out, a dimension
a table that refers to it), so from `read[n].refs \subseteq declared[n].refs` a role that was given survives the lost
ones (`PromotionAlwaysSafe`); the counts compared are cardinalities of sets of which one includes the other. In the
other direction a role that is lost was lost by an unproven table, the table itself or one that may refer to it, which
is the condition under which the code names it (`UndecidedAlwaysNamed`). A rule is given the roles of the schema
that was read or none, so a table with a role has it in the warehouse, and a proven table is the declared one
(`HeldInTheWarehouse`); with that, and that no declared foreign key refers to an undeclared table (`RefsAreDeclared`), each part
of a claim is carried over (`ClaimsAlwaysHold`). What is withheld is a case analysis on any schema
(`SilencedAlwaysInWarehouses`).

**The schema.** That a proven table is whole is not inductive, for the database takes a statement at once and the
reducer its items one by one. `MatchInv` says what holds in between: of each proven table that codefit keeps track of, what is in it,
together with the items its loop still owes, is what the database has. An item that was already there owes nothing, which
depends on the items before it, so what is owed is told place by place (`Effective`). Each head has a lemma for its effect on
the one table it touches, each item kind one for the step of the loop, and all other tables are left
as they were (`Untouched`). Three invariants join it for the rules. `KeyInv`: outside of `keyless` the key is exactly the
database's. `ReadableInv`: a foreign key has columns, and the indexes of a table are bounded in length, without which
no index need be the longest, nor the first of its equals; with it, whatever a redundant index serves is served by one that is not
redundant, which is what lets all of them be dropped together (`RedundantAlwaysRedundant`).

**What is passed over.** The converse direction speaks of tables which are not proven. `BackedInv` and `KeyBackedInv`: of
every table in the schema, proven or not, the columns and the key, with those the loop is yet to add, are in the database.
`TraceInv`: a table of the database that is not in the schema left a statement behind, or was there before the first
source. `CensusInv` and `ChangedInv` are the accounts: no statement of a source is counted twice as satisfied or silent,
and of a source that changed the database at least one is not counted at all; an ALTER whose loop has found every part already
there up to now may yet turn out to be counted (`Idling`), in which case it changed nothing. So a source that left nothing and
changed something has fewer accounts than statements, and that is the code's condition for naming it as one it was blind over
(`ChangedAlwaysSeen`).

**Init.** What init says of a project is true of the project it looked at, and the property speaks of the one there is when the
next audit runs. `SetupInv` carries the one to the other. `RunInv`: while nobody edits, what was detected is what would be detected
now (`info = Detected`), and the configuration, once written, is the one rendered of it. `ReportInv`: the report stays in force
until somebody edits, also through a whole second init, which may be killed, keep the configuration, or write it again. `LostInv`: what
was taken out of a configuration is what will be reported as dropped. The steps that need an argument are those by which init
changes its own input. That the skills do not is `PlacingIsQuiet`: init places a skill only for an agent whose markers are there
already, or in `.agents`, which is nobody's marker (`Settled`: the asymmetry of `agents.go:27`), and neither is a marker of a
language. That the answer of a directory is the same to init, which proves it before it is configured, and to the audit, which
resolves it as one configured path, is `DirectoryMeasured`; it rests on the order of the files being one (`FilesInOrder`: of
finitely many files each has its place, by counting those before it) and on a reading of them keeping its tables finite and told
apart by name, file after file (`DirectoryFrom`, by the least file that would not).

**The bodies.** `TextInv` describes a statement, the one being read and those cut off, by the stretch of the file it comes
from: it holds the tokens of the stretch in order, all but the comments of the dialect, and nothing in the stretch divides
statements (`Holds`); a dollar block it has seen is in the stretch (`HoldsBlock`); and if it was cut off within a construct, it was at a
`;` outside of every block (`EndsAt`). That the next token is never inside a block (`OutsideInv`) is what makes the last part
inductive: the splitter takes a block whole only if it meets its opening, so it must never resume in the middle of one. A piece that
opens like a routine is no table, so `cutRunOn` leaves it the rest of its statement (`PieceShape`), and its head in the
statement is a head in the text, since only comments were dropped in between (`HeadInText`). It is therefore where a routine
begins, everything after it in the stretch is of that routine (`NothingElse`), and if the routine goes on beyond the stretch, it
was cut at a `;` of its own with a block seen (`EndsWithin`), which is the style the property leaves out.

**The tables.** `WordsInv` is the other half: the statements come one after the other and share no place (`ApartInv`), every word that
was read is in one of them (`CoverInv`), and a terminator stays inside a statement only if that opens like a routine, a
comment only inside a block (`SeparatorInv`). So a word of a table is in some statement when the file ends. That statement holds no routine before
the table, nor a terminator (`NoRoutineBefore`, `NothingSeparates`), hence only tables (`TablesBefore`), unless data was left
without a terminator, which is the case the property names. Each of them is there from first token to last, without
a gap (`WholeTable`, by counting its tokens), so `cutRunOn` finds the next head right where the next table begins
(`RunsOnto`), and by taking the least table it might not reach, it reaches all (`StartsReached`). Conversely a table
that is read has a table's head in the text: it is a declared one, read once since no place is in two pieces (`TableOnce`), or is
built by a body, and then by one that is not whole (`NoTableMadeUp`, from `CompleteIsWhole`).

### Only model-checked

- `ClaimsFollowTheBodies` of `TextAudit`, for the ways of writing a file that `MCText` lists. It needs what each statement of a
  body means to each rule, word by word, which would be an assumption as long as the rules themselves.
- `Answered`: liveness under fairness (like `ENABLED`) is beyond the prover; the bounds it rests on are
  `ScanInvariant`.
- What a recursive definition computes for every input cannot be proved with the installed backends (induction
  takes an operator parameter). The proofs need no such result: where they speak of sums and least elements they do so by the
  library's facts on finite sets and well-founded orders.

## 5. What is not modelled, and why

- The AST analyses of the language providers and the compiled patterns of the rule engine: pattern recognition over
  syntax trees and lines, without state or order. In the models an analysis is the set of fingerprints it yields, `code`.
- YAML and JSON forms, wording, reasons, dates, line and column display, the coverage manifest.
- The CVE lookup: a sequential client of an external service that keeps nothing; any failed request fails the answer.
- Reading single files can fail in the security sensor (a file is skipped); the models read every file in scope. Of the SQL sources
  some cannot be read (`Unreadable`), and whether a file is one of them does not change.
- In `setup` a directory of which a file cannot be read is passed over by init, unnamed; `LossesAreNamed` excepts it.
- The regex layer, the deduplication and the path criticality of the security sensor.
- Characters of SQL. Regular expressions are the heads a statement matches (`shapes`), identifiers come normalized (names
  that collide after normalization are not told apart), `INHERITS` and `LIKE`, backslash escapes, MySQL's double-quoted
  strings, and heads the reducer's expression does not match (`CREATE PROC`, a `DEFINER`; ADR 0027) are left out. A
  block comment is one token, although the code glues what stands around it.
- The Prisma and ORM parsers: a Prisma schema is absent, without models, or with one.
- Overlapping `schema_paths`, which read a file twice; Flyway names with more than a number.
- The thresholds and weights of a configuration. Weights that add to nothing over what is measured give a global score
  of 0; `GlobalBetween` leaves the case out.
- What the reducer loses is modelled, and its tables are left out of the properties of `schema`. In `blind` (`LosesTrackOf`):
  a table renamed; created, altered, indexed or dropped by a statement no head matches (`reduce.go:400`); altered by a
  RENAME COLUMN, MODIFY, CHANGE or a list of dropped columns; one of the later names of a DROP TABLE; a column added and dropped by
  one ALTER; an index re-created IF NOT EXISTS after it or its table was dropped; a guarded CREATE TABLE of a table found;
  a body with a comma missing that is not cut. In `keyless` (`LosesKey`): a key dropped with a column or by its name, or one that a guarded
  ADD gives the reducer alone.
- What the reducer loses and the model does not say: a column named like an index keyword and of a type with arguments that the
  dialect does not know is read as an index (`limits_test.go:240`); a key or index said of a column in other words than
  PRIMARY KEY and UNIQUE (a bare KEY, SERIAL, an inline INDEX) is not read; DROP of a constraint drops a column that is called
  `constraint`, `primary` or `index`; more than one comma missing in one item of a body, or one in what an ALTER adds. An
  assumption on statements (`ReducerAssumption`, `MeaningAssumption`) keeps them out of every run and proof.
- A cache whose binary was replaced under a process that had not taken its identity yet: the actions are there
  (`swapped`), and `ServesThisAnalyzer` leaves the case out.
- A baseline edited or merged by hand: the models start from no file. (`index` keeps the last of two equal entries and
  `RecordVerdict` updates the first, `baseline.go:279`.)
- That init races a second init: one process runs it, against a developer who edits at any moment.

## 6. Plan

What is left, in the order of what it would add:

1. The security sensor's own layers: which finding survives where several rules meet on a line.
2. The rest of the CLI, the rule engine's matchers and the CVE lookup's batches.
