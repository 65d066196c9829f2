---------------------------- MODULE ProjectSetup ----------------------------
(***************************************************************************)
(* codefit init (cli/init.go, scaffold): it looks at the project, writes   *)
(* .codefit.yaml unless one is there and was not given up, places the      *)
(* skill for every agent it finds, and reports.  The configuration is      *)
(* written before the skill, the report comes last, and each of the writes *)
(* can fail; meanwhile the developer works on the project.                 *)
(***************************************************************************)
EXTENDS SchemaSources

CONSTANTS
  Above,        \* the directories above each directory
  Depth,        \* its levels below the root
  BaseName,     \* the last name of its path
  PathRank,     \* the lexical order of the paths
  Projects,     \* the projects to start from
  RootFiles,    \* files and directories the developer puts under the root
  HandWritten,  \* configurations the developer writes
  Provider,     \* the database type the Prisma schema's datasource names, or ""
  MaxEdits      \* how often the developer changes the project (bounds the model only)

ASSUME ProjectAssumption ==
  /\ \A d \in Dir : Above[d] \subseteq Dir /\ Depth[d] \in Nat /\ PathRank[d] \in Nat
  /\ \A d, e \in Dir : PathRank[d] = PathRank[e] => d = e
  /\ Provider \in {"", "postgresql", "mysql", "sqlite"}
  /\ \A p \in Projects : p.tree \in [Dir -> (SUBSET File) \cup {None}]
  /\ MaxEdits \in Nat

\* A directory that holds SQL, and what a configuration init writes may say.
Candidate == [path : Dir, tables : Nat, reason : {"", "orderNotProven", "noTable", "ambiguous"}]
Configuration ==
  [language : allowedLanguages, paths : Seq(Dir \cup {PrismaFile}),
   type : allowedDBTypes \cup {""}, paradigm : allowedParadigms \cup {""},
   note : [found : SUBSET Candidate, example : Dir \cup {None}]]

ASSUME ConfigurationAssumption == None \notin Configuration

VARIABLES
  present,    \* files and directories directly under the root: language and agent markers
  config,     \* .codefit.yaml, or None
  skills,     \* what the skill says in each place it was written to, or None
  step,       \* how far the running init is: idle, asking, detecting, writing, placing
  overwrite,  \* whether it may replace the configuration
  info,       \* what it detected
  result,     \* what it did, for the report
  pending,    \* the agents whose skill is still to be written
  report,     \* what the last init printed, or None: nothing yet, or it ended in an error
  quiet,      \* ghost: nothing was changed since the detection behind the report
  runQuiet,   \* ghost: nothing was changed since this init's detection
  lost,       \* ghost: the schema paths this init took out of a configuration it could load
  edits

project == <<tree, prisma, present>>
vars == <<project, config, skills, step, overwrite, info, result, pending, report,
          quiet, runQuiet, lost, edits>>

-----------------------------------------------------------------------------
(* Detect *)

dirsToSkip      == {"node_modules", ".git", "dist", "build", ".next", "vendor", "out"}
buildOutputDirs == {"target", "bin", "obj", ".gradle", ".venv", "venv", "__pycache__", ".tox", "coverage", "tmp"}
fixtureDirs     == {"testdata", "fixtures", "__fixtures__", "__snapshots__"}
discoverySkipDirs == dirsToSkip \cup buildOutputDirs \cup fixtureDirs

DiscoveryDepth == 6

\* ByMarkerFile: the order of the registry is the priority.
detectLanguage ==
  CASE "go.mod" \in present -> "go"
    [] "go.mod" \notin present /\ {"package.json", "tsconfig.json"} \cap present # {} -> "typescript"
    [] OTHER -> "undetected"

\* WalkDir: a directory that is skipped, or too deep, is skipped with everything below it.
Walked == {d \in Dir : tree[d] # None /\ \A a \in {d} \cup Above[d] :
             BaseName[a] \notin discoverySkipDirs /\ Depth[a] <= DiscoveryDepth}

reasonFor(proof) ==
  CASE ~ proof.ordered -> "orderNotProven"
    [] proof.ordered /\ proof.tables = 0 -> "noTable"
    [] OTHER -> ""

\* A directory whose proof fails is passed over, and the walk goes on.
detectSchemaCandidates ==
  {[path |-> d, tables |-> Prove(d).tables, reason |-> reasonFor(Prove(d))] :
     d \in {w \in Walked : ~ ProveFails(w) /\ Prove(w).sqlFiles > 0}}

Proven(c) == c.reason = "" /\ c.tables > 0

\* Mutant: the first of several proven directories is promoted.
PromoteFirst(found) ==
  LET proven == {c \in found : Proven(c)}
  IN [paths |-> IF proven = {} THEN <<>> ELSE <<(CHOOSE c \in proven : TRUE).path>>, candidates |-> found]

\* discoverSQLSchema: one proven directory is promoted, several are told to be ambiguous.
discoverSQLSchema(found) ==
  LET proven == {c \in found : Proven(c)}
  IN IF Cardinality(proven) = 1
     THEN [paths |-> <<(CHOOSE c \in proven : TRUE).path>>, candidates |-> found]
     ELSE [paths |-> <<>>,
           candidates |-> {IF c \in proven THEN [c EXCEPT !.reason = "ambiguous"] ELSE c : c \in found}]

\* enrichTypeScript: a Prisma schema of a TypeScript project ends the search before it starts.
Detected ==
  IF detectLanguage = "typescript" /\ prisma # "absent"
  THEN [language |-> "typescript", type |-> Provider, paradigm |-> "auto",
        paths |-> <<PrismaFile>>, candidates |-> {}]
  ELSE LET sql == discoverSQLSchema(detectSchemaCandidates)
       IN [language |-> detectLanguage, type |-> "", paradigm |-> "",
           paths |-> sql.paths, candidates |-> sql.candidates]

-----------------------------------------------------------------------------
(* What is written and said. *)

\* candidatesExcept
LeftOut(i) == {c \in i.candidates : c.path \notin ToSet(i.paths)}

\* firstCandidatePath: of the candidates in the order of their paths, an ambiguous one if there is one.
FirstCandidate(found) ==
  LET ambiguous == {c \in found : c.reason = "ambiguous"}
      offered == IF ambiguous # {} THEN ambiguous ELSE found
  IN  IF offered = {} THEN None
      ELSE (CHOOSE c \in offered : \A d \in offered : PathRank[c.path] <= PathRank[d.path]).path

\* configTemplate: the project's language, the database section, which is left out without a
\* schema path, and the comment on the directories that were found and not written.
DatabaseSection(i) ==
  IF i.paths = <<>> THEN [paths |-> <<>>, type |-> "", paradigm |-> ""]
  ELSE [paths |-> i.paths, type |-> i.type, paradigm |-> i.paradigm]
NoNote == [found |-> {}, example |-> None]
CandidatesNote(i) ==
  [found |-> LeftOut(i), example |-> IF i.paths = <<>> THEN FirstCandidate(i.candidates) ELSE None]

RenderConfig(i) ==
  LET database == DatabaseSection(i)
  IN  [language |-> i.language, paths |-> database.paths, type |-> database.type,
       paradigm |-> database.paradigm, note |-> CandidatesNote(i)]

\* RenderSkill: the language its calls name, and the schema path it says the configuration carries.
RenderSkill(i) == [language |-> i.language, paths |-> i.paths]

\* dropReason
dropReason(i, p) ==
  IF \E c \in i.candidates : c.path = p THEN (CHOOSE c \in i.candidates : c.path = p).reason
  ELSE "no longer holds SQL files codefit can order and reconstruct"

Paths(cfg) == IF cfg # None /\ Valid(cfg) THEN ToSet(cfg.paths) ELSE {}

\* Mutant: the outgoing configuration is read after it was replaced.
DroppedFromTheNew(before, i) ==
  {[path |-> p, reason |-> dropReason(i, p)] : p \in Paths(RenderConfig(i)) \ ToSet(i.paths)}

\* droppedSchemaPaths: nothing of a configuration that does not load.
droppedSchemaPaths(before, i) ==
  {[path |-> p, reason |-> dropReason(i, p)] : p \in Paths(before) \ ToSet(i.paths)}

ClaudeCode == [name |-> "Claude Code", markers |-> {".claude", "CLAUDE.md"}, base |-> ".claude"]
OpenCode   == [name |-> "OpenCode", markers |-> {".opencode", "opencode.json", "opencode.jsonc"},
               base |-> ".opencode"]
Codex      == [name |-> "Codex", markers |-> {".codex"}, base |-> ".agents"]

fallbackTarget == [name |-> "standard location", markers |-> {}, base |-> ".agents"]

Detects(t) == IF t.markers \cap present # {} THEN <<t>> ELSE <<>>

\* Mutant: Codex is detected by the directory its skill is written to.
DetectByPlace ==
  Detects(ClaudeCode) \o Detects(OpenCode) \o
  Detects([Codex EXCEPT !.markers = @ \cup {Codex.base}])

\* In the order of AgentTargets.
DetectAgents == Detects(ClaudeCode) \o Detects(OpenCode) \o Detects(Codex)

PlacementTargets == IF DetectAgents = <<>> THEN <<fallbackTarget>> ELSE DetectAgents

\* provenSchema: the candidate the report says was written.
provenSchema(i) == {c \in i.candidates : c.path \in ToSet(i.paths) /\ c.tables > 0}

\* The section on the schema: what was proven and what else was found, or why nothing was
\* configured.  Of a Prisma schema it says nothing.
writeSchemaProof(i) ==
  [says |-> "configured", written |-> provenSchema(i), left |-> i.candidates \ provenSchema(i)]
writeSchemaGap(i) ==
  [says |-> IF i.paths = <<>> THEN "notConfigured" ELSE "", written |-> {},
   left |-> IF i.paths = <<>> THEN i.candidates ELSE {}]
writeSchemaSection(i) == IF provenSchema(i) # {} THEN writeSchemaProof(i) ELSE writeSchemaGap(i)

\* formatReport, by what it states of the configuration, the agents and the schema.
formatReport ==
  [action |-> result.action, agents |-> result.agents, dropped |-> result.dropped,
   schema |-> writeSchemaSection(info)]

-----------------------------------------------------------------------------
(* codefit init *)

Idle == step = "idle"

\* runInitCmd up to the question: an existing configuration is kept, replaced, or asked about.
Begin(force, nonInteractive) ==
  /\ Idle
  /\ step' = IF ~ force /\ config # None /\ ~ nonInteractive THEN "asking" ELSE "detecting"
  /\ overwrite' = force
  /\ lost' = {}
  /\ UNCHANGED <<project, config, skills, info, result, pending, report, quiet, runQuiet, edits>>

\* confirmOverwrite
Confirm(yes) ==
  /\ step = "asking"
  /\ step' = "detecting"
  /\ overwrite' = yes
  /\ UNCHANGED <<project, config, skills, info, result, pending, report, quiet, runQuiet, lost, edits>>

\* Generate: Detect
Detect ==
  /\ step = "detecting"
  /\ step' = "writing"
  /\ info' = Detected
  /\ runQuiet' = TRUE
  /\ UNCHANGED <<project, config, skills, overwrite, result, pending, report, quiet, lost, edits>>

\* Generate: what writeConfig did, and then placeSkill's targets.
Account(action, dropped) ==
  /\ pending' = PlacementTargets
  /\ result' = [action |-> action, dropped |-> dropped,
                agents |-> [k \in DOMAIN PlacementTargets |-> PlacementTargets[k].name]]
  /\ step' = "placing"
  /\ UNCHANGED <<project, skills, overwrite, info, report, quiet, runQuiet, edits>>

\* writeConfig: the file is there and may not be replaced.
SkipConfig ==
  /\ step = "writing"
  /\ config # None /\ ~ overwrite
  /\ Account("skipped", {})
  /\ UNCHANGED <<config, lost>>

\* writeConfig: the dropped paths are read from the outgoing file.
WriteConfig ==
  /\ step = "writing"
  /\ config = None \/ overwrite
  /\ config' = RenderConfig(info)
  /\ lost' = Paths(config) \ Paths(config')
  /\ Account(IF config = None THEN "created" ELSE "overwritten", droppedSchemaPaths(config, info))

\* What a write that fails half-way leaves of a file.
Partly(cfg) ==
  LET noNote == [cfg EXCEPT !.note = NoNote]
      noPath == [noNote EXCEPT !.paths = <<>>]
      noDatabase == [noPath EXCEPT !.type = "", !.paradigm = ""]
  IN  {noNote, noPath, noDatabase, [noDatabase EXCEPT !.language = ""]}

\* The process ends.
Over == step' = "idle" /\ info' = None /\ result' = None /\ pending' = <<>> /\ overwrite' = FALSE /\ runQuiet' = FALSE

\* Generate returns an error and no result, or is killed.
Fail ==
  /\ Over
  /\ report' = None
  /\ UNCHANGED <<project, quiet, lost, edits>>

\* writeConfig: the file cannot be opened, or not be written to its end.
ConfigFails ==
  /\ step = "writing"
  /\ config = None \/ overwrite
  /\ config' \in {config} \cup Partly(RenderConfig(info))
  /\ Fail
  /\ UNCHANGED skills

\* placeSkill: one target; its directory becomes a file of the root.
PlaceSkill ==
  /\ step = "placing"
  /\ pending # <<>>
  /\ skills' = [skills EXCEPT ![Head(pending).base] = RenderSkill(info)]
  /\ present' = present \cup {Head(pending).base}
  /\ pending' = Tail(pending)
  /\ UNCHANGED <<tree, prisma, config, step, overwrite, info, result, report, quiet, runQuiet, lost, edits>>

\* placeSkill stops at the first target it cannot write, and Generate returns no result.
PlaceFails ==
  /\ step = "placing"
  /\ pending # <<>>
  /\ Fail
  /\ UNCHANGED <<config, skills>>

\* runInitCmd: the report is printed last.
Report ==
  /\ step = "placing"
  /\ pending = <<>>
  /\ Over
  /\ report' = formatReport
  /\ quiet' = runQuiet
  /\ UNCHANGED <<project, config, skills, lost, edits>>

Run ==
  \/ \E force, nonInteractive \in BOOLEAN : Begin(force, nonInteractive)
  \/ \E yes \in BOOLEAN : Confirm(yes)
  \/ Detect
  \/ SkipConfig
  \/ WriteConfig
  \/ ConfigFails
  \/ PlaceSkill
  \/ PlaceFails
  \/ Report

-----------------------------------------------------------------------------
(* The developer, at any moment. *)

Edit ==
  /\ edits < MaxEdits
  /\ edits' = edits + 1
  /\ quiet' = FALSE /\ runQuiet' = FALSE
  /\ UNCHANGED <<step, overwrite, info, result, pending, report, lost>>

Level(d) == IF tree[d] = None THEN {} ELSE tree[d]

AddMigration(d, f) ==
  /\ Edit
  /\ f \notin Level(d)
  /\ tree' = [x \in Dir |-> CASE x = d -> Level(d) \cup {f}
                             [] x # d /\ x \in Above[d] /\ tree[x] = None -> {}
                             [] OTHER -> tree[x]]
  /\ UNCHANGED <<prisma, present, config, skills>>

RemoveDirectory(d) ==
  /\ Edit
  /\ tree[d] # None
  /\ tree' = [x \in Dir |-> IF d \in {x} \cup Above[x] THEN None ELSE tree[x]]
  /\ UNCHANGED <<prisma, present, config, skills>>

EditPrisma(text) ==
  /\ Edit
  /\ prisma' = text
  /\ UNCHANGED <<tree, present, config, skills>>

AddToRoot(x) ==
  /\ Edit
  /\ present' = present \cup {x}
  /\ UNCHANGED <<tree, prisma, config, skills>>

RemoveFromRoot(x) ==
  /\ Edit
  /\ x \in present
  /\ present' = present \ {x}
  /\ skills' = [b \in DOMAIN skills |-> IF b = x THEN None ELSE skills[b]]
  /\ UNCHANGED <<tree, prisma, config>>

EditConfig(cfg) ==
  /\ Edit
  /\ config' = cfg
  /\ UNCHANGED <<project, skills>>

Developer ==
  \/ \E d \in Dir, f \in File : AddMigration(d, f)
  \/ \E d \in Dir : RemoveDirectory(d)
  \/ \E text \in {"absent", "bare", "models"} \ {prisma} : EditPrisma(text)
  \/ \E x \in RootFiles \ present : AddToRoot(x)
  \/ \E x \in present : RemoveFromRoot(x)
  \/ \E cfg \in HandWritten \cup {None} : EditConfig(cfg)

-----------------------------------------------------------------------------
Bases == {t.base : t \in {ClaudeCode, OpenCode, Codex}}

Init ==
  /\ \E p \in Projects : tree = p.tree /\ prisma = p.prisma /\ present = p.present
  /\ config \in {None} \cup HandWritten
  /\ skills = [b \in Bases |-> None]
  /\ step = "idle" /\ overwrite = FALSE /\ info = None /\ result = None /\ pending = <<>>
  /\ report = None /\ quiet = FALSE /\ runQuiet = FALSE /\ lost = {} /\ edits = 0

Next == Run \/ Developer

Spec == Init /\ [][Next]_vars

-----------------------------------------------------------------------------
(* Properties *)

Reported == Idle /\ report # None

\* A directory init says it proved and wrote is measured by the next codefit-scan-db, with the
\* tables it counted; and it is the only directory in sight of the walk an audit could measure
\* in a proven order: nothing was chosen for the developer.  Where it says that no schema is
\* configured, the next codefit-scan-db says so too.
Alone(d) ==
  [language |-> "undetected", paths |-> <<d>>, type |-> "", paradigm |-> "", note |-> NoNote]

WrittenIsMeasured ==
  Reported /\ quiet /\ report.action # "skipped" =>
    CASE report.schema.says = "configured" ->
           /\ ScanDB(config).status = "measured"
           /\ \A c \in report.schema.written : Cardinality(ScanDB(config).tables) = c.tables
           /\ \A d \in Walked \ ToSet(config.paths) :
                tree[d] = {} \/ (\E f \in tree[d] : Version[f] = None) \/ ScanDB(Alone(d)).tables = {}
      [] report.schema.says = "notConfigured" -> ScanDB(config).status = "notMeasured"
      [] OTHER -> ToSet(config.paths) = {PrismaFile}

\* A schema path that a finished init took out of a configuration that loaded is named by its
\* report, with a reason, and so is every directory in sight that holds SQL and was not written, but
\* for one whose proof failed on a file it could not read; a configuration it wrote names them too,
\* and where it leaves the choice to the developer the path it offers is one an audit would measure.
LossesAreNamed ==
  Reported =>
    /\ lost = {c.path : c \in report.dropped}
    /\ \A c \in report.dropped \cup report.schema.left : c.reason # ""
    /\ quiet /\ report.action # "skipped" =>
         /\ \/ {c.path : c \in report.schema.left} =
                 {d \in Walked : tree[d] # {} /\ ~ ProveFails(d)} \ ToSet(config.paths)
            \/ report.schema.says = ""
         /\ config.note.found = report.schema.left
         /\ (\E c \in config.note.found : c.reason = "ambiguous") =>
              ScanDB(Alone(config.note.example)).status = "measured"

\* Init does not feed on its own output: run again over a project nobody changed it finds the
\* same, writes the same configuration, loses nothing and places the skill where it did.
RerunIsStable ==
  [][ report # None /\ quiet =>
        /\ step = "writing" /\ step' = "placing" /\ report.action # "skipped" => config' = config
        /\ step = "placing" /\ report' # report /\ report' # None =>
             /\ report'.agents = report.agents
             /\ report'.schema.left = report.schema.left
             /\ report.action # "skipped" => report'.dropped = {} ]_vars

\* The report says of a directory that it was written as database.schema_paths.
ConfiguredMeansWritten ==
  Reported /\ quiet => \A c \in report.schema.written : c.path \in Paths(config)
=============================================================================
