--------------------------- MODULE BaselineStore ---------------------------
(***************************************************************************)
(* The calls that read and write .codefit-baseline (package mcp), with the *)
(* file itself.  A call runs in steps, each of which reads or writes       *)
(* something another call, the developer or a crash can touch in between:  *)
(*                                                                         *)
(*   scan-all         load, run the sensors, diff and fit the budget,      *)
(*                    save, reply                                          *)
(*   accept           load and accept, save, reply                         *)
(*   record-verdict   re-analyse the files, load and record, save, reply   *)
(*   prune            re-analyse the project, load and prune, save, reply  *)
(*   authz helpers    load and register or unregister, save, reply         *)
(*                                                                         *)
(* Save is CreateTemp, Write, Rename.  Nothing in the code keeps two calls *)
(* apart: Serial says whether the client sends the next call only after    *)
(* the reply of the last one.                                              *)
(***************************************************************************)
EXTENDS Baseline

CONSTANTS
  Callers,        \* calls that can be in flight
  Serial,         \* BOOLEAN: the client has one call in flight at a time
  CanFail,        \* BOOLEAN: file writes fail and the process is killed
  Language,       \* values of a request's "language"
  Exposed,        \* the languages registry resolves a security provider for
  Extracting,     \* those whose provider is a QueryExtractor
  WrittenIn,      \* the language whose provider opens a file, by its extension
  SecurityCats,   \* categories the security sensor owns
  DBCats,         \* categories the DB sensor owns
  CrossCats,      \* categories of the code x schema cross rules
  SchemaFiles     \* database.schema_paths

VARIABLES
  code,   \* the fingerprints an analysis of the whole project would yield now
  disk,   \* the content of .codefit-baseline (NoFile when there is none)
  tmp,    \* the temp file each call has open
  call    \* the local state of each call

vars == <<code, disk, tmp, call>>

ASSUME StoreAssumption ==
  /\ Serial \in BOOLEAN /\ CanFail \in BOOLEAN
  /\ Extracting \subseteq Exposed
  /\ DOMAIN WrittenIn = File
  /\ SchemaFiles \subseteq File
  \* "must be disjoint from every other sensor's" (OwnedCategories)
  /\ SecurityCats \cap DBCats = {}
  /\ SecurityCats \cap CrossCats = {}
  /\ DBCats \cap CrossCats = {}

Torn   == [torn |-> TRUE]      \* a file whose write has not ended
NoTemp == [torn |-> FALSE]

\* What a scan-all will answer: what it shows, withholds, silences and reports gone,
\* and whether it fits the response budget.
NoAnswer == [shown |-> {}, withheld |-> {}, silent |-> {}, gone |-> {}, fits |-> TRUE]

\* seen: what the call's analysis observed; looked: the part of the baseline it
\* looked at; fps, verdict: the arguments of the request.
Idle == [pc |-> "idle", op |-> "none", mem |-> NoFile, seen |-> {}, looked |-> {},
         fps |-> {}, verdict |-> {}, answer |-> NoAnswer]

Init ==
  /\ code \in SUBSET FP
  /\ disk = NoFile
  /\ tmp = [c \in Callers |-> NoTemp]
  /\ call = [c \in Callers |-> Idle]

MayStart(c) ==
  /\ call[c] = Idle
  /\ Serial => \A d \in Callers : call[d] = Idle

Become(c, r) == call' = [call EXCEPT ![c] = r]

-----------------------------------------------------------------------------
(* The analysis. *)

\* A request's changed_files: none (full), or a non-empty list (narrowed).
Scopes == [narrows : {FALSE}, files : {File}]
            \cup [narrows : {TRUE}, files : SUBSET File \ {{}}]

InCats(cats) == {f \in FP : CategoryOf[f] \in cats}

dbInputsInScope(scp) == scp.narrows => SchemaFiles \cap scp.files # {}

\* The walk opens the files in scope that carry an extension of the request's
\* language; the DB sensor reads every schema path.
SecuritySeen(lang, files) ==
  {f \in code \cap InCats(SecurityCats) : FileOf[f] \in files /\ WrittenIn[FileOf[f]] = lang}
DBSeen == code \cap InCats(DBCats)

\* The cross needs the query filters of the code: a language without an
\* extractor yields none, a narrowed pass only those of the files in scope.
CrossSeen(lang, scp) ==
  IF lang \notin Extracting THEN {{}}
  ELSE IF scp.narrows THEN SUBSET (code \cap InCats(CrossCats))
  ELSE {code \cap InCats(CrossCats)}

\* Mutant: the cross categories join the scope of a narrowed pass too.
ScannedAlwaysCross(secRan, dbRan, scp) ==
  (IF secRan THEN SecurityCats ELSE {}) \cup (IF dbRan THEN DBCats \cup CrossCats ELSE {})

\* buildScanAll's scanned: the categories of the sensors that ran.
Scanned(secRan, dbRan, scp) ==
  (IF secRan THEN SecurityCats ELSE {})
    \cup (IF dbRan THEN DBCats ELSE {})
    \cup (IF dbRan /\ ~scp.narrows THEN CrossCats ELSE {})

-----------------------------------------------------------------------------
(* scan-all *)

ScanLoad(c) ==
  /\ MayStart(c)
  /\ Become(c, [Idle EXCEPT !.pc = "scan", !.op = "scan-all", !.mem = disk])
  /\ UNCHANGED <<code, disk, tmp>>

\* Mutant: no write gate.
AfterScanUngated(fits) == "create"

\* The write gate: a response over budget is answered and nothing is saved.
AfterScan(fits) == IF fits THEN "create" ELSE "reply"

\* Mutant: an endpoint with a deterministic finding is withheld like another.
WithholdableAny(shown) == shown \cap InCats(SecurityCats)

\* What fitToBudget may leave out of the rendered response: whole endpoints, none
\* that carries a deterministic finding, and nothing of the DB section.
Withholdable(shown) == (shown \cap InCats(SecurityCats)) \ Affirming

\* The call r after Diff and fitToBudget: the sensors observed seen and looked at
\* looked, and the budget withheld some of what Diff shows.
Diffed(r, seen, looked, replaced, withheld, fits) ==
  LET shown == DiffShown(r.mem, seen, looked)
  IN  [r EXCEPT !.pc     = AfterScan(fits),
                !.mem    = DiffNext(r.mem, seen, looked, replaced),
                !.seen   = seen,
                !.looked = looked,
                !.answer = [shown    |-> shown \ withheld,
                            withheld |-> withheld,
                            silent   |-> seen \ shown,
                            gone     |-> DiffGone(r.mem, seen, looked, replaced),
                            fits     |-> fits]]

\* The sensors run and the result is diffed against the baseline loaded before.
\* The DB dimension is soft: configured and in scope, it may still not be measured.
ScanRun(c) ==
  /\ call[c].pc = "scan"
  /\ \E lang \in Language, scp \in Scopes, dbRan \in BOOLEAN, fits \in BOOLEAN :
       LET secRan == lang \in Exposed
           looked == InScope(Scanned(secRan, dbRan, scp), scp.files)
       IN  /\ dbRan => SchemaFiles # {} /\ dbInputsInScope(scp)
           /\ secRan \/ dbRan                \* else nothingMeasurableError
           /\ \E cross \in IF dbRan THEN CrossSeen(lang, scp) ELSE {{}} :
                LET seen == (IF secRan THEN SecuritySeen(lang, scp.files) ELSE {})
                              \cup (IF dbRan THEN DBSeen ELSE {}) \cup cross
                IN  \E replaced \in Replacements(call[c].mem, seen, looked),
                       withheld \in SUBSET Withholdable(DiffShown(call[c].mem, seen, looked)) :
                      Become(c, Diffed(call[c], seen, looked, replaced, withheld, fits))
  /\ UNCHANGED <<code, disk, tmp>>

\* Nothing measurable, a sensor or configuration error, a missing weight.
ScanFails(c) ==
  /\ call[c].pc = "scan"
  /\ Become(c, Idle)
  /\ UNCHANGED <<code, disk, tmp>>

-----------------------------------------------------------------------------
(* accept.  An unknown fingerprint is an error and changes nothing. *)

AcceptLoad(c) ==
  /\ MayStart(c)
  /\ \E fps \in SUBSET Tracked(disk) :
       Become(c, [Idle EXCEPT !.pc = "create", !.op = "accept", !.fps = fps,
                              !.mem = Accept(disk, fps)])
  /\ UNCHANGED <<code, disk, tmp>>

-----------------------------------------------------------------------------
(* record-verdict.  The batch is checked against a fresh analysis of its    *)
(* files: what has no surface item there is refused.                        *)

VerdictAnalyse(c) ==
  /\ MayStart(c)
  /\ \E v \in Verdict, lang \in Language \cap Exposed :
     \E fps \in SUBSET (SecuritySeen(lang, File) \ Affirming) \ {{}} :
       Become(c, [Idle EXCEPT !.pc = "record", !.op = "record-verdict",
                              !.seen = fps, !.fps = fps, !.verdict = {v}])
  /\ UNCHANGED <<code, disk, tmp>>

VerdictLoad(c) ==
  /\ call[c].pc = "record"
  /\ \E v \in call[c].verdict :
       Become(c, [call[c] EXCEPT !.pc = "create",
                                 !.mem = RecordVerdict(disk, call[c].fps, v)])
  /\ UNCHANGED <<code, disk, tmp>>

-----------------------------------------------------------------------------
(* prune.  The re-scan is of every file of one language, and comes before   *)
(* the load.                                                                *)

PruneAnalyse(c) ==
  /\ MayStart(c)
  /\ \E wanted \in SUBSET FP, lang \in Language \cap Exposed :
       Become(c, [Idle EXCEPT !.pc = "prune", !.op = "prune", !.fps = wanted,
                              !.seen = SecuritySeen(lang, File)])
  /\ UNCHANGED <<code, disk, tmp>>

\* Mutant: prune without its category guard.
PruneTargetsAnywhere(b, seen, wanted) ==
  {f \in Tracked(b) : f \notin seen /\ (wanted = {} \/ f \in wanted)}

PruneTargets(b, seen, wanted) ==
  {f \in Tracked(b) \cap InCats(SecurityCats) : f \notin seen /\ (wanted = {} \/ f \in wanted)}

PruneLoad(c) ==
  /\ call[c].pc = "prune"
  /\ LET targets == PruneTargets(disk, call[c].seen, call[c].fps)
     IN  Become(c, [call[c] EXCEPT !.pc = "create", !.fps = targets,
                                   !.mem = Prune(disk, targets)])
  /\ UNCHANGED <<code, disk, tmp>>

-----------------------------------------------------------------------------
(* Authorization helpers.  Registering a known one, or unregistering an     *)
(* unknown one, saves nothing.                                              *)

RegisterLoad(c) ==
  /\ MayStart(c)
  /\ \E h \in Helper \ disk.helpers :
       Become(c, [Idle EXCEPT !.pc = "create", !.op = "register",
                              !.mem = RegisterAuthzHelper(disk, h)])
  /\ UNCHANGED <<code, disk, tmp>>

UnregisterLoad(c) ==
  /\ MayStart(c)
  /\ \E h \in disk.helpers :
       Become(c, [Idle EXCEPT !.pc = "create", !.op = "unregister",
                              !.mem = UnregisterAuthzHelper(disk, h)])
  /\ UNCHANGED <<code, disk, tmp>>

-----------------------------------------------------------------------------
(* Save, and the reply. *)

\* Mutant: the temp file is renamed before it is written.
SaveCreateUnwritten(c) ==
  /\ call[c].pc = "create"
  /\ tmp' = [tmp EXCEPT ![c] = Torn]
  /\ Become(c, [call[c] EXCEPT !.pc = "rename"])
  /\ UNCHANGED <<code, disk>>

SaveCreate(c) ==
  /\ call[c].pc = "create"
  /\ tmp' = [tmp EXCEPT ![c] = Torn]
  /\ Become(c, [call[c] EXCEPT !.pc = "write"])
  /\ UNCHANGED <<code, disk>>

SaveWrite(c) ==
  /\ call[c].pc = "write"
  /\ tmp' = [tmp EXCEPT ![c] = call[c].mem]
  /\ Become(c, [call[c] EXCEPT !.pc = "rename"])
  /\ UNCHANGED <<code, disk>>

SaveRename(c) ==
  /\ call[c].pc = "rename"
  /\ disk' = tmp[c]
  /\ tmp' = [tmp EXCEPT ![c] = NoTemp]
  /\ Become(c, [call[c] EXCEPT !.pc = "reply"])
  /\ UNCHANGED code

\* CreateTemp, Write, Close or Rename fails: the deferred Remove takes the temp
\* file away and the call returns the error.
SaveFails(c) ==
  /\ CanFail
  /\ call[c].pc \in {"create", "write", "rename"}
  /\ tmp' = [tmp EXCEPT ![c] = NoTemp]
  /\ Become(c, Idle)
  /\ UNCHANGED <<code, disk>>

Reply(c) ==
  /\ call[c].pc = "reply"
  /\ Become(c, Idle)
  /\ UNCHANGED <<code, disk, tmp>>

-----------------------------------------------------------------------------
\* The process is killed: its temp file stays, under a name nobody reads.
Crash(c) ==
  /\ CanFail
  /\ call[c] # Idle
  /\ Become(c, Idle)
  /\ tmp' = [tmp EXCEPT ![c] = NoTemp]
  /\ UNCHANGED <<code, disk>>

\* The developer writes or removes code that yields one fingerprint.
Edit ==
  /\ \E f \in FP : code' \in {code \cup {f}, code \ {f}}
  /\ UNCHANGED <<disk, tmp, call>>

Work(c) ==
  \/ ScanLoad(c) \/ ScanRun(c) \/ ScanFails(c)
  \/ AcceptLoad(c)
  \/ VerdictAnalyse(c) \/ VerdictLoad(c)
  \/ PruneAnalyse(c) \/ PruneLoad(c)
  \/ RegisterLoad(c) \/ UnregisterLoad(c)
  \/ SaveCreate(c) \/ SaveWrite(c) \/ SaveRename(c) \/ SaveFails(c)
  \/ Crash(c)

Next == Edit \/ \E c \in Callers : Work(c) \/ Reply(c)

Spec == Init /\ [][Next]_vars

-----------------------------------------------------------------------------
Calls ==
  [pc : {"idle", "scan", "record", "prune", "create", "write", "rename", "reply"},
   op : {"none", "scan-all", "accept", "record-verdict", "prune", "register", "unregister"},
   mem : Baselines, seen : SUBSET FP, looked : SUBSET FP, fps : SUBSET FP,
   verdict : SUBSET Verdict,
   answer : [shown : SUBSET FP, withheld : SUBSET FP, silent : SUBSET FP, gone : SUBSET FP,
             fits : BOOLEAN]]

\* The type of every variable.  The file is never torn: it is always a whole
\* baseline some call computed, whatever step of Save fails or is killed.
TypeOK ==
  /\ code \subseteq FP
  /\ disk \in Baselines
  /\ tmp \in [Callers -> Baselines \cup {NoTemp, Torn}]
  /\ call \in [Callers -> Calls]

Single(b) == \A f \in FP : Len(b.items[f]) \in {0, 1}

\* No fingerprint is ever listed twice, in the file or in a call's copy.  Diff adds
\* an observed item from one loop and an out-of-scope item from another; a
\* cross-rule item of a narrowed pass is both.
OneEntryEach == Single(disk) /\ \A c \in Callers : Single(call[c].mem)

\* What a scan reports gone is not in the code it analysed.
GoneMeansAbsent ==
  [][\A c \in Callers : call[c].pc = "scan" => call'[c].answer.gone \cap code = {}]_vars

-----------------------------------------------------------------------------
\* The audit memory a reader of the file has.
memory  == [f \in FP |-> IF f \in Tracked(disk) THEN Latest(disk, f) ELSE [known |-> FALSE]]
helpers == disk.helpers
Memory  == INSTANCE AuditMemory WITH Prunable <- InCats(SecurityCats)

\* Calls that come one at a time act on the file as one atomic step each: a human
\* decision, a verdict, a look, a prune.  In particular no scan or prune undoes a
\* decision or a verdict of an item it keeps, and no scan drops a helper.
ImplementsMemory == Memory!MSpec
=============================================================================
