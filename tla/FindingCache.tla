---------------------------- MODULE FindingCache ----------------------------
(***************************************************************************)
(* The opt-in finding cache (core/cache) and the walk of the security      *)
(* sensor that consults it.  Several codefit processes share a project's   *)
(* .codefit/cache.  An entry is the analysis of one file, stored under a   *)
(* key that names the analyzer, the path and the content; the entries of   *)
(* one analyzer are a generation.                                          *)
(*                                                                         *)
(* The environment edits files, registers authorization helpers, installs  *)
(* other codefit binaries where the running ones were started from, kills  *)
(* processes, lets time pass and drops files of its own into the cache.    *)
(***************************************************************************)
EXTENDS Naturals, FiniteSets, Sequences

CONSTANTS
  Process,
  Path,
  Scopes,           \* the sets of files a scan may walk
  Content,
  Analyzer,         \* codefit binaries
  Helpers,          \* what may be registered in the baseline
  GenerationsKept,  \* the generations a prune keeps, the current one among them
  MaxEvents,        \* bound: what the environment does
  NoId,             \* the identity is not resolved yet
  Unknown           \* the identity could not be resolved

ASSUME CacheAssumption ==
  /\ GenerationsKept \in Nat \ {0}
  /\ Scopes \subseteq SUBSET Path
  /\ NoId \notin Analyzer /\ Unknown \notin Analyzer /\ NoId # Unknown

VARIABLES
  content,    \* the files
  helpers,    \* the helpers registered in the baseline
  installed,  \* the binary at the path each process is started from
  store,      \* the entry files: where they lie, what they hold, whether they are a month old
  recent,     \* the generation directories, last modified first
  proc,       \* the processes
  served,     \* the analysis last taken for a file, and the one that would be made
  events,     \* how often the environment acted
  swapped,    \* a process took the identity of a binary it does not run
  raced       \* the processes whose prune saw an entry old that was then put there anew

vars == <<content, helpers, installed, store, recent, proc, served, events, swapped, raced>>

-----------------------------------------------------------------------------
(* What is stored, and under which key. *)

\* What scanFile returns, by all that it depends on.
Analyses == [by : Analyzer, helpers : Helpers, path : Path, content : Content]

\* Mutant: another binary's entries are found.
KeyNoAnalyzer(id, path, c) == <<CHOOSE a \in Analyzer : TRUE, path, c>>

Key(id, path, c) == <<id, path, c>>

Keys == Analyzer \X Path \X Content

\* Valid JSON that is no entry.
Bare == [key |-> <<>>, analysis |-> <<>>, whole |-> TRUE]

\* Mutant: whatever parses is a hit.
HitUnproven(k) == {e.payload.analysis : e \in {f \in store : f.key = k /\ f.payload.whole}}

\* The analysis stored under k, if any: an entry must name its own key.
Hit(k) == {e.payload.analysis : e \in {f \in store : f.key = k /\ f.payload.whole /\ f.payload.key = k}}

Generation(e) == e.key[1]

\* The file at e's path, replaced.
Put(e) == {f \in store : f.key # e.key} \union {e}

\* A directory whose entries changed is the last modified.
Touched(g) == <<g>> \o SelectSeq(recent, LAMBDA h : h # g)

-----------------------------------------------------------------------------
(* A process: what it runs, the identity it resolved once, the generations *)
(* it pruned, and the scan it is in.                                       *)

Down == [up |-> FALSE]

Started(a) ==
  [up |-> TRUE, runs |-> a, id |-> NoId, pruned |-> FALSE, phase |-> "idle",
   helpers |-> {}, todo |-> {}, file |-> <<>>, made |-> <<>>, doomed |-> {},
   look |-> {}]

Is(p, phase) == proc[p].up /\ proc[p].phase = phase

Set(p, r) == proc' = [proc EXCEPT ![p] = r]

Cached(p) == proc[p].id \in Analyzer

Init ==
  /\ content \in [Path -> Content]
  /\ helpers \in Helpers
  /\ installed \in [Process -> Analyzer]
  /\ store = {}
  /\ recent \in {<<>>} \union {<<a>> : a \in Analyzer}
  /\ proc = [p \in Process |-> Down]
  /\ served = <<>>
  /\ events = 0
  /\ swapped = FALSE
  /\ raced = {}

Start(p) ==
  /\ ~proc[p].up
  /\ Set(p, Started(installed[p]))
  /\ UNCHANGED <<content, helpers, installed, store, recent, served, events, swapped, raced>>

\* A scan reads the registered helpers, opens the cache, and walks some files.  The
\* identity is the hash of the binary now at the path, taken once per process; it may
\* fail, and then the process uses no cache.
Begin(p) ==
  /\ Is(p, "idle")
  /\ \E files \in Scopes, id \in {installed[p], Unknown} :
       LET known == IF proc[p].id = NoId THEN id ELSE proc[p].id
           prune == known # Unknown /\ ~proc[p].pruned
       IN  /\ Set(p, [proc[p] EXCEPT !.id = known, !.pruned = @ \/ prune,
                        !.phase = IF prune THEN "list" ELSE "walk",
                        !.helpers = helpers, !.todo = files])
           /\ swapped' = (swapped \/ (known # Unknown /\ known # proc[p].runs))
  /\ UNCHANGED <<content, helpers, installed, store, recent, served, events, raced>>

\* Mutant: the current generation competes with the others.
DoomedAll(p) ==
  {g \in Analyzer : \E i \in GenerationsKept + 1 .. Len(recent) : recent[i] = g}

\* The generations a prune drops: all but its own and the last modified of the others.
Doomed(p) ==
  {g \in Analyzer \ {proc[p].id} :
     \E i \in DOMAIN recent :
       /\ recent[i] = g
       /\ Cardinality({j \in 1 .. i - 1 : recent[j] # proc[p].id}) >= GenerationsKept - 1}

List(p) ==
  /\ Is(p, "list")
  /\ Set(p, [proc[p] EXCEPT !.phase = "remove", !.doomed = Doomed(p)])
  /\ UNCHANGED <<content, helpers, installed, store, recent, served, events, swapped, raced>>

\* Others' generations are dropped whole, with the temporary files in them; then the
\* names in its own are listed.
Remove(p) ==
  /\ Is(p, "remove")
  /\ store' = {e \in store : Generation(e) \notin proc[p].doomed}
  /\ recent' = SelectSeq(recent, LAMBDA g : g \notin proc[p].doomed)
  /\ proc' = [q \in Process |->
       IF q = p THEN [proc[p] EXCEPT !.phase = "sweep", !.doomed = {},
                        !.look = {e.key : e \in {f \in store : Generation(f) = proc[p].id}}]
       ELSE IF Is(q, "rename") /\ proc[q].id \in proc[p].doomed
         THEN [proc[q] EXCEPT !.phase = "fail"] ELSE proc[q]]
  /\ UNCHANGED <<content, helpers, installed, served, events, swapped, raced>>

\* What lies under a name was not written for a month.
Stale(k) == LET at == {e \in store : e.key = k} IN at # {} /\ \A e \in at : e.old

\* One listed entry is looked at: its age is that of the file now under its name.
Look(p) ==
  /\ Is(p, "sweep")
  /\ \E k \in proc[p].look :
       Set(p, [proc[p] EXCEPT !.look = @ \ {k}, !.file = IF Stale(k) THEN k ELSE <<>>,
                !.phase = IF Stale(k) THEN "unlink" ELSE "sweep"])
  /\ UNCHANGED <<content, helpers, installed, store, recent, served, events, swapped, raced>>

\* What is now under the name of an entry seen old is removed.
Unlink(p) ==
  /\ Is(p, "unlink")
  /\ store' = {e \in store : e.key # proc[p].file}
  /\ recent' = IF store' = store THEN recent ELSE Touched(proc[p].id)
  /\ Set(p, [proc[p] EXCEPT !.phase = "sweep", !.file = <<>>])
  /\ raced' = raced \ {p}
  /\ UNCHANGED <<content, helpers, installed, served, events, swapped>>

Swept(p) ==
  /\ Is(p, "sweep") /\ proc[p].look = {}
  /\ Set(p, [proc[p] EXCEPT !.phase = "walk"])
  /\ UNCHANGED <<content, helpers, installed, store, recent, served, events, swapped, raced>>

\* The processes about to remove what is under k.
Unlinking(k) == {q \in Process : Is(q, "unlink") /\ proc[q].file = k}

\* A file of the walk is read, and its analysis is found under its key or made.
Visit(p) ==
  /\ Is(p, "walk")
  /\ \E path \in proc[p].todo :
       LET c     == content[path]
           k     == Key(proc[p].id, path, c)
           fresh == [by |-> proc[p].runs, helpers |-> proc[p].helpers, path |-> path, content |-> c]
           left  == [proc[p] EXCEPT !.todo = @ \ {path}]
       IN  \/ /\ Cached(p) /\ Hit(k) # {}
              /\ \E a \in Hit(k) : served' = [got |-> a, want |-> fresh]
              /\ Set(p, left)
           \/ /\ ~Cached(p) \/ Hit(k) = {}
              /\ served' = [got |-> fresh, want |-> fresh]
              /\ Set(p, IF Cached(p) THEN [left EXCEPT !.phase = "write", !.file = k, !.made = fresh]
                        ELSE left)
  /\ UNCHANGED <<content, helpers, installed, store, recent, events, swapped, raced>>

Entry(p) == [key |-> proc[p].file, old |-> FALSE,
             payload |-> [key |-> proc[p].file, analysis |-> proc[p].made, whole |-> TRUE]]

\* Mutant: the entry is written in place.
WriteInPlace(p) ==
  /\ Is(p, "write")
  /\ Set(p, [proc[p] EXCEPT !.phase = "rename"])
  /\ recent' = Touched(proc[p].id)
  /\ store' = Put([Entry(p) EXCEPT !.payload.whole = FALSE])
  /\ UNCHANGED <<content, helpers, installed, served, events, swapped, raced>>

\* The entry is written to a temporary file in the directory of the generation, which
\* is made if need be.
Write(p) ==
  /\ Is(p, "write")
  /\ Set(p, [proc[p] EXCEPT !.phase = "rename"])
  /\ recent' = Touched(proc[p].id)
  /\ UNCHANGED <<content, helpers, installed, store, served, events, swapped, raced>>

Stored(p) == [proc[p] EXCEPT !.phase = "walk", !.file = <<>>, !.made = <<>>]

Rename(p) ==
  /\ Is(p, "rename")
  /\ store' = Put(Entry(p))
  /\ recent' = Touched(proc[p].id)
  /\ Set(p, Stored(p))
  /\ raced' = raced \union Unlinking(proc[p].file)
  /\ UNCHANGED <<content, helpers, installed, served, events, swapped>>

\* Nothing is stored, which is a note and no failure of the scan.
Fail(p) ==
  /\ Is(p, "write") \/ Is(p, "rename") \/ Is(p, "fail")
  /\ Set(p, Stored(p))
  /\ UNCHANGED <<content, helpers, installed, store, recent, served, events, swapped, raced>>

End(p) ==
  /\ Is(p, "walk") /\ proc[p].todo = {}
  /\ Set(p, [proc[p] EXCEPT !.phase = "idle", !.helpers = {}])
  /\ served' = <<>>
  /\ UNCHANGED <<content, helpers, installed, store, recent, events, swapped, raced>>

-----------------------------------------------------------------------------
(* The environment. *)

Kill(p) ==
  /\ proc[p].up
  /\ Set(p, Down)
  /\ raced' = raced \ {p}
  /\ UNCHANGED <<content, helpers, installed, store, recent, served, swapped>>

Edit ==
  /\ \E path \in Path : \E c \in Content \ {content[path]} : content' = [content EXCEPT ![path] = c]
  /\ UNCHANGED <<helpers, installed, store, recent, proc, served, swapped, raced>>

Register ==
  /\ helpers' \in Helpers \ {helpers}
  /\ UNCHANGED <<content, installed, store, recent, proc, served, swapped, raced>>

Install ==
  /\ \E p \in Process : \E a \in Analyzer \ {installed[p]} : installed' = [installed EXCEPT ![p] = a]
  /\ UNCHANGED <<content, helpers, store, recent, proc, served, swapped, raced>>

\* A month passes.
Age ==
  /\ store' = {[key |-> e.key, old |-> TRUE, payload |-> e.payload] : e \in store}
  /\ UNCHANGED <<content, helpers, installed, recent, proc, served, swapped, raced>>

\* A file of someone else's, or a copy of an entry, appears under an entry's name.
Stray ==
  /\ \E k \in Keys, payload \in {Bare} \union {e.payload : e \in store} :
       /\ \E i \in DOMAIN recent : recent[i] = k[1]
       /\ store' = Put([key |-> k, payload |-> payload, old |-> FALSE])
       /\ recent' = Touched(k[1])
       /\ raced' = raced \union Unlinking(k)
  /\ UNCHANGED <<content, helpers, installed, proc, served, swapped>>

Environment ==
  /\ events < MaxEvents /\ events' = events + 1
  /\ (\E p \in Process : Kill(p)) \/ Edit \/ Register \/ Install \/ Age \/ Stray

Step(p) ==
  \/ Start(p) \/ Begin(p) \/ List(p)
  \/ Remove(p) \/ Look(p) \/ Unlink(p) \/ Swept(p)
  \/ Visit(p) \/ Write(p) \/ Rename(p) \/ Fail(p) \/ End(p)

Next == (\E p \in Process : Step(p)) \/ Environment

Spec == Init /\ [][Next]_vars

-----------------------------------------------------------------------------
Served == {s \in {served} : s # <<>>}

\* An analysis taken from the cache is one of the very bytes read, at the very path,
\* whatever else lies in the cache directory and whoever else writes to it.
ServesThisFile ==
  \A s \in Served : s.got \in Analyses /\ s.got.path = s.want.path /\ s.got.content = s.want.content

\* It was made by the running binary, as long as no process took the identity of a
\* binary that replaced its own.
ServesThisAnalyzer == ~swapped => \A s \in Served : s.got.by = s.want.by

\* A killed write leaves no torn entry behind, and concurrent ones none to be read.
StoredWhole == \A e \in store : e.payload.whole

\* A prune takes no young entry of the analyzer it runs for, save one that was put under
\* the name of an old one between its look at that one and the removal.
PruneSpares ==
  [][\A p \in Process \ raced :
       proc[p].up /\ proc[p].phase \in {"remove", "unlink"} /\ proc'[p] # proc[p] =>
         \A e \in store \ store' : Generation(e) = proc[p].id => e.old]_vars

\* R1 of docs/specs/finding-cache.md: a cached scan and a cold one are identical.
WarmIsCold == \A s \in Served : s.got.helpers = s.want.helpers
=============================================================================
