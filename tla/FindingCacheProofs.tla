------------------------- MODULE FindingCacheProofs -------------------------
(***************************************************************************)
(* What is served from the finding cache, for any number of processes,     *)
(* files, binaries and acts of the environment.                            *)
(***************************************************************************)
EXTENDS FindingCache, TLAPS

-----------------------------------------------------------------------------
(* The inductive invariant: whatever names a key of its own is the         *)
(* analysis that key describes, in the store and in the hands of a         *)
(* process that is about to store it.  The parameter sw stands for         *)
(* swapped, before or after a step.                                        *)

\* a is an analysis of the path and the content k names and, while every process knows
\* its own binary, one of the analyzer k names.
Proves(k, a, sw) ==
  /\ a \in Analyses
  /\ k = <<k[1], a.path, a.content>>
  /\ ~sw => k[1] = a.by

UpProc ==
  [up : {TRUE}, runs : Analyzer, id : Analyzer \union {NoId, Unknown}, pruned : BOOLEAN,
   phase : {"idle", "list", "remove", "sweep", "unlink", "walk", "write", "rename", "fail"},
   helpers : Helpers \union {{}}, todo : SUBSET Path, file : Keys \union {<<>>},
   made : Analyses \union {<<>>}, doomed : SUBSET Analyzer,
   look : SUBSET Keys]

GoodProc(r, sw) ==
  /\ r.id \in Analyzer /\ ~sw => r.id = r.runs
  /\ r.phase # "idle" => r.helpers \in Helpers
  /\ r.phase = "remove" => r.id \notin r.doomed
  /\ r.phase \in {"write", "rename"} => Proves(r.file, r.made, sw)

EnvInv ==
  /\ content \in [Path -> Content]
  /\ helpers \in Helpers
  /\ installed \in [Process -> Analyzer]
  /\ swapped \in BOOLEAN

ProcInv ==
  /\ proc \in [Process -> UpProc \union {Down}]
  /\ \A p \in Process : proc[p].up => GoodProc(proc[p], swapped)

WholePayload(b, sw) == b.whole /\ (b = Bare \/ Proves(b.key, b.analysis, sw))

StoreInv == \A e \in store : e.key \in Keys /\ WholePayload(e.payload, swapped)

ServedInv ==
  \A s \in Served :
    /\ s.got \in Analyses
    /\ s.got.path = s.want.path /\ s.got.content = s.want.content
    /\ ~swapped => s.got.by = s.want.by

CacheInv == EnvInv /\ ProcInv /\ StoreInv /\ ServedInv

-----------------------------------------------------------------------------
(* What the steps of a process keep. *)

\* Taking a wrong identity only weakens what an entry proves.
LEMMA GoodStays ==
  ASSUME NEW r, NEW sw, NEW tw, sw => tw, GoodProc(r, sw)
  PROVE  GoodProc(r, tw)
BY DEF GoodProc, Proves

LEMMA WholeStays ==
  ASSUME NEW b, NEW sw, NEW tw, sw => tw, WholePayload(b, sw)
  PROVE  WholePayload(b, tw)
BY DEF WholePayload, Proves

LEMMA PhaseUp ==
  ASSUME ProcInv, NEW p \in Process, proc[p].up
  PROVE  proc[p] \in UpProc /\ GoodProc(proc[p], swapped)
<1>1. proc[p] \in UpProc \union {Down}
  BY DEF ProcInv
<1>2. proc[p] # Down
  BY DEF Down
<1> QED
  BY <1>1, <1>2 DEF ProcInv

\* A process that becomes a good one leaves all of them good.
LEMMA SetKeeps ==
  ASSUME ProcInv, swapped => swapped', NEW p \in Process, NEW r,
         r = Down \/ (r \in UpProc /\ GoodProc(r, swapped')), Set(p, r)
  PROVE  ProcInv'
<1>1. proc' = [proc EXCEPT ![p] = r] /\ proc \in [Process -> UpProc \union {Down}]
  BY DEF Set, ProcInv
<1>2. proc' \in [Process -> UpProc \union {Down}]
  BY <1>1
<1>3. ASSUME NEW q \in Process, proc'[q].up
      PROVE  GoodProc(proc'[q], swapped')
  <2>1. CASE q = p
    <3>1. proc'[q] = r
      BY <1>1, <2>1
    <3>2. r # Down
      BY <1>3, <3>1 DEF Down
    <3> QED
      BY <3>1, <3>2
  <2>2. CASE q # p
    <3>1. proc'[q] = proc[q]
      BY <1>1, <2>2
    <3>2. GoodProc(proc[q], swapped)
      BY <1>3, <3>1 DEF ProcInv
    <3> QED
      BY <3>1, <3>2, GoodStays
  <2> QED
    BY <2>1, <2>2
<1> QED
  BY <1>2, <1>3, Zenon DEF ProcInv

LEMMA StoreStays ==
  ASSUME StoreInv, swapped => swapped',
         \A e \in store' : e \in store \/ (e.key \in Keys /\ WholePayload(e.payload, swapped'))
  PROVE  StoreInv'
BY WholeStays DEF StoreInv

LEMMA ServedStays ==
  ASSUME ServedInv, swapped => swapped', served' = served
  PROVE  ServedInv'
BY DEF ServedInv, Served

-----------------------------------------------------------------------------
(* One lemma for each step. *)

LEMMA StartKeeps ==
  ASSUME CacheInv, NEW p \in Process, Start(p)
  PROVE  CacheInv'
<1> DEFINE r == Started(installed[p])
<1>1. /\ Set(p, r) /\ swapped' = swapped /\ store' = store /\ served' = served
      /\ UNCHANGED <<content, helpers, installed, recent>>
  BY DEF Start
<1>2. r \in UpProc
  BY DEF Started, UpProc, CacheInv, EnvInv
<1>3. GoodProc(r, swapped')
  BY CacheAssumption DEF Started, GoodProc
<1>4. ProcInv'
  BY <1>1, <1>2, <1>3, SetKeeps DEF CacheInv
<1> QED
  BY <1>1, <1>4, StoreStays, ServedStays DEF CacheInv, EnvInv

LEMMA BeginKeeps ==
  ASSUME CacheInv, NEW p \in Process, Begin(p)
  PROVE  CacheInv'
<1>1. PICK files \in Scopes, id \in {installed[p], Unknown} :
        LET known == IF proc[p].id = NoId THEN id ELSE proc[p].id
            prune == known # Unknown /\ ~proc[p].pruned
        IN  /\ Set(p, [proc[p] EXCEPT !.id = known, !.pruned = @ \/ prune,
                         !.phase = IF prune THEN "list" ELSE "walk",
                         !.helpers = helpers, !.todo = files])
            /\ swapped' = (swapped \/ (known # Unknown /\ known # proc[p].runs))
  BY DEF Begin
<1> DEFINE known == IF proc[p].id = NoId THEN id ELSE proc[p].id
           prune == known # Unknown /\ ~proc[p].pruned
           r == [proc[p] EXCEPT !.id = known, !.pruned = @ \/ prune,
                   !.phase = IF prune THEN "list" ELSE "walk",
                   !.helpers = helpers, !.todo = files]
<1>2. Set(p, r) /\ swapped' = (swapped \/ (known # Unknown /\ known # proc[p].runs))
  BY <1>1
<1>3. store' = store /\ served' = served /\ UNCHANGED <<content, helpers, installed>>
  BY DEF Begin
<1>4. proc[p] \in UpProc /\ GoodProc(proc[p], swapped)
  BY PhaseUp DEF Begin, Is, CacheInv
<1>5. known \in Analyzer \union {NoId, Unknown} /\ files \in SUBSET Path
  BY <1>4, CacheAssumption, ZenonT(40) DEF UpProc, CacheInv, EnvInv
<1>6. r \in UpProc
  <2> DEFINE ph == IF prune THEN "list" ELSE "walk"
             pr == proc[p].pruned \/ prune
  <2>1. pr \in BOOLEAN /\ ph \in {"list", "walk"} /\ helpers \in Helpers
    BY DEF CacheInv, EnvInv
  <2>2. r = [proc[p] EXCEPT !.id = known, !.pruned = pr, !.phase = ph,
                            !.helpers = helpers, !.todo = files]
    OBVIOUS
  <2> HIDE DEF ph, pr, known, r
  <2> QED
    BY <1>4, <1>5, <2>1, <2>2, ZenonT(40) DEF UpProc
<1>7. GoodProc(r, swapped')
  <2>1. /\ r.id = known /\ r.runs = proc[p].runs /\ r.phase \in {"list", "walk"}
        /\ r.helpers = helpers
    BY <1>4 DEF UpProc
  <2>2. known \in Analyzer /\ ~swapped' => known = proc[p].runs
    BY <1>2, CacheAssumption
  <2> QED
    BY <2>1, <2>2 DEF GoodProc, CacheInv, EnvInv
<1>8. (swapped => swapped') /\ swapped' \in BOOLEAN
  BY <1>2
<1> HIDE DEF r
<1>9. ProcInv'
  BY <1>2, <1>6, <1>7, <1>8, SetKeeps DEF CacheInv
<1> QED
  BY <1>3, <1>8, <1>9, StoreStays, ServedStays, SMTT(30) DEF CacheInv, EnvInv

\* The steps that change nothing but the process, and neither its binary and identity
\* nor what it has in hand.
LEMMA QuietKeeps ==
  ASSUME CacheInv, NEW p \in Process, NEW r, Set(p, r),
         r = Down \/ (r \in UpProc /\ GoodProc(r, swapped)),
         UNCHANGED <<content, helpers, installed, swapped>>,
         StoreInv', ServedInv'
  PROVE  CacheInv'
<1>1. ProcInv'
  BY SetKeeps DEF CacheInv
<1> QED
  BY <1>1 DEF CacheInv, EnvInv

LEMMA ListKeeps ==
  ASSUME CacheInv, NEW p \in Process, List(p)
  PROVE  CacheInv'
<1> DEFINE r == [proc[p] EXCEPT !.phase = "remove", !.doomed = Doomed(p)]
<1>1. /\ Set(p, r) /\ store' = store /\ served' = served
      /\ UNCHANGED <<content, helpers, installed, swapped>>
      /\ proc[p].up /\ proc[p].phase = "list"
  BY DEF List, Is
<1>2. proc[p] \in UpProc /\ GoodProc(proc[p], swapped)
  BY <1>1, PhaseUp DEF CacheInv
<1>3. Doomed(p) \subseteq Analyzer \ {proc[p].id}
  BY DEF Doomed
<1>4. r \in UpProc /\ r.phase = "remove" /\ r.id = proc[p].id /\ r.runs = proc[p].runs
      /\ r.helpers = proc[p].helpers /\ r.doomed = Doomed(p)
  BY <1>2, <1>3 DEF UpProc
<1>5. GoodProc(r, swapped)
  BY <1>1, <1>2, <1>3, <1>4 DEF GoodProc
<1> HIDE DEF r
<1>6. StoreInv' /\ ServedInv'
  BY <1>1, StoreStays, ServedStays DEF CacheInv
<1> QED
  BY <1>1, <1>4, <1>5, <1>6, QuietKeeps

LEMMA WriteKeeps ==
  ASSUME CacheInv, NEW p \in Process, Write(p)
  PROVE  CacheInv'
<1> DEFINE r == [proc[p] EXCEPT !.phase = "rename"]
<1>1. /\ Set(p, r) /\ store' = store /\ served' = served
      /\ UNCHANGED <<content, helpers, installed, swapped>>
      /\ proc[p].up /\ proc[p].phase = "write"
  BY DEF Write, Is
<1>2. proc[p] \in UpProc /\ GoodProc(proc[p], swapped)
  BY <1>1, PhaseUp DEF CacheInv
<1>3. r \in UpProc /\ r.phase = "rename" /\ r.id = proc[p].id /\ r.runs = proc[p].runs
      /\ r.helpers = proc[p].helpers /\ r.file = proc[p].file /\ r.made = proc[p].made
  BY <1>2 DEF UpProc
<1>4. GoodProc(r, swapped)
  BY <1>1, <1>2, <1>3 DEF GoodProc
<1> HIDE DEF r
<1>5. StoreInv' /\ ServedInv'
  BY <1>1, StoreStays, ServedStays DEF CacheInv
<1> QED
  BY <1>1, <1>3, <1>4, <1>5, QuietKeeps

LEMMA EndKeeps ==
  ASSUME CacheInv, NEW p \in Process, End(p)
  PROVE  CacheInv'
<1> DEFINE r == [proc[p] EXCEPT !.phase = "idle", !.helpers = {}]
<1>1. /\ Set(p, r) /\ store' = store /\ served' = <<>>
      /\ UNCHANGED <<content, helpers, installed, swapped>>
      /\ proc[p].up
  BY DEF End, Is
<1>2. proc[p] \in UpProc /\ GoodProc(proc[p], swapped)
  BY <1>1, PhaseUp DEF CacheInv
<1>3. r \in UpProc /\ r.phase = "idle" /\ r.id = proc[p].id /\ r.runs = proc[p].runs
  BY <1>2 DEF UpProc
<1>4. GoodProc(r, swapped)
  BY <1>2, <1>3 DEF GoodProc
<1> HIDE DEF r
<1>5. StoreInv'
  BY <1>1, StoreStays DEF CacheInv
<1>6. ServedInv'
  BY <1>1 DEF ServedInv, Served
<1> QED
  BY <1>1, <1>3, <1>4, <1>5, <1>6, QuietKeeps

\* A process that has stored its analysis, or failed to.
LEMMA StoredIsGood ==
  ASSUME ProcInv, NEW p \in Process, proc[p].up, proc[p].phase \in {"write", "rename", "fail"}
  PROVE  Stored(p) \in UpProc /\ GoodProc(Stored(p), swapped)
<1>1. proc[p] \in UpProc /\ GoodProc(proc[p], swapped)
  BY PhaseUp
<1>2. /\ Stored(p) \in UpProc /\ Stored(p).phase = "walk" /\ Stored(p).id = proc[p].id
      /\ Stored(p).runs = proc[p].runs /\ Stored(p).helpers = proc[p].helpers
  BY <1>1 DEF UpProc, Stored
<1> QED
  BY <1>1, <1>2 DEF GoodProc

LEMMA FailKeeps ==
  ASSUME CacheInv, NEW p \in Process, Fail(p)
  PROVE  CacheInv'
<1>1. /\ Set(p, Stored(p)) /\ store' = store /\ served' = served
      /\ UNCHANGED <<content, helpers, installed, swapped>>
      /\ proc[p].up /\ proc[p].phase \in {"write", "rename", "fail"}
  BY DEF Fail, Is
<1>2. StoreInv' /\ ServedInv'
  BY <1>1, StoreStays, ServedStays DEF CacheInv
<1> QED
  BY <1>1, <1>2, StoredIsGood, QuietKeeps DEF CacheInv

LEMMA RenameKeeps ==
  ASSUME CacheInv, NEW p \in Process, Rename(p)
  PROVE  CacheInv'
<1>1. /\ Set(p, Stored(p)) /\ store' = Put(Entry(p)) /\ served' = served
      /\ UNCHANGED <<content, helpers, installed, swapped>>
      /\ proc[p].up /\ proc[p].phase = "rename"
  BY DEF Rename, Is
<1>2. proc[p] \in UpProc /\ GoodProc(proc[p], swapped)
  BY <1>1, PhaseUp DEF CacheInv
<1>3. Proves(proc[p].file, proc[p].made, swapped)
  BY <1>1, <1>2 DEF GoodProc
<1>4. Entry(p).key \in Keys /\ WholePayload(Entry(p).payload, swapped)
  <2>1. proc[p].file # <<>>
    BY <1>3 DEF Proves
  <2> QED
    BY <1>2, <1>3, <2>1 DEF Entry, WholePayload, UpProc
<1>5. StoreInv'
  BY <1>1, <1>4, StoreStays DEF Put, CacheInv
<1>6. ServedInv'
  BY <1>1, ServedStays DEF CacheInv
<1> QED
  BY <1>1, <1>5, <1>6, StoredIsGood, QuietKeeps DEF CacheInv

LEMMA KillKeeps ==
  ASSUME CacheInv, NEW p \in Process, Kill(p)
  PROVE  CacheInv'
<1>1. /\ Set(p, Down) /\ store' = store /\ served' = served
      /\ UNCHANGED <<content, helpers, installed, swapped>>
  BY DEF Kill
<1>2. StoreInv' /\ ServedInv'
  BY <1>1, StoreStays, ServedStays DEF CacheInv
<1> QED
  BY <1>1, <1>2, QuietKeeps

\* A prune drops entries, and the temporary files of the generations it drops.
LEMMA RemoveKeeps ==
  ASSUME CacheInv, NEW p \in Process, Remove(p)
  PROVE  CacheInv'
<1> DEFINE keys == {e.key : e \in {f \in store : Generation(f) = proc[p].id}}
           mine == [proc[p] EXCEPT !.phase = "sweep", !.doomed = {}, !.look = keys]
<1>1. /\ store' \subseteq store /\ served' = served
      /\ UNCHANGED <<content, helpers, installed, swapped>>
      /\ proc[p].up /\ proc[p].phase = "remove"
      /\ proc' = [q \in Process |->
           IF q = p THEN mine
           ELSE IF Is(q, "rename") /\ proc[q].id \in proc[p].doomed
             THEN [proc[q] EXCEPT !.phase = "fail"] ELSE proc[q]]
  BY DEF Remove, Is
<1>2. ASSUME NEW q \in Process, q # p
      PROVE  /\ proc'[q] \in UpProc \union {Down}
             /\ proc'[q].up => GoodProc(proc'[q], swapped)
  <2>1. CASE Is(q, "rename") /\ proc[q].id \in proc[p].doomed
    <3>1. proc'[q] = [proc[q] EXCEPT !.phase = "fail"]
      BY <1>1, <1>2, <2>1
    <3>2. proc[q] \in UpProc /\ GoodProc(proc[q], swapped) /\ proc[q].phase = "rename"
      BY <2>1, PhaseUp DEF Is, CacheInv
    <3>3. /\ proc'[q] \in UpProc /\ proc'[q].phase = "fail" /\ proc'[q].id = proc[q].id
          /\ proc'[q].runs = proc[q].runs /\ proc'[q].helpers = proc[q].helpers
      BY <3>1, <3>2 DEF UpProc
    <3> QED
      BY <3>2, <3>3 DEF GoodProc
  <2>2. CASE ~(Is(q, "rename") /\ proc[q].id \in proc[p].doomed)
    <3>1. proc'[q] = proc[q]
      BY <1>1, <1>2, <2>2
    <3> QED
      BY <3>1 DEF ProcInv, CacheInv
  <2> QED
    BY <2>1, <2>2
<1>3. mine \in UpProc /\ GoodProc(mine, swapped)
  <2>1. proc[p] \in UpProc /\ GoodProc(proc[p], swapped)
    BY <1>1, PhaseUp DEF CacheInv
  <2>2. keys \subseteq Keys
    BY DEF CacheInv, StoreInv
  <2> HIDE DEF keys
  <2>3. /\ mine \in UpProc /\ mine.phase = "sweep" /\ mine.id = proc[p].id
        /\ mine.runs = proc[p].runs /\ mine.helpers = proc[p].helpers
    BY <2>1, <2>2 DEF UpProc
  <2> QED
    BY <1>1, <2>1, <2>3 DEF GoodProc
<1>4. proc'[p] = mine
  BY <1>1
<1> HIDE DEF mine
<1>5. \A q \in Process : /\ proc'[q] \in UpProc \union {Down}
                         /\ proc'[q].up => GoodProc(proc'[q], swapped)
  BY <1>2, <1>3, <1>4
<1>6. proc' \in [Process -> UpProc \union {Down}]
  <2>1. proc' = [q \in Process |-> proc'[q]]
    BY <1>1
  <2> QED
    BY <1>5, <2>1, Zenon
<1>7. ProcInv'
  BY <1>1, <1>5, <1>6 DEF ProcInv
<1>8. StoreInv' /\ ServedInv'
  BY <1>1, StoreStays, ServedStays DEF CacheInv
<1> QED
  BY <1>1, <1>7, <1>8 DEF CacheInv, EnvInv

LEMMA LookKeeps ==
  ASSUME CacheInv, NEW p \in Process, Look(p)
  PROVE  CacheInv'
<1>1. /\ store' = store /\ served' = served
      /\ UNCHANGED <<content, helpers, installed, swapped>>
      /\ proc[p].up /\ proc[p].phase = "sweep"
  BY DEF Look, Is
<1>2. proc[p] \in UpProc /\ GoodProc(proc[p], swapped)
  BY <1>1, PhaseUp DEF CacheInv
<1>3. PICK k \in proc[p].look :
        Set(p, [proc[p] EXCEPT !.look = @ \ {k}, !.file = IF Stale(k) THEN k ELSE <<>>,
                 !.phase = IF Stale(k) THEN "unlink" ELSE "sweep"])
  BY DEF Look
<1> DEFINE file  == IF Stale(k) THEN k ELSE <<>>
           phase == IF Stale(k) THEN "unlink" ELSE "sweep"
           look  == proc[p].look \ {k}
           r     == [proc[p] EXCEPT !.look = look, !.file = file, !.phase = phase]
<1>4. Set(p, r)
  BY <1>3
<1>5. file \in Keys \union {<<>>} /\ phase \in {"sweep", "unlink"} /\ look \subseteq Keys
  BY <1>2 DEF UpProc
<1> HIDE DEF file, phase, look
<1>6. /\ r \in UpProc /\ r.phase \in {"sweep", "unlink"} /\ r.id = proc[p].id
      /\ r.runs = proc[p].runs /\ r.helpers = proc[p].helpers
  BY <1>2, <1>5 DEF UpProc
<1>7. GoodProc(r, swapped)
  BY <1>1, <1>2, <1>6 DEF GoodProc
<1> HIDE DEF r
<1>8. StoreInv' /\ ServedInv'
  BY <1>1, StoreStays, ServedStays DEF CacheInv
<1> QED
  BY <1>1, <1>4, <1>6, <1>7, <1>8, QuietKeeps

LEMMA UnlinkKeeps ==
  ASSUME CacheInv, NEW p \in Process, Unlink(p)
  PROVE  CacheInv'
<1> DEFINE r == [proc[p] EXCEPT !.phase = "sweep", !.file = <<>>]
<1>1. /\ Set(p, r) /\ store' \subseteq store /\ served' = served
      /\ UNCHANGED <<content, helpers, installed, swapped>>
      /\ proc[p].up /\ proc[p].phase = "unlink"
  BY DEF Unlink, Is
<1>2. proc[p] \in UpProc /\ GoodProc(proc[p], swapped)
  BY <1>1, PhaseUp DEF CacheInv
<1>3. r \in UpProc /\ r.phase = "sweep" /\ r.id = proc[p].id /\ r.runs = proc[p].runs
      /\ r.helpers = proc[p].helpers
  BY <1>2 DEF UpProc
<1>4. GoodProc(r, swapped)
  BY <1>1, <1>2, <1>3 DEF GoodProc
<1> HIDE DEF r
<1>5. StoreInv' /\ ServedInv'
  BY <1>1, StoreStays, ServedStays DEF CacheInv
<1> QED
  BY <1>1, <1>3, <1>4, <1>5, QuietKeeps

LEMMA SweptKeeps ==
  ASSUME CacheInv, NEW p \in Process, Swept(p)
  PROVE  CacheInv'
<1> DEFINE r == [proc[p] EXCEPT !.phase = "walk"]
<1>1. /\ Set(p, r) /\ store' = store /\ served' = served
      /\ UNCHANGED <<content, helpers, installed, swapped>>
      /\ proc[p].up /\ proc[p].phase = "sweep"
  BY DEF Swept, Is
<1>2. proc[p] \in UpProc /\ GoodProc(proc[p], swapped)
  BY <1>1, PhaseUp DEF CacheInv
<1>3. r \in UpProc /\ r.phase = "walk" /\ r.id = proc[p].id /\ r.runs = proc[p].runs
      /\ r.helpers = proc[p].helpers
  BY <1>2 DEF UpProc
<1>4. GoodProc(r, swapped)
  BY <1>1, <1>2, <1>3 DEF GoodProc
<1> HIDE DEF r
<1>5. StoreInv' /\ ServedInv'
  BY <1>1, StoreStays, ServedStays DEF CacheInv
<1> QED
  BY <1>1, <1>3, <1>4, <1>5, QuietKeeps

\* What is found under a key is what the key says.
LEMMA HitProves ==
  ASSUME StoreInv, NEW k \in Keys, NEW a \in Hit(k)
  PROVE  Proves(k, a, swapped)
<1>1. PICK e \in store : e.payload.key = k /\ a = e.payload.analysis
  BY DEF Hit
<1>2. k # <<>>
  BY DEF Keys
<1>3. e.payload.key # Bare.key
  BY <1>1, <1>2 DEF Bare
<1> QED
  BY <1>1, <1>3 DEF StoreInv, WholePayload

LEMMA VisitKeeps ==
  ASSUME CacheInv, NEW p \in Process, Visit(p)
  PROVE  CacheInv'
<1> DEFINE K(path)     == Key(proc[p].id, path, content[path])
           Fresh(path) == [by |-> proc[p].runs, helpers |-> proc[p].helpers, path |-> path,
                           content |-> content[path]]
           Left(path)  == [proc[p] EXCEPT !.todo = @ \ {path}]
           Taken(path) == [Left(path) EXCEPT !.phase = "write", !.file = K(path),
                                             !.made = Fresh(path)]
<1>1. proc[p].up /\ proc[p].phase = "walk" /\ store' = store
      /\ UNCHANGED <<content, helpers, installed, swapped>>
  BY DEF Visit, Is
<1>2. PICK path \in proc[p].todo :
        \/ /\ Cached(p) /\ Hit(K(path)) # {}
           /\ \E a \in Hit(K(path)) : served' = [got |-> a, want |-> Fresh(path)]
           /\ Set(p, Left(path))
        \/ /\ ~Cached(p) \/ Hit(K(path)) = {}
           /\ served' = [got |-> Fresh(path), want |-> Fresh(path)]
           /\ Set(p, IF Cached(p) THEN Taken(path) ELSE Left(path))
  BY DEF Visit
<1>3. proc[p] \in UpProc /\ GoodProc(proc[p], swapped)
  BY <1>1, PhaseUp DEF CacheInv
<1>4. path \in Path /\ content[path] \in Content
  BY <1>3 DEF UpProc, CacheInv, EnvInv
<1>5. proc[p].helpers \in Helpers /\ proc[p].runs \in Analyzer
  BY <1>1, <1>3 DEF GoodProc, UpProc
<1>6. Fresh(path) \in Analyses
  BY <1>4, <1>5 DEF Analyses
<1>7. Left(path) \in UpProc /\ GoodProc(Left(path), swapped)
  <2>1. /\ Left(path) \in UpProc /\ Left(path).phase = "walk" /\ Left(path).id = proc[p].id
        /\ Left(path).runs = proc[p].runs /\ Left(path).helpers = proc[p].helpers
    BY <1>1, <1>3 DEF UpProc
  <2> QED
    BY <1>3, <1>5, <2>1 DEF GoodProc
<1>8. StoreInv'
  BY <1>1, StoreStays DEF CacheInv
<1>9. Cached(p) => K(path) \in Keys /\ (~swapped => proc[p].id = proc[p].runs)
  BY <1>3, <1>4 DEF Cached, Key, Keys, GoodProc
<1>10. /\ Fresh(path).path = path /\ Fresh(path).content = content[path]
       /\ Fresh(path).by = proc[p].runs
  OBVIOUS
<1>11. Cached(p) => Proves(K(path), Fresh(path), swapped)
  BY <1>6, <1>9, <1>10 DEF Proves, Key
<1>12. Cached(p) => Taken(path) \in UpProc /\ GoodProc(Taken(path), swapped)
  <2> SUFFICES ASSUME Cached(p) PROVE Taken(path) \in UpProc /\ GoodProc(Taken(path), swapped)
    OBVIOUS
  <2> HIDE DEF K, Fresh
  <2>1. /\ Taken(path) \in UpProc /\ Taken(path).phase = "write" /\ Taken(path).id = proc[p].id
        /\ Taken(path).runs = proc[p].runs /\ Taken(path).helpers = proc[p].helpers
        /\ Taken(path).file = K(path) /\ Taken(path).made = Fresh(path)
    BY <1>3, <1>6, <1>9 DEF UpProc
  <2> HIDE DEF Taken
  <2> QED
    BY <1>3, <1>5, <1>11, <2>1 DEF GoodProc
<1> HIDE DEF K, Fresh, Left, Taken
<1>13. CASE /\ Cached(p)
            /\ \E a \in Hit(K(path)) : served' = [got |-> a, want |-> Fresh(path)]
            /\ Set(p, Left(path))
  <2>1. PICK a \in Hit(K(path)) : served' = [got |-> a, want |-> Fresh(path)]
    BY <1>13
  <2>2. Proves(K(path), a, swapped)
    BY <1>9, <1>13, HitProves DEF CacheInv
  <2>3. K(path) = <<proc[p].id, path, content[path]>>
    BY DEF K, Key
  <2>4. /\ a \in Analyses /\ a.path = path /\ a.content = content[path]
        /\ ~swapped => a.by = proc[p].runs
    BY <1>9, <1>13, <2>2, <2>3 DEF Proves
  <2>5. ServedInv'
    BY <1>1, <1>10, <2>1, <2>4 DEF ServedInv, Served
  <2> QED
    BY <1>1, <1>7, <1>8, <1>13, <2>5, QuietKeeps
<1>14. CASE /\ served' = [got |-> Fresh(path), want |-> Fresh(path)]
            /\ Set(p, IF Cached(p) THEN Taken(path) ELSE Left(path))
  <2>1. ServedInv'
    BY <1>6, <1>14 DEF ServedInv, Served
  <2>2. CASE Cached(p)
    BY <1>1, <1>8, <1>12, <1>14, <2>1, <2>2, QuietKeeps
  <2>3. CASE ~Cached(p)
    BY <1>1, <1>7, <1>8, <1>14, <2>1, <2>3, QuietKeeps
  <2> QED
    BY <2>2, <2>3
<1> QED
  BY <1>2, <1>13, <1>14

-----------------------------------------------------------------------------
(* The environment. *)

LEMMA EnvironmentKeeps ==
  ASSUME CacheInv, Environment
  PROVE  CacheInv'
<1> DEFINE Same == UNCHANGED <<proc, served, swapped>>
<1>1. ASSUME Same, EnvInv', StoreInv' PROVE CacheInv'
  BY <1>1, ServedStays DEF CacheInv, ProcInv
<1>2. CASE \E p \in Process : Kill(p)
  BY <1>2, KillKeeps
<1>3. CASE Edit
  BY <1>3, <1>1, StoreStays DEF Edit, CacheInv, EnvInv
<1>4. CASE Register
  BY <1>4, <1>1, StoreStays DEF Register, CacheInv, EnvInv
<1>5. CASE Install
  BY <1>5, <1>1, StoreStays DEF Install, CacheInv, EnvInv
<1>6. CASE Age
  <2>1. store' = {[key |-> e.key, old |-> TRUE, payload |-> e.payload] : e \in store} /\ swapped' = swapped
    BY <1>6 DEF Age
  <2>2. ASSUME NEW f \in store'
        PROVE  f.key \in Keys /\ WholePayload(f.payload, swapped')
    <3>1. PICK e \in store : f = [key |-> e.key, old |-> TRUE, payload |-> e.payload]
      BY <2>1
    <3>2. f.payload = e.payload /\ f.key = e.key
      BY <3>1
    <3> QED
      BY <2>1, <3>2 DEF CacheInv, StoreInv
  <2>3. StoreInv'
    BY <2>2 DEF StoreInv
  <2> QED
    BY <1>6, <1>1, <2>3 DEF Age, CacheInv, EnvInv
<1>7. CASE Stray
  <2>1. PICK k \in Keys, b \in {Bare} \union {e.payload : e \in store} :
          store' = Put([key |-> k, payload |-> b, old |-> FALSE])
    BY <1>7 DEF Stray
  <2>2. WholePayload(b, swapped)
    BY DEF WholePayload, Bare, CacheInv, StoreInv
  <2>3. StoreInv'
    BY <1>7, <2>1, <2>2, StoreStays DEF Stray, Put, CacheInv
  <2> QED
    BY <1>7, <1>1, <2>3 DEF Stray, CacheInv, EnvInv
<1> QED
  BY <1>2, <1>3, <1>4, <1>5, <1>6, <1>7 DEF Environment

LEMMA CacheInit == Init => CacheInv
<1> SUFFICES ASSUME Init PROVE CacheInv
  OBVIOUS
<1>1. EnvInv
  BY DEF Init, EnvInv
<1>2. ProcInv
  BY DEF Init, ProcInv, Down
<1>3. StoreInv
  BY DEF Init, StoreInv
<1>4. ServedInv
  BY DEF Init, ServedInv, Served
<1> QED
  BY <1>1, <1>2, <1>3, <1>4 DEF CacheInv

LEMMA CacheStep ==
  ASSUME CacheInv, [Next]_vars
  PROVE  CacheInv'
<1>1. CASE UNCHANGED vars
  BY <1>1 DEF vars, CacheInv, EnvInv, ProcInv, StoreInv, ServedInv, Served
<1>2. ASSUME NEW p \in Process, Step(p) PROVE CacheInv'
  BY <1>2, StartKeeps, BeginKeeps, ListKeeps, RemoveKeeps, LookKeeps, UnlinkKeeps, SweptKeeps,
     VisitKeeps, WriteKeeps, RenameKeeps, FailKeeps, EndKeeps DEF Step
<1> QED
  BY <1>1, <1>2, EnvironmentKeeps DEF Next

\* The inductive invariant holds of every history of the cache.
THEOREM CacheInvariant == Spec => []CacheInv
<1>1. CacheInv /\ [Next]_vars => CacheInv'
  BY CacheStep
<1> QED
  BY <1>1, CacheInit, PTL DEF Spec

\* Whatever lies in the cache directory, an analysis taken from it is one of the bytes
\* that were read, at their path.
THEOREM AlwaysServesThisFile == Spec => []ServesThisFile
<1>1. CacheInv => ServesThisFile
  BY DEF CacheInv, ServedInv, ServesThisFile
<1> QED
  BY <1>1, CacheInvariant, PTL

\* It is the running binary's own as long as no binary was replaced under a process that
\* had not yet taken its identity.
THEOREM AlwaysServesThisAnalyzer == Spec => []ServesThisAnalyzer
<1>1. CacheInv => ServesThisAnalyzer
  BY DEF CacheInv, ServedInv, ServesThisAnalyzer
<1> QED
  BY <1>1, CacheInvariant, PTL

\* No entry of the store is torn.
THEOREM AlwaysStoredWhole == Spec => []StoredWhole
<1>1. CacheInv => StoredWhole
  BY DEF CacheInv, StoreInv, WholePayload, StoredWhole
<1> QED
  BY <1>1, CacheInvariant, PTL

-----------------------------------------------------------------------------
(* What a prune takes.  Between its look at an entry that is old and the   *)
(* removal, what lies under that name is old, or was put there anew.       *)

Race(p) ==
  /\ p \in raced => Is(p, "unlink")
  /\ Is(p, "unlink") /\ p \notin raced => \A e \in store : e.key = proc[p].file => e.old

RaceInv == \A p \in Process : Race(p)

\* A process that does not move, and under whose name nothing young is put unnoticed.
LEMMA RaceStays ==
  ASSUME NEW q \in Process, Race(q), proc'[q] = proc[q],
         q \in raced' <=> (q \in raced \/ (Is(q, "unlink") /\ q \in raced')),
         Is(q, "unlink") /\ q \notin raced' =>
           \A e \in store' : e.key = proc[q].file => e \in store \/ e.old
  PROVE  Race(q)'
BY DEF Race, Is

\* A step of a process that adds no entry and does not leave it about to remove one.
LEMMA RaceQuiet ==
  ASSUME CacheInv, RaceInv, NEW p \in Process, NEW r, Set(p, r), ~r.up \/ r.phase # "unlink",
         raced' = raced \ {p}, store' \subseteq store
  PROVE  RaceInv'
<1>1. proc' = [proc EXCEPT ![p] = r] /\ proc \in [Process -> UpProc \union {Down}]
  BY DEF Set, CacheInv, ProcInv
<1>2. ASSUME NEW q \in Process PROVE Race(q)'
  <2>1. CASE q = p
    <3>1. proc'[q] = r /\ q \notin raced'
      BY <1>1, <2>1
    <3> QED
      BY <3>1 DEF Race, Is
  <2>2. CASE q # p
    <3>1. proc'[q] = proc[q] /\ (q \in raced' <=> q \in raced)
      BY <1>1, <2>2
    <3> QED
      BY <3>1, RaceStays DEF RaceInv
  <2> QED
    BY <2>1, <2>2
<1> QED
  BY <1>2 DEF RaceInv

\* A process that is not about to remove an entry is not noted as raced.
LEMMA NotRaced ==
  ASSUME RaceInv, NEW p \in Process, ~Is(p, "unlink")
  PROVE  raced \ {p} = raced
BY DEF RaceInv, Race

\* The steps of the walk and of the listing.
LEMMA WalkRace ==
  ASSUME CacheInv, RaceInv, NEW p \in Process,
         Start(p) \/ Begin(p) \/ List(p) \/ Visit(p) \/ Write(p) \/ Fail(p) \/ End(p) \/ Swept(p)
  PROVE  RaceInv'
<1>1. store' = store /\ raced' = raced
  BY DEF Start, Begin, List, Visit, Write, Fail, End, Swept
<1>2. ~Is(p, "unlink")
  BY DEF Start, Begin, List, Visit, Write, Fail, End, Swept, Is
<1>3. proc[p].up => proc[p] \in UpProc
  BY PhaseUp DEF CacheInv
<1>4. \E r : Set(p, r) /\ r.phase # "unlink"
  <2>1. CASE Start(p)
    <3>1. Set(p, Started(installed[p])) /\ Started(installed[p]).phase = "idle"
      BY <2>1 DEF Start, Started
    <3> QED
      BY <3>1
  <2>2. CASE Begin(p)
    <3>1. PICK files \in Scopes, id \in {installed[p], Unknown} :
            LET known == IF proc[p].id = NoId THEN id ELSE proc[p].id
                prune == known # Unknown /\ ~proc[p].pruned
            IN  Set(p, [proc[p] EXCEPT !.id = known, !.pruned = @ \/ prune,
                          !.phase = IF prune THEN "list" ELSE "walk",
                          !.helpers = helpers, !.todo = files])
      BY <2>2 DEF Begin
    <3> DEFINE known == IF proc[p].id = NoId THEN id ELSE proc[p].id
               prune == known # Unknown /\ ~proc[p].pruned
               r     == [proc[p] EXCEPT !.id = known, !.pruned = @ \/ prune,
                          !.phase = IF prune THEN "list" ELSE "walk",
                          !.helpers = helpers, !.todo = files]
    <3>2. Set(p, r)
      BY <3>1
    <3>3. r.phase # "unlink"
      BY <1>3, <2>2 DEF Begin, Is, UpProc
    <3> HIDE DEF r
    <3> QED
      BY <3>2, <3>3
  <2>3. CASE List(p)
    <3> DEFINE r == [proc[p] EXCEPT !.phase = "remove", !.doomed = Doomed(p)]
    <3>1. Set(p, r) /\ r.phase = "remove"
      BY <1>3, <2>3 DEF List, Is, UpProc
    <3> QED
      BY <3>1
  <2>4. CASE Visit(p)
    <3> DEFINE left(path) == [proc[p] EXCEPT !.todo = @ \ {path}]
               made(path) == [left(path) EXCEPT !.phase = "write",
                                !.file = Key(proc[p].id, path, content[path]),
                                !.made = [by |-> proc[p].runs, helpers |-> proc[p].helpers,
                                          path |-> path, content |-> content[path]]]
    <3>1. PICK path \in proc[p].todo : Set(p, left(path)) \/ Set(p, made(path))
      BY <2>4 DEF Visit
    <3>2. left(path).phase = "walk" /\ made(path).phase = "write"
      BY <1>3, <2>4 DEF Visit, Is, UpProc
    <3> QED
      BY <3>1, <3>2
  <2>5. CASE Write(p)
    <3> DEFINE r == [proc[p] EXCEPT !.phase = "rename"]
    <3>1. Set(p, r) /\ r.phase = "rename"
      BY <1>3, <2>5 DEF Write, Is, UpProc
    <3> QED
      BY <3>1
  <2>6. CASE Fail(p)
    <3>1. Set(p, Stored(p)) /\ Stored(p).phase = "walk"
      BY <1>3, <2>6 DEF Fail, Is, Stored, UpProc
    <3> QED
      BY <3>1
  <2>7. CASE End(p)
    <3> DEFINE r == [proc[p] EXCEPT !.phase = "idle", !.helpers = {}]
    <3>1. Set(p, r) /\ r.phase = "idle"
      BY <1>3, <2>7 DEF End, Is, UpProc
    <3> QED
      BY <3>1
  <2>8. CASE Swept(p)
    <3> DEFINE r == [proc[p] EXCEPT !.phase = "walk"]
    <3>1. Set(p, r) /\ r.phase = "walk"
      BY <1>3, <2>8 DEF Swept, Is, UpProc
    <3> QED
      BY <3>1
  <2> QED
    BY <2>1, <2>2, <2>3, <2>4, <2>5, <2>6, <2>7, <2>8
<1>5. PICK r : Set(p, r) /\ r.phase # "unlink"
  BY <1>4
<1> QED
  BY <1>1, <1>2, <1>5, NotRaced, RaceQuiet

LEMMA RemoveRace ==
  ASSUME CacheInv, RaceInv, NEW p \in Process, Remove(p)
  PROVE  RaceInv'
<1>1. store' \subseteq store /\ raced' = raced /\ proc[p].up /\ proc[p].phase = "remove"
  BY DEF Remove, Is
<1>2. proc[p] \in UpProc /\ p \notin raced
  BY <1>1, PhaseUp DEF CacheInv, RaceInv, Race, Is
<1>3. ASSUME NEW q \in Process PROVE Race(q)'
  <2>1. CASE q = p
    <3>1. proc'[q].phase = "sweep"
      BY <1>2, <2>1 DEF Remove, UpProc
    <3> QED
      BY <1>1, <1>2, <2>1, <3>1 DEF Race, Is
  <2>2. CASE q # p /\ Is(q, "rename") /\ proc[q].id \in proc[p].doomed
    <3>1. proc[q] \in UpProc /\ q \notin raced
      BY <2>2, PhaseUp DEF CacheInv, RaceInv, Race, Is
    <3>2. proc'[q].phase = "fail"
      BY <2>2, <3>1 DEF Remove, UpProc
    <3> QED
      BY <1>1, <3>1, <3>2 DEF Race, Is
  <2>3. CASE q # p /\ ~(Is(q, "rename") /\ proc[q].id \in proc[p].doomed)
    <3>1. proc'[q] = proc[q]
      BY <2>3 DEF Remove
    <3> QED
      BY <1>1, <3>1, RaceStays DEF RaceInv
  <2> QED
    BY <2>1, <2>2, <2>3
<1> QED
  BY <1>3 DEF RaceInv

LEMMA LookRace ==
  ASSUME CacheInv, RaceInv, NEW p \in Process, Look(p)
  PROVE  RaceInv'
<1>1. store' = store /\ raced' = raced /\ proc[p].up /\ proc[p].phase = "sweep"
  BY DEF Look, Is
<1>2. proc[p] \in UpProc /\ p \notin raced
  BY <1>1, PhaseUp DEF CacheInv, RaceInv, Race, Is
<1>3. PICK k \in proc[p].look :
        Set(p, [proc[p] EXCEPT !.look = @ \ {k}, !.file = IF Stale(k) THEN k ELSE <<>>,
                 !.phase = IF Stale(k) THEN "unlink" ELSE "sweep"])
  BY DEF Look
<1> DEFINE r == [proc[p] EXCEPT !.look = @ \ {k}, !.file = IF Stale(k) THEN k ELSE <<>>,
                   !.phase = IF Stale(k) THEN "unlink" ELSE "sweep"]
<1>4. Set(p, r)
  BY <1>3
<1>5. CASE ~Stale(k)
  <2>1. r.phase # "unlink"
    BY <1>2, <1>5 DEF UpProc
  <2> HIDE DEF r
  <2>2. raced' = raced \ {p} /\ store' \subseteq store
    BY <1>1, <1>2
  <2> QED
    BY <1>4, <2>1, <2>2, RaceQuiet
<1>6. CASE Stale(k)
  <2>1. r.phase = "unlink" /\ r.file = k
    BY <1>2, <1>6 DEF UpProc
  <2> HIDE DEF r
  <2>2. proc' = [proc EXCEPT ![p] = r] /\ proc \in [Process -> UpProc \union {Down}]
    BY <1>4 DEF Set, CacheInv, ProcInv
  <2>3. \A e \in store : e.key = k => e.old
    BY <1>6 DEF Stale
  <2>4. ASSUME NEW q \in Process PROVE Race(q)'
    <3>1. CASE q = p
      <4>1. proc'[q] = r
        BY <2>2, <3>1
      <4> QED
        BY <1>1, <1>2, <2>1, <2>3, <3>1, <4>1 DEF Race, Is
    <3>2. CASE q # p
      <4>1. proc'[q] = proc[q]
        BY <2>2, <3>2
      <4> QED
        BY <1>1, <4>1, RaceStays DEF RaceInv
    <3> QED
      BY <3>1, <3>2
  <2> QED
    BY <2>4 DEF RaceInv
<1> QED
  BY <1>5, <1>6

LEMMA UnlinkRace ==
  ASSUME CacheInv, RaceInv, NEW p \in Process, Unlink(p)
  PROVE  RaceInv'
<1> DEFINE r == [proc[p] EXCEPT !.phase = "sweep", !.file = <<>>]
<1>1. Set(p, r) /\ store' \subseteq store /\ raced' = raced \ {p} /\ proc[p].up
  BY DEF Unlink, Is
<1>2. proc[p] \in UpProc
  BY <1>1, PhaseUp DEF CacheInv
<1>3. r.phase # "unlink"
  BY <1>2 DEF UpProc
<1> HIDE DEF r
<1> QED
  BY <1>1, <1>3, RaceQuiet

\* Something is put under a key, in the sight of those about to remove what is there.
LEMMA PutRace ==
  ASSUME RaceInv, NEW q \in Process, proc'[q] = proc[q], NEW e, store' = Put(e),
         raced' = raced \union Unlinking(e.key)
  PROVE  Race(q)'
<1>1. \A f \in store' : f \in store \/ f.key = e.key
  BY DEF Put
<1>2. Is(q, "unlink") /\ q \notin raced' =>
        \A f \in store' : f.key = proc[q].file => f \in store \/ f.old
  BY <1>1 DEF Unlinking
<1>3. q \in raced' <=> (q \in raced \/ (Is(q, "unlink") /\ q \in raced'))
  BY DEF Unlinking
<1> QED
  BY <1>2, <1>3, RaceStays DEF RaceInv

LEMMA RenameRace ==
  ASSUME CacheInv, RaceInv, NEW p \in Process, Rename(p)
  PROVE  RaceInv'
<1>1. /\ Set(p, Stored(p)) /\ store' = Put(Entry(p)) /\ raced' = raced \union Unlinking(Entry(p).key)
      /\ proc[p].up /\ proc[p].phase = "rename"
  BY DEF Rename, Is, Entry
<1>2. proc' = [proc EXCEPT ![p] = Stored(p)] /\ proc \in [Process -> UpProc \union {Down}]
  BY <1>1 DEF Set, CacheInv, ProcInv
<1>3. Stored(p).phase = "walk"
  BY <1>1, PhaseUp DEF CacheInv, Stored, UpProc
<1>4. ASSUME NEW q \in Process PROVE Race(q)'
  <2>1. CASE q = p
    <3>1. proc'[q].phase = "walk" /\ q \notin raced'
      BY <1>1, <1>2, <1>3, <2>1 DEF Unlinking, RaceInv, Race, Is
    <3> QED
      BY <3>1 DEF Race, Is
  <2>2. CASE q # p
    <3>1. proc'[q] = proc[q]
      BY <1>2, <2>2
    <3> QED
      BY <1>1, <3>1, PutRace
  <2> QED
    BY <2>1, <2>2
<1> QED
  BY <1>4 DEF RaceInv

LEMMA EnvironmentRace ==
  ASSUME CacheInv, RaceInv, Environment
  PROVE  RaceInv'
<1>1. ASSUME NEW p \in Process, Kill(p) PROVE RaceInv'
  <2>1. Set(p, Down) /\ ~Down.up /\ raced' = raced \ {p} /\ store' \subseteq store
    BY <1>1 DEF Kill, Down
  <2> QED
    BY <2>1, RaceQuiet
<1>2. CASE proc' = proc /\ raced' = raced /\ \A e \in store' : e \in store \/ e.old
  <2>1. ASSUME NEW q \in Process PROVE Race(q)'
    BY <1>2, RaceStays DEF RaceInv
  <2> QED
    BY <2>1 DEF RaceInv
<1>3. CASE Age
  <2>1. \A f \in store' : f.old
    BY <1>3 DEF Age
  <2> QED
    BY <1>2, <1>3, <2>1 DEF Age
<1>4. CASE Stray
  <2>1. PICK k \in Keys, b \in {Bare} \union {e.payload : e \in store} :
          /\ store' = Put([key |-> k, payload |-> b, old |-> FALSE])
          /\ raced' = raced \union Unlinking(k)
    BY <1>4 DEF Stray
  <2> DEFINE e == [key |-> k, payload |-> b, old |-> FALSE]
  <2>2. e.key = k /\ store' = Put(e) /\ proc' = proc
    BY <1>4, <2>1 DEF Stray
  <2> HIDE DEF e
  <2>3. ASSUME NEW q \in Process PROVE Race(q)'
    BY <2>1, <2>2, PutRace
  <2> QED
    BY <2>3 DEF RaceInv
<1>5. CASE Edit \/ Register \/ Install
  BY <1>2, <1>5 DEF Edit, Register, Install
<1> QED
  BY <1>1, <1>3, <1>4, <1>5 DEF Environment

LEMMA RaceStep ==
  ASSUME CacheInv, RaceInv, [Next]_vars
  PROVE  RaceInv'
<1>1. CASE UNCHANGED vars
  BY <1>1 DEF vars, RaceInv, Race, Is
<1>2. ASSUME NEW p \in Process, Step(p) PROVE RaceInv'
  BY <1>2, WalkRace, RemoveRace, LookRace, UnlinkRace, RenameRace DEF Step
<1> QED
  BY <1>1, <1>2, EnvironmentRace DEF Next

LEMMA RaceInvariant == Spec => []RaceInv
<1>1. Init => RaceInv
  BY DEF Init, RaceInv, Race, Is, Down
<1>2. RaceInv /\ CacheInv /\ [Next]_vars => RaceInv'
  BY RaceStep
<1> QED
  BY <1>1, <1>2, CacheInvariant, PTL DEF Spec

LEMMA PruneStep ==
  ASSUME CacheInv, RaceInv, Next, NEW p \in Process \ raced,
         proc[p].up, proc[p].phase \in {"remove", "unlink"}, proc'[p] # proc[p],
         NEW e \in store \ store', Generation(e) = proc[p].id
  PROVE  e.old
<1>1. proc[p] \in UpProc /\ GoodProc(proc[p], swapped)
  BY PhaseUp DEF CacheInv
<1>2. CASE Remove(p)
  <2>1. Generation(e) \in proc[p].doomed
    BY <1>2 DEF Remove
  <2> QED
    BY <1>1, <1>2, <2>1 DEF Remove, Is, GoodProc
<1>3. CASE Unlink(p)
  <2>1. e.key = proc[p].file
    BY <1>3 DEF Unlink
  <2> QED
    BY <1>3, <2>1 DEF Unlink, RaceInv, Race
<1>4. ASSUME NEW q \in Process \ {p}, NEW r, Set(q, r) PROVE FALSE
  BY <1>4 DEF Set, CacheInv, ProcInv
<1>5. ASSUME NEW q \in Process \ {p}, Step(q) PROVE FALSE
  <2>1. CASE Remove(q)
    <3>1. proc'[p] = proc[p]
      BY <1>5, <2>1 DEF Remove, Is
    <3> QED
      BY <3>1
  <2>2. CASE ~Remove(q)
    <3>1. \E r : Set(q, r)
      BY <1>5, <2>2 DEF Step, Start, Begin, List, Look, Unlink, Swept, Visit, Write, Rename, Fail, End
    <3> QED
      BY <1>4, <3>1
  <2> QED
    BY <2>1, <2>2
<1>6. Step(p) => Remove(p) \/ Unlink(p)
  BY DEF Step, Start, Begin, List, Look, Swept, Visit, Write, Rename, Fail, End, Is
<1>7. CASE Environment
  <2>1. CASE \E q \in Process : Kill(q)
    BY <2>1 DEF Kill
  <2>2. CASE proc' = proc
    BY <2>2
  <2> QED
    BY <1>7, <2>1, <2>2 DEF Environment, Edit, Register, Install, Age, Stray
<1> QED
  BY <1>2, <1>3, <1>5, <1>6, <1>7 DEF Next

\* A prune never takes an entry of the analyzer it runs for before it is old, save one put
\* under the name of an old one between its look and the removal.
THEOREM AlwaysSpares == Spec => PruneSpares
<1>1. ASSUME CacheInv, RaceInv, [Next]_vars
      PROVE  [\A p \in Process \ raced :
                proc[p].up /\ proc[p].phase \in {"remove", "unlink"} /\ proc'[p] # proc[p] =>
                  \A e \in store \ store' : Generation(e) = proc[p].id => e.old]_vars
  BY <1>1, PruneStep
<1> QED
  BY <1>1, CacheInvariant, RaceInvariant, PTL DEF Spec, PruneSpares
=============================================================================
