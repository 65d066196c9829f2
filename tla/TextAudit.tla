----------------------------- MODULE TextAudit -----------------------------
(***************************************************************************)
(* What the splitter and the rules that read bodies promise about a file,  *)
(* against what its author wrote.  Content[f].written holds the file's     *)
(* constructs in order: a routine, a trigger, a view, a table, a statement *)
(* of data; a token's `of' is the place of its construct, 0 for what only  *)
(* separates them.                                                         *)
(***************************************************************************)
EXTENDS RoutineRules

CONSTANTS
  Dynamic, External, Writes, Exposes,  \* what a statement of a body does, by its name
  Handling,                            \* the statements that are exception handlers
  HandlingApart,                       \* those with a comment between their two words
  Remarking                            \* those with a comment

written == file.written
Construct(p) == written[text[p.at].of]
Does(effect, c) == UNION {effect[s] : s \in ToSet(c.body)}

\* The tokens of a construct that a statement may hold.
TokensOf(c) == {k \in DOMAIN text : text[k].of = c /\ ~IsComment(text[k])}

\* A body that no separator protects, in a statement that holds a dollar block: its first
\* ';' ends it, and the block is taken for the proof that it is whole.
MistakenForWhole(p) == p.term = "semicolon" /\ Construct(p).style = "atomicDollar"

-----------------------------------------------------------------------------
(* How an author writes.  A file is a sequence of constructs, with what    *)
(* separates them in between.                                              *)

IsRoutineText(s, k) == s.text[k].of # 0 /\ s.written[s.text[k].of].kind \in {"procedure", "trigger"}

\* A comment of the dialect.
Dropped(s, k) == s.text[k].t = "comment" /\ s.text[k].w[1] \in s.dialect.comments

\* Comments aside, CREATE or CREATE OR REPLACE and one of some words are at a place.
WordAt(u, k, words) == Word(At(u, k)) /\ At(u, k).w[1] \in words
HeadAt(u, k, words) ==
  LET second == SkipComments(u, k + 1)
      third  == SkipComments(u, second + 1)
      fourth == SkipComments(u, third + 1)
  IN  /\ WordAt(u, k, Create)
      /\ \/ WordAt(u, second, words)
         \/ WordAt(u, second, {"OR"}) /\ WordAt(u, third, {"REPLACE"}) /\ WordAt(u, fourth, words)

BeginsA(s, k, kind) ==
  /\ s.text[k].of # 0 /\ s.written[s.text[k].of].kind = kind
  /\ \A j \in 1..(k - 1) : s.text[j].of # s.text[k].of

\* The terminator at a place is the one the last DELIMITER line before it names.
TerminatorAt(u, k) ==
  LET lines == {j \in 1..(k - 1) : u[j].t = "delimiter"}
  IN  IF lines = {} THEN ";" ELSE u[CHOOSE j \in lines : \A l \in lines : l <= j].w[1]

\* A separator after which no statement goes on, whatever it is.
Divides(s, k) ==
  /\ s.text[k].of = 0
  /\ \/ s.text[k].t \in {"delimiter", "go"}
     \/ /\ Is(s.text[k], "mark", TerminatorAt(s.text, k))
        /\ TerminatorAt(s.text, k) = ";" => ~s.dialect.batchBodies

\* The dollar-quoted blocks: each within a construct, none within another.
Dollars(s) == {k \in DOMAIN s.text : s.text[k].t = "dollar"}
Neighbours(s) ==
  {b \in Dollars(s) \X Dollars(s) :
     /\ b[1] < b[2] /\ \A k \in Dollars(s) : ~(b[1] < k /\ k < b[2])
     /\ s.text[b[1]].of = s.text[b[2]].of /\ s.text[b[1]].of # 0}
Pairs(s, blocks) ==
  \A k \in Dollars(s) : \E b \in blocks :
    k \in {b[1], b[2]} /\ \A c \in blocks : k \in {c[1], c[2]} => c = b
Blocks(s) == CHOOSE blocks \in SUBSET Neighbours(s) : Pairs(s, blocks)
InBlock(s, k) == \E b \in Blocks(s) : b[1] < k /\ k < b[2]

\* Constructs come one after the other, and separators between them.
Ordered(s) ==
  /\ DOMAIN s.written = 1..Len(s.written) /\ Len(s.written) \in Nat
  /\ {s.text[k].of : k \in DOMAIN s.text} \cup {0} = 0..Len(s.written)
  /\ \A k \in DOMAIN s.text : s.text[k].of # 0 =>
       \A j \in 1..(k - 1) : s.text[j].of <= s.text[k].of
  /\ \A k \in DOMAIN s.text : s.text[k].of = 0 =>
       {s.text[j].of : j \in 1..(k - 1)} \cap {s.text[j].of : j \in (k + 1)..Len(s.text)} \subseteq {0}

\* A head stands where a routine, trigger or table begins and nowhere else, but for the tables
\* that a body builds.
HeadsBegin(s) ==
  \A k \in DOMAIN s.text :
    /\ HeadAt(s.text, k, {"FUNCTION", "PROCEDURE"}) => BeginsA(s, k, "procedure")
    /\ HeadAt(s.text, k, {"TRIGGER"}) => BeginsA(s, k, "trigger")
    /\ HeadAt(s.text, k, {"TABLE"}) => BeginsA(s, k, "table") \/ IsRoutineText(s, k)

\* A construct holds no client line and not the terminator its file has named for the end of
\* constructs; and a trigger that has no body of its own no ';'.
KeepsSeparatorsOut(s) ==
  \A k \in DOMAIN s.text : s.text[k].of # 0 =>
    /\ s.text[k].t \notin {"delimiter", "go"}
    /\ TerminatorAt(s.text, k) # ";" => ~Is(s.text[k], "mark", TerminatorAt(s.text, k))
    /\ s.written[s.text[k].of].kind = "trigger" /\ ~s.dialect.inlineTriggers => ~IsMark(s.text[k], ";")

\* A routine is divided from what follows it and, where blocks are, from what comes before it.
RoutinesAreDivided(s) ==
  LET dividers == {k \in DOMAIN s.text : Divides(s, k)}
      Apart(j, k) == s.text[j].of # s.text[k].of /\ s.text[j].of # 0 /\ s.text[k].of # 0
  IN  \A k \in DOMAIN s.text : \A j \in 1..(k - 1) :
        Apart(j, k) /\ (IsRoutineText(s, j) \/ (IsRoutineText(s, k) /\ s.dialect.dollarQuoting)) =>
          \E d \in dividers : j < d /\ d < k

\* Of the routines that hold a block, those with a ';' outside of it are of a style of their own.
BlocksProtect(s) ==
  s.dialect.dollarQuoting =>
    /\ \E blocks \in SUBSET Neighbours(s) : Pairs(s, blocks)
    /\ \A k \in DOMAIN s.text : \A j \in Dollars(s) :
         IsRoutineText(s, k) /\ IsMark(s.text[k], ";") /\ ~InBlock(s, k) /\ s.text[j].of = s.text[k].of =>
           s.written[s.text[k].of].style = "atomicDollar"

\* Only client lines, comments and terminators separate; and a terminator comes before what follows
\* a statement that has one, as all have but tables and data.
Terminates(s, k) == s.text[k].of = 0 /\ Is(s.text[k], "mark", TerminatorAt(s.text, k))
SeparatorsSeparate(s) ==
  /\ \A k \in DOMAIN s.text : s.text[k].of = 0 =>
       s.text[k].t \in {"delimiter", "go"} \/ Dropped(s, k) \/ Terminates(s, k)
  /\ \A c \in DOMAIN s.written : s.written[c].kind \notin {"procedure", "trigger"} =>
       /\ s.written[c].terminated \/ s.written[c].kind \in {"table", "data"}
       /\ s.written[c].terminated =>
            \A j, k \in DOMAIN s.text : s.text[j].of = c /\ s.text[k].of > c =>
              \E d \in (j + 1)..(k - 1) : Terminates(s, d)

\* The tokens of a construct in order, comments aside.
Spoken(s, c) == {k \in DOMAIN s.text : s.text[k].of = c /\ ~Dropped(s, k)}
Nth(S, n) == CHOOSE k \in S : Cardinality({j \in S : j <= k}) = n
SpokenText(s, c) == [n \in 1..Cardinality(Spoken(s, c)) |-> s.text[Nth(Spoken(s, c), n)]]

\* A table has a body in parentheses, and after it no head of a statement; and no dollar quotes.
TablesAreShaped(s) ==
  \A c \in DOMAIN s.written : s.written[c].kind = "table" =>
    \E toks \in {SpokenText(s, c)} : \E body \in DOMAIN toks :
      /\ IsTable(toks) /\ Close(toks, 4) = body /\ StatementHeads(toks, body + 1) = {}
      /\ Depth(toks, Len(toks) + 1) = Depth(toks, body + 1)
      /\ \A k \in DOMAIN toks : ~IsMark(toks[k], ";") /\ toks[k].t # "dollar"

ASSUME AuthorAssumption ==
  \A s \in Source :
    /\ Ordered(s) /\ HeadsBegin(s) /\ KeepsSeparatorsOut(s) /\ RoutinesAreDivided(s) /\ BlocksProtect(s)
    /\ SeparatorsSeparate(s) /\ TablesAreShaped(s)

-----------------------------------------------------------------------------
(* What is promised. *)

\* A routine or trigger that the reducer marks complete holds every token its author
\* wrote for it and no token of another construct, whatever separators the dialect puts
\* in a body: the absence DB-031 claims over it is an absence (routineBody, triggerBody).
CompleteBodiesAreWhole ==
  \A p \in Procedures \cup Triggers :
    (IF IsRoutine(p.toks) THEN RoutineComplete(p) ELSE TriggerComplete(p)) =>
       \/ MistakenForWhole(p)
       \/ /\ TokensOf(text[p.at].of) \subseteq ToSet(p.places)
          /\ \A k \in ToSet(p.places) : text[k].of \in {text[p.at].of, 0}

\* Where a body falls apart, its routine is known to be partial, or its head was not read.
FallsApart(c) ==
  \A p \in Procedures \cup Triggers : text[p.at].of = c => ~RoutineComplete(p) \/ MistakenForWhole(p)

RunOntoData(c) ==
  \E d \in 1..(c - 1) : written[d].kind = "data" /\ \A e \in d..(c - 1) : ~written[e].terminated

\* At the end of a file the tables read are the tables declared at its top level, each
\* once: none is lost to a statement glued to it or to a body before it, and a table
\* built inside a body surfaces only from a body that is known not to be whole.  (A table
\* run onto a statement other than CREATE TABLE is out of cutRunOn's sight.)
TablesAreThoseDeclared ==
  Done =>
    /\ \A p \in Tables : Construct(p).kind = "table" \/ FallsApart(text[p.at].of)
    /\ \A c \in DOMAIN written :
         written[c].kind = "table" =>
            \/ Cardinality({p \in Tables : text[p.at].of = c}) = 1
            \/ RunOntoData(c)

\* The constructs whose bodies speak for a trigger: its own, or the first function of the
\* name it executes.
Bodies(t) == {Construct(b) : b \in TriggerBodies(t)}

\* An UPDATE that is no statement: an event list, an upsert.
NoStrayUpdate(c) == c.events # "several" /\ "upsert" \notin ToSet(c.body)

\* A comment comes before the first write to some other table.
Announces(c, own) ==
  \E a, b \in DOMAIN c.body :
    /\ a < b /\ c.body[a] \in Remarking
    /\ \E table \in Writes[c.body[b]] \ {own} : \A k \in 1..(b - 1) : table \notin Writes[c.body[k]]

Claimed(items, p) == {x.claim : x \in {y \in items : y.at = p.at}}

\* What DB-030 reports of a complete routine is the dynamic SQL its body builds.
DynamicSqlIsBuilt ==
  \A p \in Procedures : RoutineComplete(p) /\ ~MistakenForWhole(p) =>
    Claimed(DB030, p) = Does(Dynamic, Construct(p))

\* DB-031 reports a complete routine exactly when no handler is in its body; a comment
\* that survives inside the pair hides it.
HandlersAreAbsent ==
  \A p \in Procedures : RoutineComplete(p) /\ ~MistakenForWhole(p) =>
    LET body == ToSet(Construct(p).body)
    IN  /\ body \cap Handling # {} => Claimed(DB031, p) = {}
        /\ body \cap HandlingApart # {} => Claimed(DB031, p) = {} \/ p.quotedBlockSeen
        /\ body \cap (Handling \cup HandlingApart) = {} => Claimed(DB031, p) # {}

\* DB-040 misses no write of a trigger's body to another table and, where every UPDATE is
\* a statement, invents none; the comment before a write documents it where the splitter
\* keeps comments, in a dollar-quoted body.  DB-041 reports the body's external calls and
\* no other.
TriggersAreRead ==
  \A t \in {tr \in Triggers : \A b \in TriggerBodies(tr) : ~MistakenForWhole(b)} :
    \E bodies \in {Bodies(t)} : \E writes \in {Claimed(DB040, t)} :
        /\ UNION {Does(Writes, c) : c \in bodies} \ {TriggerTable(t)} \subseteq writes
        /\ (\A c \in bodies \cup {Construct(t)} : NoStrayUpdate(c)) =>
              /\ writes \subseteq UNION {Does(Writes, c) : c \in bodies}
              /\ (t.at \in Documented) = (\E c \in bodies : c.style = "dollar" /\ Announces(c, TriggerTable(t)))
        /\ Claimed(DB041, t) = UNION {Does(External, c) : c \in bodies}

\* DB-020 reports the sensitive names that a view's first projection exposes.
ViewsAreRead ==
  \A v \in Views : Claimed(DB020, v) = Does(Exposes, Construct(v))

\* The claims of the body rules are what the author wrote: strings and comments make
\* none, a static EXEC makes none, and the layout of the file loses none.
ClaimsFollowTheBodies ==
  Done => DynamicSqlIsBuilt /\ HandlersAreAbsent /\ TriggersAreRead /\ ViewsAreRead
=============================================================================
