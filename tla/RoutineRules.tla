--------------------------- MODULE RoutineRules ---------------------------
(***************************************************************************)
(* The routines, triggers, views and tables that reduce.go makes of the    *)
(* statements of a file, and the rules that read their bodies              *)
(* (core/dbrules, DB-020, DB-030, DB-031, DB-040 and DB-041).              *)
(***************************************************************************)
EXTENDS SqlText, FiniteSets

Word(tok)        == tok.t = "word"
IsWord(tok, w)   == Is(tok, "word", w)
IsMark(tok, c)   == Is(tok, "mark", c)
Least(S)         == CHOOSE k \in S : \A other \in S : k <= other

-----------------------------------------------------------------------------
(* What a scan of recovered text sees: only single-quoted strings are      *)
(* opaque to it, a quoted identifier is words between two marks.           *)

Quote == [t |-> "mark", w |-> <<"\"">>]
Units(tok) ==
  IF tok.t = "quoted"
  THEN <<Quote>> \o [k \in DOMAIN tok.w |-> [t |-> "word", w |-> <<tok.w[k]>>]] \o <<Quote>>
  ELSE <<tok>>

Scanned(toks) == FlattenSeq([k \in DOMAIN toks |-> Units(toks[k])])

\* The first place from k on that is not a comment (one past the end when there is none).
SkipComments(u, k) == Least({j \in k..(Len(u) + 1) : j = Len(u) + 1 \/ u[j].t # "comment"})
At(u, k) == IF k \in DOMAIN u THEN u[k] ELSE [t |-> "end", w |-> <<"">>]

\* No ';' between two places.
SameStatement(u, a, b) == \A k \in a..b : ~IsMark(u[k], ";")

\* DB-031: an adjacent pair of keywords.
exceptionHandlerPairs == {<<"BEGIN", "TRY">>, <<"HANDLER", "FOR">>, <<"EXCEPTION", "WHEN">>}

\* Mutant: the first keyword of a pair is enough.
HasHandlerKeyword(u) ==
  \E k \in 1..(Len(u) - 1) : \E hp \in exceptionHandlerPairs : IsWord(u[k], hp[1])

HasExceptionHandler(u) ==
  \E k \in 1..(Len(u) - 1) :
    \E hp \in exceptionHandlerPairs : IsWord(u[k], hp[1]) /\ IsWord(u[k + 1], hp[2])

\* DB-030: what EXEC is followed by, and the built-in builders.
ExecMarker(tok) ==
  CASE IsMark(tok, "(")        -> {"exec_expr"}
    [] tok.t = "string"        -> {"execute_string"}
    [] IsWord(tok, "FORMAT")   -> {"execute_format"}
    [] OTHER                   -> {}

DynamicSqlMarkers(u) ==
  UNION {ExecMarker(At(u, SkipComments(u, k + 1))) :
           k \in {j \in DOMAIN u : IsWord(u[j], "EXEC") \/ IsWord(u[j], "EXECUTE")}}
  \cup {"sp_executesql" : k \in {j \in DOMAIN u : IsWord(u[j], "SP_EXECUTESQL")}}
  \cup {"quote_builder" : k \in {j \in DOMAIN u : IsWord(u[j], "QUOTE_LITERAL")
                                                  \/ IsWord(u[j], "QUOTE_IDENT")}}
  \cup {"prepare_from" : k \in {j \in DOMAIN u : /\ IsWord(u[j], "PREPARE")
                                                 /\ \E f \in (j + 1)..Len(u) :
                                                      IsWord(u[f], "FROM") /\ SameStatement(u, j, f)}}

\* DB-041: a member named notify is not the statement, PROGRAM counts after a COPY.
externalExactTokens == {"XP_CMDSHELL", "SP_SEND_DBMAIL", "OPENROWSET", "OPENQUERY", "NOTIFY",
                        "PG_NOTIFY", "SYS_EXEC", "SYS_EVAL", "SP_OACREATE", "DBLINK"}
ExternalToken(u, k) ==
  CASE IsWord(u[k], "PROGRAM") /\ (\E c \in 1..(k - 1) : IsWord(u[c], "COPY") /\ SameStatement(u, c, k))
                                                    -> {"copy program"}
    [] IsWord(u[k], "NOTIFY") /\ k > 1 /\ IsMark(At(u, k - 1), ".") -> {}
    [] Word(u[k]) /\ u[k].w[1] \in externalExactTokens -> {u[k].w[1]}
    [] OTHER                                        -> {}
ExternalCalls(u) == UNION {ExternalToken(u, k) : k \in DOMAIN u}

\* readTableRef, normalizeTableRef: of the words, quoted or not, that dots hold together, the last;
\* a reference stops at the first blank, quoted or not.
TableRef(u, k) ==
  LET part[j \in 1..(Len(u) + 1)] ==
        LET word == IF At(u, j) = Quote THEN j + 1 ELSE j
            past == IF At(u, j) = Quote /\ At(u, j + 2) = Quote THEN j + 3 ELSE word + 1
        IN  IF ~Word(At(u, word)) THEN {}
            ELSE IF IsMark(At(u, past), ".") THEN part[past + 1] ELSE {u[word].w[1]}
  IN  part[k]

\* An event of the trigger's header is no statement.
EventContext == {"AFTER", "BEFORE", "OF", "OR"}
NamesEvent(u, k) ==
  LET before == {j \in 1..(k - 1) : Word(u[j])}
  IN  before # {} /\ \E j \in before : (\A l \in before : l <= j) /\ u[j].w[1] \in EventContext

WriteTarget(u, k) ==
  LET j == SkipComments(u, k + 1)
      past == SkipComments(u, j + 1)
  IN  CASE IsWord(u[k], "INSERT") -> IF IsWord(At(u, j), "INTO") THEN TableRef(u, past) ELSE {}
        [] IsWord(u[k], "DELETE") -> TableRef(u, IF IsWord(At(u, j), "FROM") THEN past ELSE j)
        [] IsWord(u[k], "UPDATE") -> IF IsMark(At(u, j), "(") THEN {} ELSE TableRef(u, j)
        [] OTHER                  -> {}

\* Every place that writes to another table, and the table.
CrossWrites(u, own) ==
  UNION {{<<k, ref>> : ref \in WriteTarget(u, k) \ {own}} : k \in {j \in DOMAIN u : ~NamesEvent(u, j)}}

CrossTableWrites(u, own) == {write[2] : write \in CrossWrites(u, own)}

\* A comment before the first write of one of them.
DocumentedByComment(u, own) ==
  \E write \in CrossWrites(u, own) :
    /\ \A other \in CrossWrites(u, own) : other[2] = write[2] => write[1] <= other[1]
    /\ \E k \in 1..write[1] : u[k].t = "comment"

-----------------------------------------------------------------------------
(* From statements to the routines, views and tables of the schema.        *)

Depth(toks, k) ==
  Cardinality({j \in 1..(k - 1) : IsMark(toks[j], "(")}) - Cardinality({j \in 1..(k - 1) : IsMark(toks[j], ")")})

\* balancedParen: where the parenthesis opened at `open' closes (0: nowhere).
Close(toks, open) ==
  LET closing == {k \in (open + 1)..Len(toks) : IsMark(toks[k], ")") /\ Depth(toks, k) = Depth(toks, open) + 1}
  IN  IF closing = {} THEN 0 ELSE Least(closing)

IsTable(toks) == Opens(toks, <<Create, {"TABLE"}>>) /\ IsMark(At(toks, 4), "(")
IsView(toks)  == Opens(toks, <<Create, {"VIEW"}>>)

\* A statement head after a table's body, at the top level of its tail.
runOnHeads == {"CREATE", "ALTER", "DROP"}
StatementHeads(toks, from) ==
  {k \in from..Len(toks) : Word(toks[k]) /\ toks[k].w[1] \in runOnHeads /\ Depth(toks, k) = Depth(toks, from)}

\* Where the statement run onto the one that starts at s begins (0: there is none).
RunOn(toks, s) ==
  LET own  == SubSeq(toks, s, Len(toks))
      body == IF IsTable(own) THEN Close(own, 4) ELSE 0
      tail == IF body = 0 THEN {} ELSE StatementHeads(own, body + 1)
  IN  IF tail = {} THEN 0 ELSE s - 1 + Least(tail)

PieceStarts(toks) ==
  LET from[s \in 0..Len(toks)] == IF s = 0 THEN {} ELSE {s} \cup from[RunOn(toks, s)]
  IN  from[1]

\* Mutant: a run-on statement stays with its host.
WholeStatement(st) ==
  {[toks |-> Tokens(st.toks), at |-> st.toks[1], places |-> st.toks,
    term |-> st.term, quotedBlockSeen |-> st.quotedBlockSeen]}

\* The statements builder.apply dispatches: their tokens, and their first place in the file.
Pieces(st) ==
  LET toks == Tokens(st.toks)
      starts == PieceStarts(toks)
      end(s) == LET next == {r \in starts : r > s} IN IF next = {} THEN Len(toks) ELSE Least(next) - 1
  IN  {[toks |-> SubSeq(toks, s, end(s)), at |-> st.toks[s], places |-> SubSeq(st.toks, s, end(s)),
        term |-> st.term, quotedBlockSeen |-> st.quotedBlockSeen] : s \in starts}

Applied == UNION {Pieces(out[k]) : k \in DOMAIN out}

Tables     == {p \in Applied : IsTable(p.toks)}
Views      == {p \in Applied : ~IsTable(p.toks) /\ IsView(p.toks)}
Procedures == {p \in Applied : IsRoutine(p.toks)}
Triggers   == {p \in Applied : ~IsRoutine(p.toks) /\ IsTrigger(p.toks)}

\* The word after the first of some words.
WordAfter(toks, words) ==
  LET k == {j \in DOMAIN toks : Word(toks[j]) /\ toks[j].w[1] \in words}
  IN  toks[Least(k) + 1].w[1]
RoutineName(p)  == WordAfter(p.toks, {"FUNCTION", "PROCEDURE"})
TriggerTable(p) ==
  LET u  == Scanned(p.toks)
      on == Least({k \in DOMAIN u : IsWord(u[k], "ON")})
  IN  CHOOSE table \in TableRef(u, on + 1) : TRUE

\* Mutant: the terminator is not looked at.
RoutineAlwaysComplete(p) == TRUE

\* routineBody: complete unless an ordinary ';' ended it and no dollar block was seen.
RoutineComplete(p) == p.term # "semicolon" \/ p.quotedBlockSeen

TriggerComplete(p) == IF dialect.inlineTriggers THEN RoutineComplete(p) ELSE TRUE

\* The function a trigger names, when it does.
Executes(p) ==
  {p.toks[k + 2].w[1] : k \in {j \in 1..(Len(p.toks) - 3) :
     /\ IsWord(p.toks[j], "EXECUTE") /\ Word(p.toks[j + 1])
     /\ p.toks[j + 1].w[1] \in {"FUNCTION", "PROCEDURE"} /\ IsMark(p.toks[j + 3], "(")}}

\* ExecutedProcedure: the first of that name.
Executed(p) ==
  LET named == {r \in Procedures : RoutineName(r) \in Executes(p)}
  IN  {r \in named : \A other \in named : r.at <= other.at}

\* triggerBodyToScan: the bodies DB-040 and DB-041 read for a trigger (one or none).
TriggerBodies(p) ==
  IF Executes(p) # {} THEN {r \in Executed(p) : RoutineComplete(r)}
  ELSE {q \in {p} : TriggerComplete(q)}

-----------------------------------------------------------------------------
(* DB-020: the names a view's first top-level projection exposes.          *)

TopLevelWord(toks, w, from) == {k \in from..Len(toks) : IsWord(toks[k], w) /\ Depth(toks, k) = Depth(toks, from)}

\* The projection, after DISTINCT or ALL; none without SELECT or FROM, or for a star.
Projection(toks) ==
  LET sel  == TopLevelWord(toks, "SELECT", 1)
      from == IF sel = {} THEN {} ELSE TopLevelWord(toks, "FROM", Least(sel) + 1)
      proj == IF from = {} THEN << >> ELSE SubSeq(toks, Least(sel) + 1, Least(from) - 1)
      skip == IF IsWord(At(proj, 1), "DISTINCT") \/ IsWord(At(proj, 1), "ALL") THEN 2 ELSE 1
      rest == SubSeq(proj, skip, Len(proj))
  IN  IF Len(rest) = 1 /\ IsMark(rest[1], "*") THEN << >> ELSE rest

Commas(toks) == {k \in DOMAIN toks : IsMark(toks[k], ",") /\ Depth(toks, k) = 0}

Items(toks) ==
  LET after(a) == {b \in Commas(toks) \cup {Len(toks) + 1} : a < b}
  IN  {SubSeq(toks, a + 1, Least(after(a)) - 1) : a \in Commas(toks) \cup {0}} \ {<< >>}

\* A name may be quoted; a column may be qualified; anything else has no name without AS.
Name(tok) == tok.t \in {"word", "quoted"}
PlainColumn(item) ==
  /\ Len(item) % 2 = 1
  /\ \A k \in DOMAIN item : IF k % 2 = 1 THEN Name(item[k]) ELSE IsMark(item[k], ".")

ExposedName(item) ==
  LET as == TopLevelWord(item, "AS", 1)
  IN  IF as # {} /\ Least(as) < Len(item) THEN {SubSeq(item, Least(as) + 1, Len(item))}
      ELSE IF PlainColumn(item) THEN {<<item[Len(item)]>>} ELSE {}

SelectColumns(toks) == UNION {ExposedName(item) : item \in Items(Projection(toks))}

CONSTANT Sensitive   \* the words namematch holds sensitive
SensitiveColumns(toks) ==
  {w \in Sensitive : \E name \in SelectColumns(toks) : \E k \in DOMAIN name : w \in ToSet(name[k].w)}

-----------------------------------------------------------------------------
(* What the rules report: the place of the routine, trigger or view, and   *)
(* what is said of it.                                                     *)

Item(rule, p, claims) == {[rule |-> rule, at |-> p.at, claim |-> c] : c \in claims}

DB020 == UNION {Item("DB-020", v, SensitiveColumns(v.toks)) : v \in Views}
DB030 == UNION {Item("DB-030", p, DynamicSqlMarkers(Scanned(p.toks))) :
                  p \in {r \in Procedures : RoutineComplete(r)}}
DB031 == UNION {Item("DB-031", p, {"no handler"}) :
                  p \in {r \in Procedures : RoutineComplete(r) /\ ~HasExceptionHandler(Scanned(r.toks))}}
DB040 == UNION {UNION {Item("DB-040", t, CrossTableWrites(Scanned(body.toks), TriggerTable(t))) :
                  body \in TriggerBodies(t)} : t \in Triggers}
DB041 == UNION {UNION {Item("DB-041", t, ExternalCalls(Scanned(body.toks))) :
                  body \in TriggerBodies(t)} : t \in Triggers}
Documented == {t.at : t \in {tr \in Triggers : \E body \in TriggerBodies(tr) :
                               DocumentedByComment(Scanned(body.toks), TriggerTable(tr))}}
=============================================================================
