------------------------------- MODULE MCText -------------------------------
(***************************************************************************)
(* Files of up to three constructs for TextAudit: a routine or trigger in  *)
(* every way its dialect protects a body, of at most two statements, before *)
(* and after tables, or a view, or tables run onto one another.            *)
(***************************************************************************)
EXTENDS TextAudit

W(w)  == [t |-> "word", w |-> <<w>>]
Words(ws) == [k \in DOMAIN ws |-> W(ws[k])]
Mk(c) == [t |-> "mark", w |-> <<c>>]
Str(ws)    == [t |-> "string", w |-> ws]
Quoted(ws) == [t |-> "quoted", w |-> ws]
Rem        == [t |-> "comment", w |-> <<"/*", "INSERT", "INTO", "log">>]
Dollar     == [t |-> "dollar", w |-> <<"$$">>]
Go         == [t |-> "go", w |-> <<"GO">>]
Delimiter(c) == [t |-> "delimiter", w |-> <<c>>]

\* The statements of a body.
Phrase == [
  insert   |-> Words(<<"INSERT", "INTO", "audit">>),
  delete   |-> Words(<<"DELETE", "audit">>),
  update   |-> <<W("UPDATE"), W("sales"), Mk("."), Quoted(<<"stock">>), W("SET")>>,
  own      |-> <<W("UPDATE"), Quoted(<<"orders">>), W("SET")>>,
  ifUpdate |-> Words(<<"IF", "UPDATE">>) \o <<Mk("("), W("qty"), Mk(")")>>,
  upsert   |-> Words(<<"INSERT", "INTO", "audit", "ON", "CONFLICT", "DO", "UPDATE", "SET">>),
  message  |-> <<W("PRINT"), Str(<<"EXEC", "DELETE", "audit", "NOTIFY">>)>>,
  remark   |-> <<Rem, W("PRINT")>>,
  call     |-> Words(<<"EXEC", "p">>),
  execText |-> <<W("EXECUTE"), Str(<<"SELECT">>)>>,
  execExpr |-> <<W("EXEC"), Rem, Mk("("), W("sql"), Mk(")")>>,
  prepare  |-> Words(<<"PREPARE", "s", "FROM", "q">>),
  prepared |-> Words(<<"PREPARE", "s">>),
  select   |-> Words(<<"SELECT", "program", "FROM", "q">>),
  try      |-> Words(<<"BEGIN", "TRY">>),
  raise    |-> <<W("RAISE"), W("EXCEPTION"), Str(<<"WHEN">>)>>,
  apart    |-> <<W("EXCEPTION"), Rem, W("WHEN")>>,
  notify   |-> Words(<<"NOTIFY", "ch">>),
  member   |-> <<W("NEW"), Mk("."), W("NOTIFY")>>,
  copy     |-> <<W("COPY"), W("q"), W("TO"), W("PROGRAM"), Str(<<"mail">>)>>,
  copyFile |-> <<W("COPY"), W("q"), W("TO"), Str(<<"PROGRAM">>)>>,
  build    |-> Words(<<"CREATE", "TABLE", "tmp">>) \o <<Mk("("), W("c"), Mk(")")>> ]

Statement == DOMAIN Phrase

\* The items of a view's projection.
Projected == [
  id        |-> <<W("id")>>,
  secret    |-> <<W("password")>>,
  qualified |-> <<W("u"), Mk("."), Quoted(<<"password">>)>>,
  alias     |-> Words(<<"f">>) \o <<Mk("("), W("x"), Mk(","), W("FROM"), Mk(")")>> \o Words(<<"AS", "password">>),
  call      |-> Words(<<"f">>) \o <<Mk("("), W("x"), Mk(","), W("password"), Mk(")")>>,
  nested    |-> <<Mk("(")>> \o Words(<<"SELECT", "password", "FROM", "u">>) \o <<Mk(")"), W("AS"), W("n")>>,
  star      |-> <<Mk("*")>> ]
ViewItem == DOMAIN Projected

Effect(f) == [s \in Statement \cup ViewItem |-> IF s \in DOMAIN f THEN f[s] ELSE {}]
MCDynamic  == Effect([execText |-> {"execute_string"}, execExpr |-> {"exec_expr"}, prepare |-> {"prepare_from"}])
MCExternal == Effect([notify |-> {"NOTIFY"}, copy |-> {"copy program"}])
MCWrites   == Effect([insert |-> {"audit"}, delete |-> {"audit"}, update |-> {"stock"},
                      upsert |-> {"audit"}, own |-> {"orders"}])
MCExposes  == Effect([secret |-> {"password"}, qualified |-> {"password"}, alias |-> {"password"}])
MCHandling == {"try"}
MCHandlingApart == {"apart"}
MCRemarking == {"remark", "execExpr", "apart"}
MCSensitive == {"password"}

-----------------------------------------------------------------------------
(* Constructs, and the text of each.  Separators belong to no construct.   *)

Base == [kind |-> "table", style |-> "plain", body |-> << >>, events |-> "one", terminated |-> TRUE]
Tag(toks, c) == [k \in DOMAIN toks |-> [t |-> toks[k].t, w |-> toks[k].w, of |-> c]]
Sep(tok) == Tag(<<tok>>, 0)
Sentences(body) == FlattenSeq([k \in DOMAIN body |-> Append(Phrase[body[k]], Mk(";"))])
List(items) == FlattenSeq([k \in DOMAIN items |-> (IF k = 1 THEN << >> ELSE <<Mk(",")>>) \o Projected[items[k]]])

Header(con, speech) ==
  CASE con.kind = "procedure" /\ speech = "postgresql" -> Words(<<"CREATE", "FUNCTION", "p">>) \o <<Mk("("), Mk(")")>>
    [] con.kind = "procedure" /\ con.style = "unread"  -> Words(<<"CREATE", "OR", "ALTER", "PROCEDURE", "p", "AS">>)
    [] con.kind = "procedure"                          -> Words(<<"CREATE", "PROCEDURE", "p", "AS">>)
    [] speech = "sqlserver" -> Words(<<"CREATE", "TRIGGER", "g", "ON", "sales">>) \o <<Mk(".")>>
                               \o Words(<<"orders", "AFTER", "INSERT">>)
                               \o (IF con.events = "several" THEN <<Mk(","), W("UPDATE")>> ELSE << >>) \o <<W("AS")>>
    [] OTHER -> Words(<<"CREATE", "TRIGGER", "g", "AFTER", "UPDATE", "ON", "orders">>)

Block(con) == <<W("BEGIN")>> \o Sentences(con.body) \o <<W("END")>>

RoutineText(con, c, speech) ==
  LET head == Header(con, speech)
  IN  CASE con.style = "dollar"       -> Tag(head \o <<Dollar>> \o Sentences(con.body) \o <<Dollar>>, c) \o Sep(Mk(";"))
        [] con.style = "bare"         -> Tag(head \o Block(con), c) \o Sep(Mk(";"))
        [] con.style = "atomicDollar" -> Tag(head \o <<Dollar, W("x"), Dollar>> \o Block(con), c) \o Sep(Mk(";"))
        [] con.style = "wire"         -> Tag(head \o Words(<<"EXECUTE", "FUNCTION", "p">>) \o <<Mk("("), Mk(")")>>, c) \o Sep(Mk(";"))
        [] con.style = "delimited"    -> Sep(Delimiter("//")) \o Tag(head \o Block(con), c) \o Sep(Mk("//")) \o Sep(Delimiter(";"))
        [] con.style = "last"         -> Tag(head \o Block(con), c)
        [] OTHER                      -> Tag(Append(head \o Block(con), Mk(";")), c) \o Sep(Go)

Tails == [plain |-> << >>, storage |-> <<W("WITH"), Mk("("), W("DROP"), Mk(")")>>,
          note |-> <<W("COMMENT"), Str(<<"CREATE">>)>>, group |-> <<W("ON"), Quoted(<<"CREATE">>)>>]

End(con) == IF con.terminated THEN Sep(Mk(";")) ELSE << >>
PlainText(con, c) ==
  CASE con.kind = "table" -> Tag(Words(<<"CREATE", "TABLE", "b">>) \o <<Mk("("), W("c"), Mk("("), W("2"), Mk(")"), Mk(")")>>
                                 \o Tails[con.style], c) \o End(con)
    [] con.kind = "data"  -> Tag(Words(<<"INSERT", "INTO", "seed">>), c) \o End(con)
    [] con.kind = "view"  -> Tag(Words(<<"CREATE", "VIEW", "v", "AS">>)
                                 \o (IF con.style = "with"
                                     THEN Words(<<"WITH", "q", "AS">>) \o <<Mk("(")>> \o Words(<<"SELECT", "password", "FROM", "u">>) \o <<Mk(")")>>
                                     ELSE << >>)
                                 \o <<W("SELECT"), W("DISTINCT")>> \o List(con.body) \o Words(<<"FROM", "u">>), c) \o End(con)

ConText(con, c, speech) ==
  IF con.kind \in {"procedure", "trigger"} THEN RoutineText(con, c, speech) ELSE PlainText(con, c)

File(descriptor, cons) ==
  [dialect |-> descriptor, written |-> cons,
   text |-> FlattenSeq([c \in DOMAIN cons |-> ConText(cons[c], c, descriptor.name)])]

-----------------------------------------------------------------------------
(* The files.                                                              *)

Upto2(S) == {<< >>} \cup {<<a>> : a \in S} \cup {<<a, b>> : a, b \in S}
T == Base
Routine(kind, style, body) == [Base EXCEPT !.kind = kind, !.style = style, !.body = body]
Wire == Routine("trigger", "wire", << >>)
Other == <<"insert", "try">>

PgFiles == {<<Routine("procedure", st, b), Wire, T>> : st \in {"dollar", "bare", "atomicDollar"}, b \in Upto2(Statement)}
           \cup {<<Routine("procedure", "dollar", b), Routine("procedure", "dollar", Other), Wire>> : b \in {<<s>> : s \in Statement}}
MyFiles == {<<T, Routine(kd, st, b), T>> : kd \in {"procedure", "trigger"}, st \in {"delimited", "bare"}, b \in Upto2(Statement)}
TsFiles == {<<Routine(kd, "batch", b), T>> : kd \in {"procedure", "trigger"}, b \in Upto2(Statement)}
           \cup {<<T, Routine(kd, "last", b)>> : kd \in {"procedure", "trigger"}, b \in Upto2(Statement)}
           \cup {<<Routine("procedure", "unread", <<s>>), Routine("trigger", "batch", Other), T>> : s \in Statement}
           \cup {<<Routine("procedure", "batch", <<s>>),
                   [Routine("trigger", "batch", Other) EXCEPT !.events = "several"], T>> : s \in Statement}
ViewFiles == {<<[Base EXCEPT !.kind = "view", !.style = st, !.body = b], T>> :
                st \in {"plain", "with"}, b \in Upto2(ViewItem) \ {<< >>}}
TableFiles ==
  LET one == {[Base EXCEPT !.kind = kd, !.style = tl, !.terminated = end] :
                kd \in {"table", "data"}, tl \in DOMAIN Tails, end \in BOOLEAN}
      plain == {con \in one : con.kind = "data" => con.style = "plain"}
  IN  {<<a, b, T>> : a, b \in plain}

FilesIn(descriptor, lists) == {File(descriptor, cons) : cons \in lists}
MCSource ==
  FilesIn(Postgres, PgFiles \cup ViewFiles) \cup FilesIn(MySQL, MyFiles)
  \cup FilesIn(SQLServer, TsFiles \cup TableFiles)
MCToken == [t : STRING, w : Seq(STRING), of : Nat]
=============================================================================
