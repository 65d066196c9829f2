------------------------------ MODULE SqlText ------------------------------
(***************************************************************************)
(* providers/sqlddl/split.go: one source file is cut into statements, one  *)
(* token per iteration of split's loop (a literal, a comment and a client  *)
(* line are each consumed whole).                                          *)
(*                                                                         *)
(* A token is a record: t is its lexical class, w the words it holds, `of' *)
(* the construct its author wrote it for (no definition of this module     *)
(* reads that field).  A statement keeps the places of its tokens in the   *)
(* file, so that what it lost can be told.                                 *)
(***************************************************************************)
EXTENDS Integers, Sequences, SequencesExt

CONSTANTS
  Token,
  Source         \* the files: records of a dialect and a text, a sequence of tokens

VARIABLES
  file,                       \* the file being split
  i,                          \* the next token
  buf,                        \* the statement so far: places in `text'
  term,                       \* the active terminator
  quotedSeen,                 \* a dollar-quoted block was consumed since the flush
  headDecided, routineHead,   \* does an inner ';' separate or terminate, decided once
  out                         \* the statements

vars == <<file, i, buf, term, quotedSeen, headDecided, routineHead, out>>

\* The three descriptors, as far as the tokenizer and the routine bodies read them.
Postgres  == [name |-> "postgresql", comments |-> {"--", "/*"},
              dollarQuoting |-> TRUE, inlineTriggers |-> FALSE, batchBodies |-> FALSE]
MySQL     == [name |-> "mysql", comments |-> {"--", "#", "/*"},
              dollarQuoting |-> FALSE, inlineTriggers |-> TRUE, batchBodies |-> FALSE]
SQLServer == [name |-> "sqlserver", comments |-> {"--", "/*"},
              dollarQuoting |-> FALSE, inlineTriggers |-> TRUE, batchBodies |-> TRUE]

ASSUME SourceAssumption ==
  \A source \in Source : source.dialect \in {Postgres, MySQL, SQLServer} /\ source.text \in Seq(Token)

dialect == file.dialect
text    == file.text

Is(tok, class, word) == tok.t = class /\ tok.w = <<word>>

\* A comment of the dialect; an opener it does not know is ordinary text.
IsComment(tok) == tok.t = "comment" /\ tok.w[1] \in dialect.comments

-----------------------------------------------------------------------------
(* The heads of reduce.go that split shares.                               *)

\* The words a text opens with.
Opens(toks, words) ==
  /\ Len(toks) >= Len(words)
  /\ \A k \in DOMAIN words : toks[k].t = "word" /\ toks[k].w[1] \in words[k]

Create == {"CREATE"}
OrReplace == <<Create, {"OR"}, {"REPLACE"}>>

IsRoutine(toks) ==
  \E head \in {<<Create>>, OrReplace} : Opens(toks, head \o <<{"FUNCTION", "PROCEDURE"}>>)

\* A trigger also names, later, the table it is ON.
IsTrigger(toks) ==
  /\ Opens(toks, <<Create, {"TRIGGER"}>>) \/ Opens(toks, OrReplace \o <<{"TRIGGER"}>>)
  /\ \E k \in 4..Len(toks) : Is(toks[k], "word", "ON")

IsRoutineHead(toks) == IsRoutine(toks) \/ IsTrigger(toks)

Tokens(places) == [k \in DOMAIN places |-> text[places[k]]]

-----------------------------------------------------------------------------
Fresh(places) ==
  /\ buf' = places
  /\ quotedSeen' = FALSE /\ headDecided' = FALSE /\ routineHead' = FALSE

\* A statement without text is no statement.
Flush(kind) ==
  /\ out' = IF buf = << >> THEN out
            ELSE Append(out, [toks |-> buf, term |-> kind, quotedBlockSeen |-> quotedSeen])
  /\ Fresh(<< >>)

Init ==
  /\ file \in Source
  /\ i = 1 /\ buf = << >> /\ term = ";" /\ out = << >>
  /\ quotedSeen = FALSE /\ headDecided = FALSE /\ routineHead = FALSE

Reading == i <= Len(text)
Advance == i' = i + 1
Keep == buf' = Append(buf, i)

\* A "DELIMITER <tok>" line: a soft break, and another terminator.
DelimiterLine ==
  /\ Reading /\ text[i].t = "delimiter"
  /\ Flush("goBreak")
  /\ term' = text[i].w[1]
  /\ Advance
  /\ UNCHANGED file

\* A line that is GO and nothing else.
GoLine ==
  /\ Reading /\ text[i].t = "go"
  /\ Flush("goBreak")
  /\ Advance
  /\ UNCHANGED <<file, term>>

\* A comment leaves nothing in the statement.
Comment ==
  /\ Reading /\ IsComment(text[i])
  /\ Advance
  /\ UNCHANGED <<file, buf, term, quotedSeen, headDecided, routineHead, out>>

\* A dollar-quoted block, up to its tag or the end: kept as it is written, comments too.
DollarEnd(p) ==
  LET close == {q \in (p + 1)..Len(text) : text[q].t = "dollar"}
  IN  IF close = {} THEN Len(text) ELSE CHOOSE q \in close : \A r \in close : q <= r

DollarBlock ==
  /\ Reading /\ text[i].t = "dollar" /\ dialect.dollarQuoting
  /\ quotedSeen' = TRUE
  /\ buf' = buf \o [k \in 1..(DollarEnd(i) - i + 1) |-> i + k - 1]
  /\ i' = DollarEnd(i) + 1
  /\ UNCHANGED <<file, term, headDecided, routineHead, out>>

AtTerminator == Reading /\ Is(text[i], "mark", term)

\* Where bodies end at GO, the head read before the first ';' decides once what
\* every ';' of the statement means.
DecidesBody == term = ";" /\ dialect.batchBodies
SeparatesBody ==
  DecidesBody /\ (IF headDecided THEN routineHead ELSE IsRoutineHead(Tokens(buf)))

BodySeparator ==
  /\ AtTerminator /\ SeparatesBody
  /\ headDecided' = TRUE /\ routineHead' = TRUE
  /\ Keep /\ Advance
  /\ UNCHANGED <<file, term, quotedSeen, out>>

Terminator ==
  /\ AtTerminator /\ ~SeparatesBody
  /\ Flush(IF term = ";" THEN "semicolon" ELSE "customDelimiter")
  /\ Advance
  /\ UNCHANGED <<file, term>>

\* Words, marks, strings and quoted identifiers: the statement's own text.
Ordinary(tok) ==
  /\ tok.t \notin {"delimiter", "go"} /\ ~IsComment(tok)
  /\ ~(tok.t = "dollar" /\ dialect.dollarQuoting)
  /\ ~Is(tok, "mark", term)

OwnText ==
  /\ Reading /\ Ordinary(text[i])
  /\ Keep /\ Advance
  /\ UNCHANGED <<file, term, quotedSeen, headDecided, routineHead, out>>

\* The input ran out.
EndOfFile ==
  /\ i = Len(text) + 1
  /\ Flush("eof")
  /\ Advance
  /\ UNCHANGED <<file, term>>

Next ==
  \/ DelimiterLine \/ GoLine \/ Comment \/ DollarBlock
  \/ BodySeparator \/ Terminator \/ OwnText \/ EndOfFile

Spec == Init /\ [][Next]_vars

Done == i = Len(text) + 2
=============================================================================
