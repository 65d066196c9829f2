----------------------------- MODULE TextProofs -----------------------------
(***************************************************************************)
(* What the splitter does to a file of any length, in any dialect, whose   *)
(* author keeps to AuthorAssumption: a body that is marked complete is     *)
(* whole, and the tables that are read are the tables declared.            *)
(***************************************************************************)
EXTENDS TextAudit, SequenceTheorems, FiniteSetTheorems, WellFoundedInduction, TLAPS

\* A set of numbers has a least one.
LEMMA LeastExists ==
  ASSUME NEW S \in SUBSET Nat, S # {}
  PROVE  /\ Least(S) \in S
         /\ \A n \in S : Least(S) <= n
<1>1. PICK n \in S : \A m \in S : ~ (<<m, n>> \in OpToRel(<, Nat))
  BY NatLessThanWellFounded, WFMin
<1>2. \A m \in S : ~ (m < n)
  BY <1>1 DEF OpToRel
<1>3. \E k \in S : \A other \in S : k <= other
  BY <1>2
<1> QED
  BY <1>3 DEF Least

-----------------------------------------------------------------------------
(* The text of a source. *)

\* Every file is written in the way of the assumption.
LEMMA SourceText ==
  ASSUME NEW s \in Source
  PROVE  /\ s.text \in Seq(Token) /\ Len(s.text) \in Nat /\ DOMAIN s.text = 1 .. Len(s.text)
         /\ s.dialect \in {Postgres, MySQL, SQLServer}
         /\ Ordered(s) /\ HeadsBegin(s) /\ KeepsSeparatorsOut(s) /\ RoutinesAreDivided(s) /\ BlocksProtect(s)
         /\ SeparatorsSeparate(s) /\ TablesAreShaped(s)
BY SourceAssumption, AuthorAssumption

\* The terminator changes where a DELIMITER line names another.
LEMMA TerminatorNext ==
  ASSUME NEW u, NEW k \in Nat \ {0}
  PROVE  TerminatorAt(u, k + 1) = IF u[k].t = "delimiter" THEN u[k].w[1] ELSE TerminatorAt(u, k)
<1> DEFINE lines(n) == {j \in 1 .. (n - 1) : u[j].t = "delimiter"}
           Of(S) == IF S = {} THEN ";" ELSE u[CHOOSE j \in S : \A l \in S : l <= j].w[1]
<1>0. TerminatorAt(u, k) = Of(lines(k)) /\ TerminatorAt(u, k + 1) = Of(lines(k + 1))
  BY SMTT(30) DEF TerminatorAt
<1>1. CASE u[k].t = "delimiter"
  <2>1. k \in lines(k + 1) /\ \A l \in lines(k + 1) : l <= k
    BY <1>1
  <2>2. (CHOOSE j \in lines(k + 1) : \A l \in lines(k + 1) : l <= j) = k
    <3>1. \A j \in lines(k + 1) : (\A l \in lines(k + 1) : l <= j) => j = k
      BY <2>1
    <3> HIDE DEF lines
    <3> QED
      BY <2>1, <3>1
  <2>3. Of(lines(k + 1)) = u[k].w[1]
    <3>1. lines(k + 1) # {}
      BY <2>1
    <3> HIDE DEF lines
    <3> QED
      BY <2>2, <3>1
  <2> QED
    BY <1>0, <1>1, <2>3
<1>2. CASE u[k].t # "delimiter"
  <2>1. lines(k + 1) = lines(k)
    BY <1>2
  <2> HIDE DEF lines, Of
  <2> QED
    BY <1>0, <1>2, <2>1
<1> QED
  BY <1>1, <1>2

\* It stays over a stretch without such lines.
LEMMA TerminatorStays ==
  ASSUME NEW u, NEW k \in Nat \ {0}, NEW m \in Nat, k <= m,
         \A j \in k .. (m - 1) : u[j].t # "delimiter"
  PROVE  TerminatorAt(u, m) = TerminatorAt(u, k)
<1> DEFINE lines(n) == {j \in 1 .. (n - 1) : u[j].t = "delimiter"}
           Of(S) == IF S = {} THEN ";" ELSE u[CHOOSE j \in S : \A l \in S : l <= j].w[1]
<1>0. TerminatorAt(u, k) = Of(lines(k)) /\ TerminatorAt(u, m) = Of(lines(m))
  BY DEF TerminatorAt
<1>1. lines(m) = lines(k)
  OBVIOUS
<1> HIDE DEF lines, Of
<1> QED
  BY <1>0, <1>1

\* The dollar-quoted blocks are pairs of neighbours.
LEMMA BlocksPair ==
  ASSUME NEW s \in Source, s.dialect.dollarQuoting
  PROVE  Blocks(s) \in SUBSET Neighbours(s) /\ Pairs(s, Blocks(s))
BY SourceText DEF Blocks, BlocksProtect

\* What makes a block.
LEMMA BlockShape ==
  ASSUME NEW s \in Source, s.dialect.dollarQuoting, NEW b \in Blocks(s)
  PROVE  /\ b = <<b[1], b[2]>> /\ b[1] \in Dollars(s) /\ b[2] \in Dollars(s) /\ b[1] < b[2]
         /\ \A k \in Dollars(s) : ~ (b[1] < k /\ k < b[2])
         /\ s.text[b[1]].of = s.text[b[2]].of /\ s.text[b[1]].of # 0
BY BlocksPair DEF Neighbours

\* Between two tokens of a construct all are of it.
LEMMA Between ==
  ASSUME NEW s \in Source, NEW j \in DOMAIN s.text, NEW k \in DOMAIN s.text, NEW l \in DOMAIN s.text,
         j <= k, k <= l, s.text[j].of = s.text[l].of, s.text[j].of # 0
  PROVE  s.text[k].of = s.text[j].of
<1>1. /\ \A n \in DOMAIN s.text : s.text[n].of \in Nat
      /\ \A n \in DOMAIN s.text : s.text[n].of # 0 => \A m \in 1 .. (n - 1) : s.text[m].of <= s.text[n].of
      /\ \A n \in DOMAIN s.text : s.text[n].of = 0 =>
           {s.text[m].of : m \in 1 .. (n - 1)} \cap {s.text[m].of : m \in (n + 1) .. Len(s.text)} \subseteq {0}
  <2>1. \A n \in DOMAIN s.text : s.text[n].of \in 0 .. Len(s.written)
    BY SourceText, SMTT(30) DEF Ordered
  <2>2. \A n \in DOMAIN s.text : s.text[n].of \in Nat
    BY <2>1
  <2> QED
    BY <2>2, SourceText DEF Ordered
<1>2. DOMAIN s.text = 1 .. Len(s.text) /\ Len(s.text) \in Nat
  BY SourceText
<1>3. CASE j = k \/ k = l
  BY <1>3
<1>4. CASE j < k /\ k < l
  <2>1. s.text[k].of # 0
    <3> SUFFICES ASSUME s.text[k].of = 0 PROVE FALSE
      OBVIOUS
    <3>1. j \in 1 .. (k - 1) /\ l \in (k + 1) .. Len(s.text)
      BY <1>2, <1>4
    <3> QED
      BY <1>1, <3>1
  <2>2. s.text[j].of <= s.text[k].of /\ s.text[k].of <= s.text[l].of
    <3>1. j \in 1 .. (k - 1) /\ k \in 1 .. (l - 1)
      BY <1>2, <1>4
    <3> QED
      BY <1>1, <2>1, <3>1
  <2> QED
    BY <1>1, <2>2
<1> QED
  BY <1>2, <1>3, <1>4

\* A block is within its construct.
LEMMA BlockWithin ==
  ASSUME NEW s \in Source, s.dialect.dollarQuoting, NEW b \in Blocks(s), NEW k \in b[1] .. b[2]
  PROVE  k \in DOMAIN s.text /\ s.text[k].of = s.text[b[1]].of /\ s.text[k].of # 0
<1>1. b[1] \in DOMAIN s.text /\ b[2] \in DOMAIN s.text /\ DOMAIN s.text = 1 .. Len(s.text) /\ Len(s.text) \in Nat
  BY BlockShape, SourceText DEF Dollars
<1> QED
  BY <1>1, BlockShape, Between, SMTT(30)

-----------------------------------------------------------------------------
(* The tokens of a statement. *)

\* The places q are those of the text from a to before e, in order, without comments at most; and
\* nothing there divides statements.
Holds(s, q, a, e) ==
  /\ q \in Seq(Nat)
  /\ \A x \in DOMAIN q : q[x] \in a .. (e - 1)
  /\ \A x, y \in DOMAIN q : x < y => q[x] < q[y]
  /\ a .. (e - 1) \subseteq DOMAIN s.text
  /\ \A k \in a .. (e - 1) : ~ Dropped(s, k) => \E x \in DOMAIN q : q[x] = k
  /\ \A k \in a .. (e - 1) : ~ Divides(s, k)

\* A dollar-quoted block is in it.
HoldsBlock(s, a, e) == s.dialect.dollarQuoting /\ \E k \in a .. (e - 1) : s.text[k].t = "dollar"

\* A statement that ends within a construct ends at a ';' outside of its blocks.
EndsAt(s, st, e) ==
  e \in DOMAIN s.text /\ s.text[e].of # 0 =>
    /\ st.term = "semicolon" /\ IsMark(s.text[e], ";")
    /\ s.dialect.dollarQuoting => ~ InBlock(s, e)

\* One that starts within a construct starts after a ';'.
StartsAt(s, a) == a - 1 \in DOMAIN s.text /\ s.text[a - 1].of # 0 => IsMark(s.text[a - 1], ";")

\* What the splitter has cut off is a statement.
Cut(s, st) ==
  /\ st.toks # << >>
  /\ \E a, e \in 1 .. (Len(s.text) + 1) :
       /\ StartsAt(s, a) /\ Holds(s, st.toks, a, e)
       /\ st.quotedBlockSeen => HoldsBlock(s, a, e)
       /\ EndsAt(s, st, e)

\* It begins empty,
LEMMA HoldsNone == ASSUME NEW s, NEW k \in Nat PROVE Holds(s, << >>, k, k)
BY DEF Holds

\* takes the next token,
LEMMA HoldsNext ==
  ASSUME NEW s \in Source, NEW q, NEW a \in Nat \ {0}, NEW k \in DOMAIN s.text, a <= k, Holds(s, q, a, k),
         ~ Divides(s, k)
  PROVE  Holds(s, Append(q, k), a, k + 1)
<1>1. DOMAIN s.text = 1 .. Len(s.text) /\ Len(s.text) \in Nat /\ q \in Seq(Nat) /\ k \in Nat
  BY SourceText DEF Holds
<1> DEFINE r == Append(q, k)
<1>2. /\ r \in Seq(Nat) /\ DOMAIN q = 1 .. Len(q) /\ Len(q) \in Nat /\ DOMAIN r = 1 .. (Len(q) + 1)
      /\ \A x \in 1 .. Len(q) : r[x] = q[x]
      /\ r[Len(q) + 1] = k
  BY <1>1
<1> HIDE DEF r
<1>3. \A x \in DOMAIN r : r[x] \in a .. ((k + 1) - 1)
  <2> SUFFICES ASSUME NEW x \in DOMAIN r PROVE r[x] \in a .. ((k + 1) - 1)
    OBVIOUS
  <2>1. CASE x \in 1 .. Len(q)
    <3>1. q[x] \in a .. (k - 1)
      BY <1>2, <2>1 DEF Holds
    <3> QED
      BY <1>1, <1>2, <2>1, <3>1, SMTT(30)
  <2>2. CASE x = Len(q) + 1
    BY <1>1, <1>2, <2>2
  <2> QED
    BY <1>2, <2>1, <2>2
<1>4. \A x, y \in DOMAIN r : x < y => r[x] < r[y]
  <2> SUFFICES ASSUME NEW x \in DOMAIN r, NEW y \in DOMAIN r, x < y PROVE r[x] < r[y]
    OBVIOUS
  <2>1. x \in 1 .. Len(q) /\ q[x] \in a .. (k - 1)
    BY <1>2, SMTT(30) DEF Holds
  <2>2. CASE y \in 1 .. Len(q)
    BY <1>2, <2>1, <2>2 DEF Holds
  <2>3. CASE y = Len(q) + 1
    BY <1>1, <1>2, <2>1, <2>3
  <2> QED
    BY <1>2, <2>2, <2>3
<1>5. \A m \in a .. ((k + 1) - 1) : m \in a .. (k - 1) \/ m = k
  BY <1>1
<1>6. \A m \in a .. ((k + 1) - 1) : ~ Dropped(s, m) => \E x \in DOMAIN r : r[x] = m
  <2> SUFFICES ASSUME NEW m \in a .. ((k + 1) - 1), ~ Dropped(s, m) PROVE \E x \in DOMAIN r : r[x] = m
    OBVIOUS
  <2>1. CASE m = k
    BY <1>2, <2>1, SMTT(30)
  <2>2. CASE m \in a .. (k - 1)
    <3>1. PICK x \in DOMAIN q : q[x] = m
      BY <2>2 DEF Holds
    <3> QED
      BY <1>2, <3>1
  <2> QED
    BY <1>5, <2>1, <2>2
<1>7. \A m \in a .. ((k + 1) - 1) : m \in DOMAIN s.text /\ ~ Divides(s, m)
  BY <1>5 DEF Holds
<1>8. Holds(s, r, a, k + 1)
  BY <1>2, <1>3, <1>4, <1>6, <1>7 DEF Holds
<1> QED
  BY <1>8 DEF r

\* or passes over a comment.
LEMMA HoldsPast ==
  ASSUME NEW s \in Source, NEW q, NEW a \in Nat \ {0}, NEW k \in DOMAIN s.text, a <= k, Holds(s, q, a, k),
         Dropped(s, k)
  PROVE  Holds(s, q, a, k + 1)
<1>1. DOMAIN s.text = 1 .. Len(s.text) /\ Len(s.text) \in Nat /\ k \in Nat
  BY SourceText
<1>2. \A m \in a .. ((k + 1) - 1) : m \in a .. (k - 1) \/ m = k
  BY <1>1
<1>3. ~ Divides(s, k)
  BY DEF Divides, Is, Dropped
<1>4. a .. (k - 1) \subseteq a .. ((k + 1) - 1)
  BY <1>1
<1>5. q \in Seq(Nat) /\ (\A x, y \in DOMAIN q : x < y => q[x] < q[y])
  BY DEF Holds
<1>6. \A x \in DOMAIN q : q[x] \in a .. ((k + 1) - 1)
  BY <1>4 DEF Holds
<1>7. \A m \in a .. ((k + 1) - 1) : m \in DOMAIN s.text /\ ~ Divides(s, m)
  BY <1>2, <1>3 DEF Holds
<1>8. \A m \in a .. ((k + 1) - 1) : ~ Dropped(s, m) => \E x \in DOMAIN q : q[x] = m
  BY <1>2 DEF Holds
<1> QED
  BY <1>5, <1>6, <1>7, <1>8 DEF Holds

\* A dollar-quoted block is taken as it is.
LEMMA HoldsWholeBlock ==
  ASSUME NEW s \in Source, NEW q, NEW a \in Nat \ {0}, NEW k \in DOMAIN s.text, NEW m \in DOMAIN s.text,
         a <= k, k <= m, Holds(s, q, a, k), \A j \in k .. m : s.text[j].of # 0
  PROVE  Holds(s, q \o [x \in 1 .. (m - k + 1) |-> k + x - 1], a, m + 1)
<1>1. DOMAIN s.text = 1 .. Len(s.text) /\ Len(s.text) \in Nat /\ q \in Seq(Nat) /\ k \in Nat /\ m \in Nat
  BY SourceText DEF Holds
<1> DEFINE n == m - k + 1
           block == [x \in 1 .. n |-> k + x - 1]
           r == q \o block
<1>2. block \in Seq(Nat) /\ Len(block) = n /\ n \in Nat /\ \A x \in 1 .. n : block[x] = k + x - 1
  <2>1. n \in Nat /\ n = m - k + 1
    BY <1>1
  <2> HIDE DEF n
  <2>2. \A x \in 1 .. n : k + x - 1 \in Nat
    BY <1>1, <2>1, SMTT(30)
  <2>3. block \in [1 .. n -> Nat] /\ \A x \in 1 .. n : block[x] = k + x - 1
    BY <2>2
  <2> HIDE DEF block
  <2>4. block \in Seq(Nat)
    BY <2>1, <2>3
  <2>5. Len(block) = n
    BY <2>1, <2>3, <2>4
  <2> QED
    BY <2>1, <2>3, <2>4, <2>5
<1>0. n \in Nat /\ n = m - k + 1
  BY <1>2
<1> HIDE DEF block, n
<1>3. /\ r \in Seq(Nat) /\ DOMAIN q = 1 .. Len(q) /\ Len(q) \in Nat /\ DOMAIN r = 1 .. (Len(q) + n)
      /\ \A x \in 1 .. Len(q) : r[x] = q[x]
      /\ \A x \in (Len(q) + 1) .. (Len(q) + n) : r[x] = k + (x - Len(q)) - 1
  <2>1. /\ r \in Seq(Nat) /\ DOMAIN q = 1 .. Len(q) /\ Len(q) \in Nat /\ Len(r) = Len(q) + n
        /\ DOMAIN r = 1 .. (Len(q) + n)
        /\ \A x \in 1 .. (Len(q) + n) : r[x] = IF x <= Len(q) THEN q[x] ELSE block[x - Len(q)]
    <3>1. q \in Seq(Nat) /\ block \in Seq(Nat) /\ Len(block) = n /\ n \in Nat
      BY <1>0, <1>1, <1>2
    <3>2. /\ r \in Seq(Nat) /\ Len(r) = Len(q) + n
          /\ \A x \in 1 .. (Len(q) + n) : r[x] = IF x <= Len(q) THEN q[x] ELSE block[x - Len(q)]
      BY <3>1, ConcatProperties, ZenonT(40)
    <3> HIDE DEF r
    <3>3. DOMAIN q = 1 .. Len(q) /\ Len(q) \in Nat /\ DOMAIN r = 1 .. Len(r)
      BY <3>1, <3>2
    <3> QED
      BY <3>2, <3>3
  <2> HIDE DEF r
  <2>2. \A x \in (Len(q) + 1) .. (Len(q) + n) : x - Len(q) \in 1 .. n /\ ~ (x <= Len(q))
    BY <1>0, <2>1, SMTT(30)
  <2>3. \A x \in 1 .. Len(q) : x \in 1 .. (Len(q) + n) /\ x <= Len(q)
    BY <1>0, <2>1
  <2>4. \A x \in (Len(q) + 1) .. (Len(q) + n) : x \in 1 .. (Len(q) + n)
    BY <1>0, <2>1
  <2> QED
    BY <1>2, <2>1, <2>2, <2>3, <2>4
<1> HIDE DEF r
<1>4. \A x \in DOMAIN r : \/ x \in 1 .. Len(q) /\ r[x] \in a .. (k - 1)
                          \/ x \in (Len(q) + 1) .. (Len(q) + n) /\ r[x] \in k .. m
  <2> SUFFICES ASSUME NEW x \in DOMAIN r
               PROVE  \/ x \in 1 .. Len(q) /\ r[x] \in a .. (k - 1)
                      \/ x \in (Len(q) + 1) .. (Len(q) + n) /\ r[x] \in k .. m
    OBVIOUS
  <2>1. CASE x \in 1 .. Len(q)
    <3>1. q[x] \in a .. (k - 1)
      BY <1>3, <2>1 DEF Holds
    <3> QED
      BY <1>3, <2>1, <3>1
  <2>2. CASE x \in (Len(q) + 1) .. (Len(q) + n)
    <3>1. r[x] = k + (x - Len(q)) - 1
      BY <1>3, <2>2
    <3>2. Len(q) \in Nat
      BY <1>3
    <3>3. k + (x - Len(q)) - 1 \in k .. m
      BY <1>0, <1>1, <2>2, <3>2, SMTT(30)
    <3> QED
      BY <2>2, <3>1, <3>3
  <2>3. x \in 1 .. (Len(q) + n) /\ Len(q) \in Nat
    BY <1>3
  <2>4. x \in 1 .. Len(q) \/ x \in (Len(q) + 1) .. (Len(q) + n)
    BY <1>0, <2>3
  <2> QED
    BY <2>1, <2>2, <2>4
<1>5. \A x, y \in DOMAIN r : x < y => r[x] < r[y]
  <2> SUFFICES ASSUME NEW x \in DOMAIN r, NEW y \in DOMAIN r, x < y PROVE r[x] < r[y]
    OBVIOUS
  <2>1. CASE y \in 1 .. Len(q)
    <3>1. x \in 1 .. Len(q)
      BY <1>3, <2>1
    <3> QED
      BY <1>3, <2>1, <3>1 DEF Holds
  <2>2. CASE x \in 1 .. Len(q) /\ y \in (Len(q) + 1) .. (Len(q) + n)
    <3>1. r[x] \in a .. (k - 1) /\ r[y] \in k .. m
      BY <1>3, <1>4, <2>2
    <3> QED
      BY <1>1, <3>1
  <2>3. CASE x \in (Len(q) + 1) .. (Len(q) + n) /\ y \in (Len(q) + 1) .. (Len(q) + n)
    BY <1>1, <1>3, <2>3, SMTT(30)
  <2> QED
    BY <1>4, <2>1, <2>2, <2>3
<1>6. \A x \in DOMAIN r : r[x] \in a .. ((m + 1) - 1)
  BY <1>1, <1>4, SMTT(30)
<1>7. \A j \in a .. ((m + 1) - 1) : j \in a .. (k - 1) \/ j \in k .. m
  BY <1>1
<1>8. \A j \in a .. ((m + 1) - 1) : j \in DOMAIN s.text /\ ~ Divides(s, j)
  <2>1. \A j \in k .. m : j \in DOMAIN s.text /\ ~ Divides(s, j)
    <3>1. \A j \in k .. m : j \in DOMAIN s.text
      BY <1>1
    <3> QED
      BY <3>1 DEF Divides
  <2> QED
    BY <1>7, <2>1 DEF Holds
<1>9. \A j \in a .. ((m + 1) - 1) : ~ Dropped(s, j) => \E x \in DOMAIN r : r[x] = j
  <2> SUFFICES ASSUME NEW j \in a .. ((m + 1) - 1), ~ Dropped(s, j) PROVE \E x \in DOMAIN r : r[x] = j
    OBVIOUS
  <2>1. CASE j \in a .. (k - 1)
    <3>1. PICK x \in DOMAIN q : q[x] = j
      BY <2>1 DEF Holds
    <3> QED
      BY <1>2, <1>3, <3>1
  <2>2. CASE j \in k .. m
    <3>0. Len(q) \in Nat /\ DOMAIN r = 1 .. (Len(q) + n)
      BY <1>3
    <3> DEFINE x == Len(q) + (j - k) + 1
    <3>1. x \in (Len(q) + 1) .. (Len(q) + n) /\ x \in 1 .. (Len(q) + n)
      <4>1. j \in Nat /\ k \in Nat /\ Len(q) \in Nat /\ k <= j /\ j <= m /\ m \in Nat
        BY <1>1, <2>2, <3>0
      <4> QED
        BY <1>0, <4>1, SMTT(30)
    <3>2. k + (x - Len(q)) - 1 = j
      <4>1. j \in Nat /\ k \in Nat /\ Len(q) \in Nat
        BY <1>1, <2>2, <3>0
      <4> QED
        BY <4>1
    <3> HIDE DEF x
    <3>3. r[x] = j
      BY <1>3, <3>1, <3>2
    <3> QED
      BY <3>0, <3>1, <3>3
  <2> QED
    BY <1>7, <2>1, <2>2
<1>10. Holds(s, r, a, m + 1)
  BY <1>3, <1>5, <1>6, <1>8, <1>9 DEF Holds
<1> QED
  BY <1>10 DEF r, block, n

-----------------------------------------------------------------------------
(* The invariant of the splitter. *)

Kept == [toks : Seq(Nat), term : {"goBreak", "semicolon", "customDelimiter", "eof"}, quotedBlockSeen : BOOLEAN]

TextTypeOK ==
  /\ file \in Source
  /\ i \in 1 .. (Len(text) + 2)
  /\ buf \in Seq(Nat) /\ quotedSeen \in BOOLEAN
  /\ out \in Seq(Kept)
  /\ i <= Len(text) + 1 => term = TerminatorAt(text, i)

\* The statement so far goes from some place to the next token.
BufInv == \E a \in 1 .. i : StartsAt(file, a) /\ Holds(file, buf, a, i) /\ (quotedSeen => HoldsBlock(file, a, i))

OutInv == \A x \in DOMAIN out : Cut(file, out[x])

\* The next token is never within a dollar-quoted block.
OutsideInv == dialect.dollarQuoting => \A b \in Blocks(file) : b[1] < i => b[2] < i

TextInv == TextTypeOK /\ BufInv /\ OutInv /\ OutsideInv

\* It begins before the first token.
LEMMA TextInit == Init => TextInv
<1> SUFFICES ASSUME Init PROVE TextInv
  OBVIOUS
<1>1. file \in Source /\ i = 1 /\ buf = << >> /\ term = ";" /\ out = << >> /\ quotedSeen = FALSE
  BY DEF Init
<1>2. Len(text) \in Nat /\ DOMAIN text = 1 .. Len(text)
  BY <1>1, SourceText DEF text
<1>3. TerminatorAt(text, 1) = ";"
  <2>1. {j \in 1 .. (1 - 1) : text[j].t = "delimiter"} = {}
    OBVIOUS
  <2> QED
    BY <2>1 DEF TerminatorAt
<1>4. TextTypeOK
  <2>1. 1 \in 1 .. (Len(text) + 2)
    BY <1>2
  <2>2. buf \in Seq(Nat) /\ out \in Seq(Kept)
    BY <1>1, EmptySeq
  <2>3. quotedSeen \in BOOLEAN
    BY <1>1
  <2> QED
    BY <1>1, <1>3, <2>1, <2>2, <2>3 DEF TextTypeOK
<1>5. BufInv
  <2>1. Holds(file, << >>, 1, 1)
    BY HoldsNone
  <2>2. 1 \in 1 .. 1
    OBVIOUS
  <2>4. StartsAt(file, 1)
    <3>1. 1 - 1 = 0 /\ 0 \notin DOMAIN file.text
      BY <1>2 DEF text
    <3> QED
      BY <3>1 DEF StartsAt
  <2>3. \E a \in 1 .. 1 : StartsAt(file, a) /\ Holds(file, << >>, a, 1)
    BY <2>1, <2>2, <2>4
  <2> QED
    BY <1>1, <2>3 DEF BufInv
<1>6. OutInv
  <2>1. DOMAIN << >> = {}
    OBVIOUS
  <2> QED
    BY <1>1, <2>1 DEF OutInv
<1>7. OutsideInv
  <2> SUFFICES ASSUME dialect.dollarQuoting, NEW b \in Blocks(file), b[1] < 1 PROVE FALSE
    BY <1>1 DEF OutsideInv
  <2>1. b[1] \in DOMAIN text
    BY <1>1, BlockShape DEF Dollars, text, dialect
  <2> QED
    BY <1>2, <2>1
<1> QED
  BY <1>4, <1>5, <1>6, <1>7 DEF TextInv

\* What is true of the position and its text in a state of the invariant.
LEMMA Here ==
  ASSUME TextInv
  PROVE  /\ file \in Source /\ Len(text) \in Nat /\ DOMAIN text = 1 .. Len(text) /\ i \in Nat /\ i >= 1
         /\ text = file.text /\ dialect = file.dialect
         /\ Reading => i \in DOMAIN text /\ term = TerminatorAt(text, i) /\ i + 1 \in 1 .. (Len(text) + 2)
<1>1. file \in Source /\ text = file.text /\ dialect = file.dialect
  BY DEF TextInv, TextTypeOK, text, dialect
<1>2. Len(text) \in Nat /\ DOMAIN text = 1 .. Len(text)
  BY <1>1, SourceText
<1> QED
  BY <1>1, <1>2 DEF TextInv, TextTypeOK, Reading

\* After a token that is not the opening of a block the next one is outside of all.
LEMMA OutsideNext ==
  ASSUME TextInv, i' = i + 1, file' = file,
         Reading /\ dialect.dollarQuoting => text[i].t # "dollar"
  PROVE  OutsideInv'
<1> SUFFICES ASSUME dialect.dollarQuoting, NEW b \in Blocks(file), b[1] < i + 1 PROVE b[2] < i + 1
  BY DEF OutsideInv, dialect
<1>1. /\ b[1] \in DOMAIN text /\ b[2] \in DOMAIN text
      /\ text[b[1]].t = "dollar"
  BY Here, BlockShape DEF Dollars
<1>2. b[1] # i
  BY <1>1, Here DEF Reading
<1>3. b[1] < i
  BY <1>1, <1>2, Here
<1>4. b[2] < i
  BY <1>3 DEF TextInv, OutsideInv
<1> QED
  BY <1>1, <1>4, Here

\* Only a ';' outside of its blocks ends a statement within a construct.
MayEnd(kind) ==
  i \in DOMAIN text /\ text[i].of # 0 =>
    /\ kind = "semicolon" /\ IsMark(text[i], ";")
    /\ dialect.dollarQuoting => ~ InBlock(file, i)

\* A statement that is cut off is one, and the next begins after it.
LEMMA FlushKeeps ==
  ASSUME TextInv, i <= Len(text) + 1, i' = i + 1, file' = file,
         NEW kind \in {"goBreak", "semicolon", "customDelimiter", "eof"}, Flush(kind), MayEnd(kind)
  PROVE  /\ BufInv' /\ OutInv'
         /\ buf' \in Seq(Nat) /\ quotedSeen' \in BOOLEAN /\ out' \in Seq(Kept)
<1> DEFINE st == [toks |-> buf, term |-> kind, quotedBlockSeen |-> quotedSeen]
<1>1. buf' = << >> /\ quotedSeen' = FALSE
  BY DEF Flush, Fresh
<1>0. buf' \in Seq(Nat) /\ quotedSeen' \in BOOLEAN
  BY <1>1, EmptySeq
<1>2. out \in Seq(Kept) /\ st \in Kept
  BY DEF TextInv, TextTypeOK, Kept
<1>6. st.toks = buf /\ st.term = kind /\ st.quotedBlockSeen = quotedSeen
  OBVIOUS
<1>7. out' = IF buf = << >> THEN out ELSE Append(out, st)
  BY DEF Flush
<1> HIDE DEF st
<1>3. BufInv'
  <2>1. Holds(file, << >>, i + 1, i + 1) /\ i + 1 \in 1 .. (i + 1)
    <3>1. i + 1 \in Nat /\ i + 1 \in 1 .. (i + 1)
      BY Here
    <3> QED
      BY <3>1, HoldsNone
  <2>3. StartsAt(file, i + 1)
    <3>1. (i + 1) - 1 = i /\ text = file.text
      BY Here
    <3>2. i \in DOMAIN file.text /\ file.text[i].of # 0 => IsMark(file.text[i], ";")
      BY <3>1 DEF MayEnd
    <3> QED
      BY <3>1, <3>2 DEF StartsAt
  <2>2. \E a \in 1 .. i' : StartsAt(file', a) /\ Holds(file', buf', a, i') /\ (quotedSeen' => HoldsBlock(file', a, i'))
    BY <1>1, <2>1, <2>3
  <2> QED
    BY <2>2 DEF BufInv
<1>4. CASE buf = << >>
  <2>1. out' = out
    BY <1>4, <1>7
  <2>2. OutInv'
    BY <2>1 DEF TextInv, OutInv
  <2> QED
    BY <1>0, <1>2, <1>3, <2>1, <2>2
<1>5. CASE buf # << >>
  <2>1. out' = Append(out, st)
    BY <1>5, <1>7
  <2>2. Cut(file, st)
    <3>1. PICK a \in 1 .. i :
            StartsAt(file, a) /\ Holds(file, buf, a, i) /\ (quotedSeen => HoldsBlock(file, a, i))
      BY DEF TextInv, BufInv
    <3>2. EndsAt(file, st, i)
      <4>1. i \in DOMAIN file.text /\ file.text[i].of # 0 =>
              /\ st.term = "semicolon" /\ IsMark(file.text[i], ";")
              /\ file.dialect.dollarQuoting => ~ InBlock(file, i)
        <5>1. text = file.text /\ dialect = file.dialect
          BY Here
        <5> QED
          BY <1>6, <5>1 DEF MayEnd
      <4> QED
        BY <4>1 DEF EndsAt
    <3>3. a \in 1 .. (Len(file.text) + 1) /\ i \in 1 .. (Len(file.text) + 1)
      BY Here
    <3> QED
      BY <1>5, <1>6, <3>1, <3>2, <3>3 DEF Cut
  <2>3. OutInv'
    <3>1. \A x \in DOMAIN out' : (x \in DOMAIN out /\ out'[x] = out[x]) \/ out'[x] = st
      <4>1. /\ Len(out) \in Nat /\ DOMAIN out = 1 .. Len(out) /\ DOMAIN out' = 1 .. (Len(out) + 1)
            /\ \A x \in 1 .. Len(out) : out'[x] = out[x]
            /\ out'[Len(out) + 1] = st
        BY <1>2, <2>1, AppendProperties
      <4>2. \A x \in 1 .. (Len(out) + 1) : x \in 1 .. Len(out) \/ x = Len(out) + 1
        BY <4>1
      <4> QED
        BY <4>1, <4>2
    <3>2. \A x \in DOMAIN out' : Cut(file, out'[x])
      BY <2>2, <3>1 DEF TextInv, OutInv
    <3> QED
      BY <3>2 DEF OutInv
  <2>4. out' \in Seq(Kept)
    <3> QED
      BY <1>2, <2>1, AppendProperties
  <2> QED
    BY <1>0, <1>3, <2>3, <2>4
<1> QED
  BY <1>4, <1>5

\* A token that is passed over or kept.
LEMMA StaysKeeps ==
  ASSUME TextInv, Reading, i' = i + 1, UNCHANGED <<file, term, quotedSeen, out>>,
         text[i].t # "delimiter", dialect.dollarQuoting => text[i].t # "dollar",
         \/ buf' = Append(buf, i) /\ ~ Divides(file, i)
         \/ buf' = buf /\ Dropped(file, i)
  PROVE  TextInv'
<1>1. PICK a \in 1 .. i : StartsAt(file, a) /\ Holds(file, buf, a, i) /\ (quotedSeen => HoldsBlock(file, a, i))
  BY DEF TextInv, BufInv
<1>2. a \in Nat \ {0} /\ a <= i
  BY <1>1, Here
<1>3. Holds(file, buf', a, i + 1)
  BY <1>1, <1>2, Here, HoldsNext, HoldsPast
<1>4. quotedSeen => HoldsBlock(file, a, i + 1)
  <2>1. a .. (i - 1) \subseteq a .. ((i + 1) - 1)
    BY <1>2, Here
  <2> QED
    BY <1>1, <2>1 DEF HoldsBlock
<1>5. BufInv'
  <2>1. a \in 1 .. (i + 1)
    BY <1>2, Here
  <2>2. \E c \in 1 .. i' : StartsAt(file', c) /\ Holds(file', buf', c, i') /\ (quotedSeen' => HoldsBlock(file', c, i'))
    BY <1>1, <1>3, <1>4, <2>1
  <2> QED
    BY <2>2 DEF BufInv
<1>6. OutInv'
  BY DEF TextInv, OutInv
<1>7. OutsideInv'
  BY OutsideNext
<1>8. TextTypeOK'
  <2>1. TerminatorAt(text, i + 1) = term
    BY TerminatorNext, Here
  <2>2. buf' \in Seq(Nat)
    BY <1>3 DEF Holds
  <2>3. i' \in 1 .. (Len(text) + 2)
    BY Here
  <2> QED
    BY <2>1, <2>2, <2>3, Here DEF TextInv, TextTypeOK, text
<1> QED
  BY <1>5, <1>6, <1>7, <1>8 DEF TextInv

\* A token after which a statement is cut off.
LEMMA CutKeeps ==
  ASSUME TextInv, Reading, i' = i + 1, file' = file,
         NEW kind \in {"goBreak", "semicolon", "customDelimiter", "eof"}, Flush(kind), MayEnd(kind),
         term' = IF text[i].t = "delimiter" THEN text[i].w[1] ELSE term,
         text[i].t # "dollar"
  PROVE  TextInv'
<1>1. i <= Len(text) + 1
  BY Here DEF Reading
<1>2. /\ BufInv' /\ OutInv'
      /\ buf' \in Seq(Nat) /\ quotedSeen' \in BOOLEAN /\ out' \in Seq(Kept)
  BY <1>1, FlushKeeps
<1>3. OutsideInv'
  BY OutsideNext
<1>4. TextTypeOK'
  <2>1. TerminatorAt(text, i + 1) = term'
    BY TerminatorNext, Here, SMTT(30)
  <2>2. i' \in 1 .. (Len(text) + 2)
    BY Here
  <2> QED
    BY <1>2, <2>1, <2>2, Here DEF TextTypeOK, text
<1> QED
  BY <1>2, <1>3, <1>4 DEF TextInv

\* A DELIMITER or GO line is of no construct.
LEMMA LineKeeps == TextInv /\ (DelimiterLine \/ GoLine) => TextInv'
<1> SUFFICES ASSUME TextInv, DelimiterLine \/ GoLine PROVE TextInv'
  OBVIOUS
<1>1. /\ Reading /\ i' = i + 1 /\ file' = file /\ Flush("goBreak")
      /\ text[i].t \in {"delimiter", "go"}
      /\ term' = IF text[i].t = "delimiter" THEN text[i].w[1] ELSE term
  BY DEF DelimiterLine, GoLine, Advance
<1>2. text[i].of = 0
  BY <1>1, Here, SourceText DEF KeepsSeparatorsOut
<1>3. MayEnd("goBreak")
  BY <1>2 DEF MayEnd
<1> QED
  BY <1>1, <1>3, CutKeeps

\* The terminator in effect is in a construct only where it is ';'.
LEMMA TerminatorKeeps == TextInv /\ Terminator => TextInv'
<1> SUFFICES ASSUME TextInv, Terminator PROVE TextInv'
  OBVIOUS
<1> DEFINE kind == IF term = ";" THEN "semicolon" ELSE "customDelimiter"
<1>1. /\ Reading /\ i' = i + 1 /\ file' = file /\ Flush(kind) /\ term' = term
      /\ text[i].t = "mark" /\ Is(text[i], "mark", term)
  BY DEF Terminator, AtTerminator, Advance, Is
<1>2. MayEnd(kind)
  <2> SUFFICES ASSUME text[i].of # 0
               PROVE  /\ kind = "semicolon" /\ IsMark(text[i], ";")
                      /\ dialect.dollarQuoting => ~ InBlock(file, i)
    BY DEF MayEnd
  <2>1. term = ";"
    BY <1>1, Here, SourceText DEF KeepsSeparatorsOut
  <2>2. IsMark(text[i], ";")
    BY <1>1, <2>1 DEF IsMark
  <2>3. ASSUME dialect.dollarQuoting, InBlock(file, i) PROVE FALSE
    <3>1. PICK b \in Blocks(file) : b[1] < i /\ i < b[2]
      BY <2>3 DEF InBlock
    <3>2. b[2] < i
      BY <2>3, <3>1 DEF TextInv, OutsideInv
    <3>3. b[2] \in Nat
      BY <2>3, Here, BlockShape DEF Dollars
    <3> QED
      BY <3>1, <3>2, <3>3, Here
  <2> QED
    BY <2>1, <2>2, <2>3
<1>3. kind \in {"goBreak", "semicolon", "customDelimiter", "eof"}
  OBVIOUS
<1> HIDE DEF kind
<1> QED
  BY <1>1, <1>2, <1>3, CutKeeps

\* A comment, the statement's own text, and a ';' that separates, divide nothing.
LEMMA OwnKeeps == TextInv /\ (Comment \/ OwnText \/ BodySeparator) => TextInv'
<1> SUFFICES ASSUME TextInv, Comment \/ OwnText \/ BodySeparator PROVE TextInv'
  OBVIOUS
<1>1. Reading /\ i' = i + 1 /\ UNCHANGED <<file, term, quotedSeen, out>>
  BY DEF Comment, OwnText, BodySeparator, AtTerminator, Advance
<1>2. CASE Comment
  <2>1. text[i].t = "comment" /\ Dropped(file, i) /\ buf' = buf
    BY <1>2 DEF Comment, IsComment, Dropped, text, dialect
  <2> QED
    BY <1>1, <2>1, StaysKeeps
<1>3. CASE OwnText
  <2>1. Ordinary(text[i]) /\ buf' = Append(buf, i)
    BY <1>3 DEF OwnText, Keep
  <2>2. /\ text[i].t \notin {"delimiter", "go"} /\ ~ Is(text[i], "mark", term)
        /\ dialect.dollarQuoting => text[i].t # "dollar"
    BY <2>1 DEF Ordinary
  <2>3. ~ Divides(file, i)
    BY <1>1, <2>2, Here DEF Divides
  <2> QED
    BY <1>1, <2>1, <2>2, <2>3, StaysKeeps
<1>4. CASE BodySeparator
  <2>1. /\ buf' = Append(buf, i) /\ Is(text[i], "mark", term) /\ term = ";" /\ dialect.batchBodies
    BY <1>4 DEF BodySeparator, AtTerminator, SeparatesBody, DecidesBody, Keep
  <2>2. text[i].t = "mark"
    BY <2>1 DEF Is
  <2>3. ~ Divides(file, i)
    BY <1>1, <2>1, <2>2, Here DEF Divides
  <2> QED
    BY <1>1, <2>1, <2>2, <2>3, StaysKeeps
<1> QED
  BY <1>2, <1>3, <1>4

\* A dollar-quoted block is read to its end, which is of the same construct.
LEMMA BlockTaken ==
  ASSUME TextInv, DollarBlock
  PROVE  \E b \in Blocks(file) : \E m \in DOMAIN text :
           /\ b[1] = i /\ m = b[2] /\ m \in Nat /\ i < m /\ i' = m + 1
           /\ buf' = buf \o [k \in 1 .. (m - i + 1) |-> i + k - 1]
           /\ \A k \in i .. m : text[k].of # 0 /\ text[k].t # "delimiter"
<1>1. /\ Reading /\ dialect.dollarQuoting /\ text[i].t = "dollar" /\ i \in DOMAIN text
      /\ quotedSeen' = TRUE /\ i' = DollarEnd(i) + 1 /\ UNCHANGED <<file, term, out>>
      /\ buf' = buf \o [k \in 1..(DollarEnd(i) - i + 1) |-> i + k - 1]
  BY Here DEF DollarBlock
<1>2. PICK b \in Blocks(file) : b[1] = i /\ DollarEnd(i) = b[2]
  <2>1. i \in Dollars(file)
    BY <1>1, Here DEF Dollars
  <2>2. PICK b \in Blocks(file) : i \in {b[1], b[2]}
    BY <1>1, <2>1, Here, BlocksPair, SMTT(30) DEF Pairs
  <2>3. /\ b[1] \in Dollars(file) /\ b[2] \in Dollars(file) /\ b[1] < b[2]
        /\ \A k \in Dollars(file) : ~ (b[1] < k /\ k < b[2])
    BY <1>1, Here, BlockShape
  <2>4. b[1] \in 1 .. Len(text) /\ b[2] \in 1 .. Len(text)
    BY <2>3, Here DEF Dollars
  <2>5. b[1] = i
    <3>1. b[1] < i => b[2] < i
      BY <1>1 DEF TextInv, OutsideInv
    <3> QED
      BY <2>2, <2>3, <2>4, <3>1, Here
  <2>6. DollarEnd(i) = b[2]
    <3> DEFINE close == {q \in (i + 1) .. Len(text) : text[q].t = "dollar"}
    <3>1. b[2] \in close
      BY <2>3, <2>4, <2>5, Here DEF Dollars
    <3>2. \A r \in close : b[2] <= r
      <4> SUFFICES ASSUME NEW r \in close PROVE b[2] <= r
        OBVIOUS
      <4>1. r \in Dollars(file) /\ r \in Nat /\ b[1] < r
        BY <2>5, Here DEF Dollars
      <4> QED
        BY <2>3, <2>4, <4>1
    <3>3. (CHOOSE q \in close : \A r \in close : q <= r) = b[2]
      <4>1. \A q \in close : (\A r \in close : q <= r) => q = b[2]
        <5> SUFFICES ASSUME NEW q \in close, \A r \in close : q <= r PROVE q = b[2]
          OBVIOUS
        <5>1. q <= b[2] /\ b[2] <= q /\ q \in Nat
          BY <3>1, <3>2, Here
        <5> QED
          BY <2>4, <5>1
      <4> HIDE DEF close
      <4> QED
        BY <3>1, <3>2, <4>1
    <3>4. DollarEnd(i) = IF close = {} THEN Len(text) ELSE CHOOSE q \in close : \A r \in close : q <= r
      BY DEF DollarEnd
    <3> HIDE DEF close
    <3> QED
      BY <3>1, <3>3, <3>4
  <2> QED
    BY <2>5, <2>6
<1>3. PICK m \in DOMAIN text : m = b[2] /\ m \in Nat /\ i < m
  BY <1>1, <1>2, Here, BlockShape, SMTT(30) DEF Dollars
<1>4. \A k \in i .. m : text[k].of # 0 /\ text[k].t # "delimiter"
  <2>1. \A k \in i .. m : k \in DOMAIN text /\ text[k].of # 0
    BY <1>1, <1>2, <1>3, Here, BlockWithin, SMTT(30)
  <2> QED
    BY <2>1, Here, SourceText DEF KeepsSeparatorsOut
<1> QED
  BY <1>1, <1>2, <1>3, <1>4

\* A step over a dollar-quoted block keeps the invariant.
LEMMA BlockKeeps == TextInv /\ DollarBlock => TextInv'
<1> SUFFICES ASSUME TextInv, DollarBlock PROVE TextInv'
  OBVIOUS
<1>1. /\ Reading /\ dialect.dollarQuoting /\ text[i].t = "dollar" /\ i \in DOMAIN text
      /\ quotedSeen' = TRUE /\ UNCHANGED <<file, term, out>>
  BY Here DEF DollarBlock
<1>2. PICK b \in Blocks(file) : \E n \in DOMAIN text :
        /\ b[1] = i /\ n = b[2] /\ n \in Nat /\ i < n /\ i' = n + 1
        /\ buf' = buf \o [k \in 1 .. (n - i + 1) |-> i + k - 1]
        /\ \A k \in i .. n : text[k].of # 0 /\ text[k].t # "delimiter"
  BY BlockTaken
<1>3. PICK m \in DOMAIN text :
        /\ b[1] = i /\ m = b[2] /\ m \in Nat /\ i < m /\ i' = m + 1
        /\ buf' = buf \o [k \in 1 .. (m - i + 1) |-> i + k - 1]
        /\ \A k \in i .. m : text[k].of # 0 /\ text[k].t # "delimiter"
  BY <1>2
<1>4. \A k \in i .. m : text[k].of # 0 /\ text[k].t # "delimiter"
  BY <1>3
<1>5. PICK a \in 1 .. i : StartsAt(file, a) /\ Holds(file, buf, a, i)
  BY DEF TextInv, BufInv
<1>6. a \in Nat \ {0} /\ a <= i /\ i <= m /\ i \in Nat /\ Len(text) \in Nat /\ m <= Len(text)
  BY <1>3, <1>5, Here, SMTT(30)
<1>7. Holds(file, buf', a, m + 1)
  <2>1. buf' = buf \o [k \in 1 .. (m - i + 1) |-> i + k - 1]
    BY <1>1, <1>2, <1>3
  <2> QED
    BY <1>1, <1>3, <1>4, <1>5, <1>6, <2>1, Here, HoldsWholeBlock
<1>8. HoldsBlock(file, a, m + 1)
  <2>1. i \in a .. ((m + 1) - 1)
    BY <1>6
  <2> QED
    BY <1>1, <2>1, Here DEF HoldsBlock
<1>9. i' = m + 1
  BY <1>1, <1>2, <1>3
<1>10. BufInv'
  <2>1. a \in 1 .. (m + 1)
    BY <1>3, <1>6
  <2>2. \E c \in 1 .. i' : StartsAt(file', c) /\ Holds(file', buf', c, i') /\ (quotedSeen' => HoldsBlock(file', c, i'))
    BY <1>1, <1>5, <1>7, <1>8, <1>9, <2>1
  <2> QED
    BY <2>2 DEF BufInv
<1>11. OutInv'
  BY <1>1 DEF TextInv, OutInv
<1>12. OutsideInv'
  <2> SUFFICES ASSUME NEW c \in Blocks(file), c[1] < m + 1 PROVE c[2] < m + 1
    BY <1>1, <1>9 DEF OutsideInv
  <2>1. /\ c[1] \in Dollars(file) /\ c[2] \in Dollars(file) /\ c[1] \in Nat /\ c[2] \in Nat /\ c[1] < c[2]
        /\ b[1] \in Dollars(file) /\ b[2] \in Dollars(file)
        /\ \A k \in Dollars(file) : ~ (b[1] < k /\ k < b[2])
    BY <1>1, Here, BlockShape, SMTT(30) DEF Dollars
  <2>2. CASE c[1] < i
    <3>1. c[2] < i
      BY <1>1, <2>2 DEF TextInv, OutsideInv
    <3> QED
      BY <1>6, <2>1, <3>1
  <2>3. CASE ~ (c[1] < i)
    <3>1. c[1] = b[1] \/ c[1] = b[2]
      <4>1. ~ (b[1] < c[1] /\ c[1] < b[2])
        BY <2>1
      <4> QED
        BY <1>2, <1>3, <1>6, <2>1, <2>3, <4>1
    <3>2. c = b
      BY <1>1, <2>1, <3>1, Here, BlocksPair, SMTT(30) DEF Pairs
    <3> QED
      BY <1>3, <3>2
  <2> QED
    BY <2>2, <2>3
<1>13. TextTypeOK'
  <2>1. term = TerminatorAt(text, i) /\ text[i].t # "delimiter"
    BY <1>1, Here
  <2>2. TerminatorAt(text, m + 1) = TerminatorAt(text, i)
    <3>1. \A k \in i .. ((m + 1) - 1) : text[k].t # "delimiter"
      BY <1>4, <1>6
    <3> QED
      BY <1>3, <1>6, <3>1, TerminatorStays, SMTT(30)
  <2>3. m + 1 \in 1 .. (Len(text) + 2)
    BY <1>3, <1>6, SMTT(30)
  <2>4. buf' \in Seq(Nat) /\ quotedSeen' \in BOOLEAN
    BY <1>1, <1>7 DEF Holds
  <2> QED
    BY <1>1, <1>9, <2>1, <2>2, <2>3, <2>4, Here DEF TextInv, TextTypeOK, text
<1> QED
  BY <1>10, <1>11, <1>12, <1>13 DEF TextInv

\* What is left at the end of the file is a statement.
LEMMA EndKeeps == TextInv /\ EndOfFile => TextInv'
<1> SUFFICES ASSUME TextInv, EndOfFile PROVE TextInv'
  OBVIOUS
<1>1. i = Len(text) + 1 /\ Flush("eof") /\ i' = i + 1 /\ file' = file /\ term' = term
  BY DEF EndOfFile, Advance
<1>2. i \notin DOMAIN text
  BY <1>1, Here
<1>3. MayEnd("eof")
  BY <1>2 DEF MayEnd
<1>4. /\ BufInv' /\ OutInv'
      /\ buf' \in Seq(Nat) /\ quotedSeen' \in BOOLEAN /\ out' \in Seq(Kept)
  <2>1. i <= Len(text) + 1
    BY <1>1, Here
  <2> QED
    BY <1>1, <1>3, <2>1, FlushKeeps
<1>5. OutsideInv'
  <2>1. ~ Reading
    BY <1>1, Here DEF Reading
  <2> QED
    BY <1>1, <2>1, OutsideNext
<1>6. TextTypeOK'
  <2>1. i' \in 1 .. (Len(text) + 2) /\ ~ (i' <= Len(text) + 1)
    BY <1>1, Here
  <2> QED
    BY <1>1, <1>4, <2>1, Here DEF TextTypeOK, text
<1> QED
  BY <1>4, <1>5, <1>6 DEF TextInv

\* Every step does.
LEMMA TextNext == TextInv /\ [Next]_vars => TextInv'
<1> SUFFICES ASSUME TextInv, [Next]_vars PROVE TextInv'
  OBVIOUS
<1>1. CASE UNCHANGED vars
  BY <1>1 DEF vars, TextInv, TextTypeOK, BufInv, OutInv, OutsideInv, text, dialect
<1>2. CASE Next
  BY <1>2, LineKeeps, TerminatorKeeps, OwnKeeps, BlockKeeps, EndKeeps DEF Next
<1> QED
  BY <1>1, <1>2

\* The splitter keeps to the invariant in every file.
THEOREM TextInvariant == Spec => []TextInv
BY TextInit, TextNext, PTL DEF Spec

-----------------------------------------------------------------------------
(* The pieces of a statement. *)

\* A statement run onto another starts after it.
LEMMA RunsOnLater ==
  ASSUME NEW toks \in Seq(Token), NEW s \in 1 .. Len(toks)
  PROVE  RunOn(toks, s) = 0 \/ RunOn(toks, s) \in (s + 1) .. Len(toks)
<1> DEFINE own == SubSeq(toks, s, Len(toks))
           body == IF IsTable(own) THEN Close(own, 4) ELSE 0
           tail == IF body = 0 THEN {} ELSE StatementHeads(own, body + 1)
<1>1. RunOn(toks, s) = IF tail = {} THEN 0 ELSE s - 1 + Least(tail)
  BY DEF RunOn
<1>2. Len(own) = Len(toks) - s + 1 /\ Len(toks) \in Nat /\ Len(own) \in Nat
  BY SubSeqProperties
<1> HIDE DEF own
<1>3. body \in Nat
  <2>1. Close(own, 4) \in Nat
    <3> DEFINE closing == {k \in (4 + 1) .. Len(own) : IsMark(own[k], ")") /\ Depth(own, k) = Depth(own, 4) + 1}
    <3>1. Close(own, 4) = IF closing = {} THEN 0 ELSE Least(closing)
      BY DEF Close
    <3>2. closing \in SUBSET Nat
      BY <1>2
    <3> HIDE DEF closing
    <3>3. closing # {} => Least(closing) \in closing
      BY <3>2, LeastExists
    <3>4. CASE closing = {}
      BY <3>1, <3>4
    <3>5. CASE closing # {}
      <4>1. Close(own, 4) = Least(closing)
        BY <3>1, <3>5
      <4> QED
        BY <3>2, <3>3, <3>5, <4>1
    <3> QED
      BY <3>4, <3>5
  <2> QED
    BY <2>1
<1> HIDE DEF body
<1>4. tail \subseteq (body + 1) .. Len(own) /\ (tail # {} => body # 0)
  BY DEF StatementHeads
<1> HIDE DEF tail
<1>5. CASE tail # {}
  <2>1. tail \in SUBSET Nat
    BY <1>2, <1>3, <1>4
  <2>2. Least(tail) \in (body + 1) .. Len(own)
    BY <1>4, <1>5, <2>1, LeastExists
  <2> QED
    BY <1>1, <1>2, <1>3, <1>4, <1>5, <2>2, SMTT(30)
<1> QED
  BY <1>1, <1>5

\* Where each number leads to a later one or ends, all that can be reached is defined.
LEMMA ReachExists ==
  ASSUME NEW N \in Nat, NEW run \in [1 .. N -> 0 .. N], \A s \in 1 .. N : run[s] = 0 \/ run[s] > s
  PROVE  \E from : from = [s \in 0 .. N |-> IF s = 0 THEN {} ELSE {s} \cup from[run[s]]]
<1> DEFINE Value(f, s) == IF s = 0 THEN {} ELSE {s} \cup f[run[s]]
           Reaches(f, k) == /\ f = [s \in 0 .. N |-> f[s]]
                            /\ \A s \in 0 .. N : s = 0 \/ s > N - k => f[s] = Value(f, s)
           Bad == {k \in 0 .. N : ~ \E f : Reaches(f, k)}
<1>1. Bad = {}
  <2> SUFFICES ASSUME Bad # {} PROVE FALSE
    OBVIOUS
  <2>1. PICK k \in Bad : \A m \in Bad : k <= m
    <3>1. Bad \in SUBSET Nat
      OBVIOUS
    <3> HIDE DEF Bad
    <3> QED
      BY <3>1, LeastExists
  <2>2. k # 0
    <3>1. Reaches([s \in 0 .. N |-> {}], 0)
      OBVIOUS
    <3> QED
      BY <2>1, <3>1
  <2>3. k \in 1 .. N /\ k - 1 \in 0 .. N /\ k - 1 \notin Bad
    <3>1. k \in 0 .. N
      BY <2>1
    <3>2. k \in 1 .. N /\ k - 1 \in 0 .. N /\ ~ (k <= k - 1)
      BY <2>2, <3>1
    <3> HIDE DEF Bad
    <3> QED
      BY <2>1, <3>2
  <2>4. PICK f : Reaches(f, k - 1)
    BY <2>3
  <2> DEFINE t == N - k + 1
             g == [s \in 0 .. N |-> IF s = t THEN {t} \cup f[run[t]] ELSE f[s]]
  <2>5. t \in 1 .. N
    BY <2>3
  <2>6. \A s \in 0 .. N : s = 0 \/ s > N - k => g[s] = Value(g, s)
    <3> SUFFICES ASSUME NEW s \in 0 .. N, s = 0 \/ s > N - k PROVE g[s] = Value(g, s)
      OBVIOUS
    <3>1. CASE s = 0
      <4>1. f[0] = Value(f, 0)
        BY <2>4, <3>1
      <4> QED
        BY <2>5, <3>1, <4>1
    <3>2. CASE s # 0
      <4>1. s \in 1 .. N /\ run[s] \in 0 .. N /\ run[s] # t
        BY <2>3, <2>5, <3>2, SMTT(30)
      <4>2. g[run[s]] = f[run[s]]
        BY <4>1
      <4>3. CASE s = t
        BY <3>2, <4>2, <4>3
      <4>4. CASE s # t
        <5>1. s > N - (k - 1)
          BY <2>3, <3>2, <4>4
        <5>2. f[s] = Value(f, s)
          BY <2>4, <5>1
        <5> QED
          BY <3>2, <4>2, <4>4, <5>2
      <4> QED
        BY <4>3, <4>4
    <3> QED
      BY <3>1, <3>2
  <2>7. g = [s \in 0 .. N |-> g[s]]
    OBVIOUS
  <2>8. Reaches(g, k)
    <3> HIDE DEF g, Value
    <3> QED
      BY <2>6, <2>7
  <2> QED
    BY <2>1, <2>8
<1>2. PICK f : Reaches(f, N)
  <2>1. N \in 0 .. N
    OBVIOUS
  <2> HIDE DEF Reaches
  <2> QED
    BY <1>1, <2>1
<1>3. \A s \in 0 .. N : f[s] = Value(f, s)
  BY <1>2
<1>4. f = [s \in 0 .. N |-> Value(f, s)]
  <2>1. f = [s \in 0 .. N |-> f[s]]
    BY <1>2
  <2> HIDE DEF Value
  <2> QED
    BY <1>3, <2>1
<1> QED
  BY <1>4

\* From one that ends no later one is reached, and from another what it leads to is, first.
LEMMA ReachEnds ==
  ASSUME NEW N \in Nat, NEW run \in [1 .. N -> 0 .. N], \A s \in 1 .. N : run[s] = 0 \/ run[s] > s,
         NEW from, from = [s \in 0 .. N |-> IF s = 0 THEN {} ELSE {s} \cup from[run[s]]],
         NEW s \in 1 .. N
  PROVE  /\ from[s] \subseteq s .. N /\ s \in from[s]
         /\ \A q, r \in from[s] : IF run[q] = 0 THEN r <= q ELSE run[q] \in from[s] /\ (r <= q \/ run[q] <= r)
<1> DEFINE Good(n) ==
             /\ from[n] \subseteq n .. N
             /\ \A q, r \in from[n] : IF run[q] = 0 THEN r <= q ELSE run[q] \in from[n] /\ (r <= q \/ run[q] <= r)
           Bad == {k \in 0 .. N : N - k \in 1 .. N /\ ~ Good(N - k)}
<1>1. Bad = {}
  <2> SUFFICES ASSUME Bad # {} PROVE FALSE
    OBVIOUS
  <2>1. PICK k \in Bad : \A m \in Bad : k <= m
    <3>1. Bad \in SUBSET Nat
      OBVIOUS
    <3> HIDE DEF Bad
    <3> QED
      BY <3>1, LeastExists
  <2> DEFINE n == N - k
  <2>2. n \in 1 .. N /\ ~ Good(n)
    BY <2>1, SMTT(30)
  <2>3. from[n] = {n} \cup from[run[n]]
    BY <2>2, SMTT(30)
  <2>4. CASE run[n] = 0
    <3>1. from[0] = {}
      OBVIOUS
    <3>2. from[n] = {n}
      BY <2>3, <2>4, <3>1, SMTT(30)
    <3> QED
      BY <2>2, <3>2, SMTT(30)
  <2>5. CASE run[n] # 0
    <3> DEFINE m == run[n]
    <3>1. m \in 1 .. N /\ m > n
      BY <2>2, <2>5
    <3> HIDE DEF m
    <3>2. N - m \in 0 .. N /\ N - m < k /\ N - (N - m) = m /\ k \in Nat
      <4>1. k \in 0 .. N
        BY <2>1
      <4> QED
        BY <3>1, <4>1
    <3>3. Good(m)
      <4>1. ~ (k <= N - m)
        BY <3>2, SMTT(30)
      <4>2. N - m \notin Bad
        <5> HIDE DEF Bad
        <5> QED
          BY <2>1, <4>1
      <4> HIDE DEF Good
      <4> QED
        BY <3>1, <3>2, <4>2
    <3>6. from[n] = {n} \cup from[m]
      BY <2>3, SMTT(30) DEF m
    <3>7. /\ n \in 1 .. N /\ from[m] \subseteq m .. N
          /\ \A q, r \in from[m] : IF run[q] = 0 THEN r <= q ELSE run[q] \in from[m] /\ (r <= q \/ run[q] <= r)
      BY <2>2, <3>3
    <3>8. m \in from[m]
      <4>1. from[m] = {m} \cup from[run[m]]
        BY <3>1, SMTT(30)
      <4> QED
        BY <4>1
    <3>9. m = run[n]
      BY DEF m
    <3> HIDE DEF n
    <3>4. from[n] \subseteq n .. N
      <4> SUFFICES ASSUME NEW x \in from[n] PROVE x \in n .. N
        OBVIOUS
      <4>1. x = n \/ x \in m .. N
        BY <3>6, <3>7
      <4> QED
        BY <3>1, <3>7, <4>1, SMTT(30)
    <3>5. ASSUME NEW q \in from[n], NEW r \in from[n]
          PROVE  IF run[q] = 0 THEN r <= q ELSE run[q] \in from[n] /\ (r <= q \/ run[q] <= r)
      <4>1. r = n \/ r \in from[m]
        BY <3>6
      <4>2. CASE q \in from[m]
        <5>1. CASE r \in from[m]
          BY <3>6, <3>7, <4>2, <5>1
        <5>2. CASE r = n
          <6>1. q \in m .. N
            BY <3>7, <4>2
          <6>2. r <= q
            BY <3>1, <3>7, <5>2, <6>1
          <6>3. run[q] = 0 \/ run[q] \in from[m]
            BY <3>7, <4>2
          <6> QED
            BY <3>6, <6>2, <6>3
        <5> QED
          BY <4>1, <5>1, <5>2
      <4>3. CASE q = n
        <5>1. run[q] = m /\ m # 0 /\ m \in from[n]
          BY <3>1, <3>6, <3>8, <3>9, <4>3, SMTT(30)
        <5>2. r \in from[m] => m <= r
          <6>1. r \in from[m] => r \in m .. N
            BY <3>7
          <6> QED
            BY <3>1, <6>1
        <5>3. r = n => r <= q
          BY <3>7, <4>3
        <5> QED
          BY <4>1, <5>1, <5>2, <5>3
      <4> QED
        BY <3>6, <4>2, <4>3
    <3> QED
      BY <2>2, <3>4, <3>5
  <2> QED
    BY <2>4, <2>5
<1>2. N - s \in 0 .. N /\ N - (N - s) = s
  OBVIOUS
<1>3. Good(s)
  <2> HIDE DEF Good
  <2> QED
    BY <1>1, <1>2
<1>4. s \in from[s]
  <2>1. from[s] = {s} \cup from[run[s]]
    BY SMTT(30)
  <2> QED
    BY <2>1
<1> QED
  BY <1>3, <1>4

\* A piece that nothing is run onto is the last of its statement, and what is run onto another
\* follows it.
LEMMA LastPiece ==
  ASSUME NEW toks \in Seq(Token), toks # << >>
  PROVE  /\ PieceStarts(toks) \subseteq 1 .. Len(toks) /\ 1 \in PieceStarts(toks)
         /\ \A s \in PieceStarts(toks) : RunOn(toks, s) = 0 => \A r \in PieceStarts(toks) : r <= s
         /\ \A s \in PieceStarts(toks) : RunOn(toks, s) # 0 =>
              /\ RunOn(toks, s) \in PieceStarts(toks)
              /\ \A r \in PieceStarts(toks) : r <= s \/ RunOn(toks, s) <= r
<1> DEFINE N == Len(toks)
           run == [s \in 1 .. N |-> RunOn(toks, s)]
           from == CHOOSE f : f = [s \in 0 .. N |-> IF s = 0 THEN {} ELSE {s} \cup f[RunOn(toks, s)]]
<1>1. N \in Nat /\ 1 \in 1 .. N
  BY EmptySeq, LenProperties
<1>2. PieceStarts(toks) = from[1]
  BY DEF PieceStarts
<1>3. run \in [1 .. N -> 0 .. N] /\ \A s \in 1 .. N : run[s] = RunOn(toks, s) /\ (run[s] = 0 \/ run[s] > s)
  BY <1>1, RunsOnLater
<1>4. from = [s \in 0 .. N |-> IF s = 0 THEN {} ELSE {s} \cup from[run[s]]]
  <2> HIDE DEF run, N
  <2>1. PICK f : f = [s \in 0 .. N |-> IF s = 0 THEN {} ELSE {s} \cup f[run[s]]]
    BY <1>1, <1>3, ReachExists
  <2>2. \A g : [s \in 0 .. N |-> IF s = 0 THEN {} ELSE {s} \cup g[run[s]]]
                 = [s \in 0 .. N |-> IF s = 0 THEN {} ELSE {s} \cup g[RunOn(toks, s)]]
    <3> SUFFICES ASSUME NEW g
                 PROVE  [s \in 0 .. N |-> IF s = 0 THEN {} ELSE {s} \cup g[run[s]]]
                          = [s \in 0 .. N |-> IF s = 0 THEN {} ELSE {s} \cup g[RunOn(toks, s)]]
      OBVIOUS
    <3>1. \A s \in 0 .. N : s # 0 => run[s] = RunOn(toks, s)
      BY <1>1, <1>3
    <3>2. \A s \in 0 .. N : (IF s = 0 THEN {} ELSE {s} \cup g[run[s]])
                              = (IF s = 0 THEN {} ELSE {s} \cup g[RunOn(toks, s)])
      BY <3>1
    <3> QED
      BY <3>2
  <2>3. f = [s \in 0 .. N |-> IF s = 0 THEN {} ELSE {s} \cup f[RunOn(toks, s)]]
    BY <2>1, <2>2
  <2>4. from = [s \in 0 .. N |-> IF s = 0 THEN {} ELSE {s} \cup from[RunOn(toks, s)]]
    BY <2>3
  <2> QED
    BY <2>2, <2>4
<1> HIDE DEF run, N, from
<1>5. /\ from[1] \subseteq 1 .. N /\ 1 \in from[1]
      /\ \A q, r \in from[1] : IF run[q] = 0 THEN r <= q ELSE run[q] \in from[1] /\ (r <= q \/ run[q] <= r)
  BY <1>1, <1>3, <1>4, ReachEnds
<1>6. \A s \in from[1] : s \in 1 .. N /\ run[s] = RunOn(toks, s)
  BY <1>3, <1>5
<1>7. \A s \in from[1] : RunOn(toks, s) = 0 => \A r \in from[1] : r <= s
  BY <1>5, <1>6
<1>8. \A s \in from[1] : RunOn(toks, s) # 0 =>
        RunOn(toks, s) \in from[1] /\ \A r \in from[1] : r <= s \/ RunOn(toks, s) <= r
  BY <1>5, <1>6
<1> QED
  BY <1>2, <1>5, <1>7, <1>8 DEF N

\* The words of a head.
WordIn(tok, words) == Word(tok) /\ tok.w[1] \in words
HeadOf(u, words) ==
  /\ Len(u) >= 2 /\ WordIn(u[1], Create)
  /\ \/ WordIn(u[2], words)
     \/ Len(u) >= 4 /\ WordIn(u[2], {"OR"}) /\ WordIn(u[3], {"REPLACE"}) /\ WordIn(u[4], words)

\* A head of two words.
LEMMA TwoWords ==
  ASSUME NEW u, NEW words, NEW all, Len(all) = 2, DOMAIN all = 1 .. 2, all[1] = Create, all[2] = words, Opens(u, all)
  PROVE  Len(u) >= 2 /\ WordIn(u[1], Create) /\ WordIn(u[2], words)
<1>1. 1 \in DOMAIN all /\ 2 \in DOMAIN all
  OBVIOUS
<1>2. Len(u) >= 2 /\ \A k \in DOMAIN all : u[k].t = "word" /\ u[k].w[1] \in all[k]
  BY DEF Opens
<1> QED
  BY <1>1, <1>2 DEF WordIn, Word

\* A head of four.
LEMMA FourWords ==
  ASSUME NEW u, NEW words, NEW all, Len(all) = 4, DOMAIN all = 1 .. 4,
         all[1] = Create, all[2] = {"OR"}, all[3] = {"REPLACE"}, all[4] = words, Opens(u, all)
  PROVE  /\ Len(u) >= 4 /\ WordIn(u[1], Create) /\ WordIn(u[2], {"OR"})
         /\ WordIn(u[3], {"REPLACE"}) /\ WordIn(u[4], words)
<1>1. 1 \in DOMAIN all /\ 2 \in DOMAIN all /\ 3 \in DOMAIN all /\ 4 \in DOMAIN all
  OBVIOUS
<1>2. Len(u) >= 4 /\ \A k \in DOMAIN all : u[k].t = "word" /\ u[k].w[1] \in all[k]
  BY DEF Opens
<1> QED
  BY <1>1, <1>2 DEF WordIn, Word

\* The words of two sequences.
LEMMA Joined ==
  ASSUME NEW S, NEW u \in Seq(S), NEW v \in Seq(S), Len(v) = 1
  PROVE  /\ Len(u \o v) = Len(u) + 1 /\ DOMAIN (u \o v) = 1 .. (Len(u) + 1)
         /\ \A k \in 1 .. Len(u) : (u \o v)[k] = u[k]
         /\ (u \o v)[Len(u) + 1] = v[1]
<1>1. Len(u) \in Nat
  BY LenProperties
<1>2. /\ u \o v \in Seq(S) /\ Len(u \o v) = Len(u) + 1
      /\ \A k \in 1 .. (Len(u) + 1) : (u \o v)[k] = IF k <= Len(u) THEN u[k] ELSE v[k - Len(u)]
  <2>1. /\ u \o v \in Seq(S) /\ Len(u \o v) = Len(u) + Len(v)
        /\ \A k \in 1 .. (Len(u) + Len(v)) : (u \o v)[k] = IF k <= Len(u) THEN u[k] ELSE v[k - Len(u)]
    BY ConcatProperties
  <2> QED
    BY <2>1
<1>3. DOMAIN (u \o v) = 1 .. (Len(u) + 1)
  BY <1>2, LenProperties
<1>4. (Len(u) + 1) - Len(u) = 1 /\ Len(u) + 1 \in 1 .. (Len(u) + 1) /\ ~ (Len(u) + 1 <= Len(u))
  BY <1>1
<1>5. \A k \in 1 .. Len(u) : k \in 1 .. (Len(u) + 1) /\ k <= Len(u)
  BY <1>1
<1> QED
  BY <1>2, <1>3, <1>4, <1>5

\* What opens like a routine or a trigger has such a head.
LEMMA RoutineHasHead ==
  ASSUME NEW u
  PROVE  /\ IsRoutine(u) => HeadOf(u, {"FUNCTION", "PROCEDURE"})
         /\ IsTrigger(u) => HeadOf(u, {"TRIGGER"})
<1>1. ASSUME NEW words, Opens(u, <<Create, words>>) PROVE HeadOf(u, words)
  <2> DEFINE all == <<Create, words>>
  <2>1. Len(all) = 2 /\ DOMAIN all = 1 .. 2 /\ all[1] = Create /\ all[2] = words
    OBVIOUS
  <2>2. Opens(u, all)
    BY <1>1
  <2> HIDE DEF all
  <2> QED
    BY <2>1, <2>2, TwoWords DEF HeadOf
<1>2. ASSUME NEW words, NEW all, all \in {<<Create>> \o <<words>>, OrReplace \o <<words>>}, Opens(u, all)
      PROVE  HeadOf(u, words)
  <2> DEFINE S == {Create, {"OR"}, {"REPLACE"}, words}
             one == <<Create>>
             three == OrReplace
             last == <<words>>
  <2>1. /\ one \in Seq(S) /\ Len(one) = 1 /\ one[1] = Create
        /\ last \in Seq(S) /\ Len(last) = 1 /\ last[1] = words
    OBVIOUS
  <2>2. /\ three \in Seq(S) /\ Len(three) = 3
        /\ three[1] = Create /\ three[2] = {"OR"} /\ three[3] = {"REPLACE"}
    BY DEF OrReplace
  <2>3. all \in {one \o last, three \o last}
    BY <1>2
  <2> HIDE DEF S, one, three, last
  <2>4. CASE all = one \o last
    <3>1. /\ Len(all) = 1 + 1 /\ DOMAIN all = 1 .. (1 + 1) /\ all[1 + 1] = words
          /\ \A k \in 1 .. 1 : all[k] = one[k]
      BY <2>1, <2>4, Joined
    <3>2. Len(all) = 2 /\ DOMAIN all = 1 .. 2 /\ all[1] = Create /\ all[2] = words
      BY <2>1, <3>1
    <3> QED
      BY <1>2, <3>2, TwoWords DEF HeadOf
  <2>5. CASE all = three \o last
    <3>0. /\ Len(three \o last) = Len(three) + 1
          /\ DOMAIN (three \o last) = 1 .. (Len(three) + 1)
          /\ \A k \in 1 .. Len(three) : (three \o last)[k] = three[k]
          /\ (three \o last)[Len(three) + 1] = last[1]
      <4>1. three \in Seq(S) /\ last \in Seq(S) /\ Len(last) = 1
        BY <2>1, <2>2
      <4> QED
        BY <4>1, Joined
    <3>1. /\ Len(all) = 3 + 1 /\ DOMAIN all = 1 .. (3 + 1) /\ all[3 + 1] = words
          /\ \A k \in 1 .. 3 : all[k] = three[k]
      BY <2>1, <2>2, <2>5, <3>0
    <3>2. /\ Len(all) = 4 /\ DOMAIN all = 1 .. 4 /\ all[4] = words
          /\ all[1] = Create /\ all[2] = {"OR"} /\ all[3] = {"REPLACE"}
      BY <2>2, <3>1
    <3>3. /\ Len(u) >= 4 /\ WordIn(u[1], Create) /\ WordIn(u[2], {"OR"})
          /\ WordIn(u[3], {"REPLACE"}) /\ WordIn(u[4], words)
      BY <1>2, <3>2, FourWords
    <3> QED
      BY <3>3 DEF HeadOf
  <2> QED
    BY <2>3, <2>4, <2>5
<1>3. IsRoutine(u) => \/ Opens(u, <<Create>> \o <<{"FUNCTION", "PROCEDURE"}>>)
                      \/ Opens(u, OrReplace \o <<{"FUNCTION", "PROCEDURE"}>>)
  BY DEF IsRoutine
<1>4. IsTrigger(u) => Opens(u, <<Create, {"TRIGGER"}>>) \/ Opens(u, OrReplace \o <<{"TRIGGER"}>>)
  BY DEF IsTrigger
<1> QED
  BY <1>1, <1>2, <1>3, <1>4

\* A table has none.
LEMMA TableHasNoHead ==
  ASSUME NEW u, NEW words \in {{"FUNCTION", "PROCEDURE"}, {"TRIGGER"}}, HeadOf(u, words)
  PROVE  ~ IsTable(u)
<1> SUFFICES ASSUME IsTable(u) PROVE FALSE
  OBVIOUS
<1> DEFINE all == <<Create, {"TABLE"}>>
<1>1. Len(all) = 2 /\ DOMAIN all = 1 .. 2 /\ all[1] = Create /\ all[2] = {"TABLE"}
  OBVIOUS
<1>2. Opens(u, all)
  BY DEF IsTable
<1> HIDE DEF all
<1>3. WordIn(u[2], {"TABLE"})
  BY <1>1, <1>2, TwoWords
<1> QED
  BY <1>3 DEF HeadOf, WordIn

-----------------------------------------------------------------------------
(* A routine's piece of a statement. *)

\* The tokens of a statement are tokens of its file.
LEMMA StatementTokens ==
  ASSUME file \in Source, NEW q, NEW a, NEW e, Holds(file, q, a, e)
  PROVE  /\ Tokens(q) \in Seq(Token) /\ Len(Tokens(q)) = Len(q) /\ Len(q) \in Nat
         /\ DOMAIN q = 1 .. Len(q)
         /\ \A k \in 1 .. Len(q) : Tokens(q)[k] = text[q[k]]
<1>1. q \in Seq(Nat) /\ Len(q) \in Nat /\ DOMAIN q = 1 .. Len(q)
  BY LenProperties DEF Holds
<1>2. \A k \in 1 .. Len(q) : q[k] \in DOMAIN text
  BY <1>1 DEF Holds, text
<1>3. text \in Seq(Token)
  BY SourceText DEF text
<1>4. \A k \in 1 .. Len(q) : text[q[k]] \in Token
  BY <1>2, <1>3, ElementOfSeq, LenProperties
<1>5. Tokens(q) = [k \in 1 .. Len(q) |-> text[q[k]]]
  BY <1>1 DEF Tokens
<1> DEFINE w == [k \in 1 .. Len(q) |-> text[q[k]]]
<1>6. w \in [1 .. Len(q) -> Token]
  BY <1>4
<1>7. w \in Seq(Token) /\ Len(w) = Len(q)
  BY <1>1, <1>6, LenProperties
<1> QED
  BY <1>1, <1>5, <1>7

\* The piece that opens like a routine or a trigger is the last of its statement.
LEMMA PieceShape ==
  ASSUME NEW st, NEW p \in Pieces(st), Len(st.toks) \in Nat \ {0},
         Tokens(st.toks) \in Seq(Token), Len(Tokens(st.toks)) = Len(st.toks),
         NEW words \in {{"FUNCTION", "PROCEDURE"}, {"TRIGGER"}}, HeadOf(p.toks, words)
  PROVE  \E s \in 1 .. Len(st.toks) :
           /\ s \in PieceStarts(Tokens(st.toks)) /\ RunOn(Tokens(st.toks), s) = 0
           /\ p.at = st.toks[s] /\ p.places = SubSeq(st.toks, s, Len(st.toks))
           /\ p.term = st.term /\ p.quotedBlockSeen = st.quotedBlockSeen
           /\ HeadOf(SubSeq(Tokens(st.toks), s, Len(st.toks)), words)
<1> DEFINE toks == Tokens(st.toks)
           starts == PieceStarts(toks)
           later(s) == {r \in starts : r > s}
           end(s) == IF later(s) = {} THEN Len(toks) ELSE Least(later(s)) - 1
<1>1. PICK s \in starts :
        p = [toks |-> SubSeq(toks, s, end(s)), at |-> st.toks[s], places |-> SubSeq(st.toks, s, end(s)),
             term |-> st.term, quotedBlockSeen |-> st.quotedBlockSeen]
  BY DEF Pieces
<1>2. /\ p.toks = SubSeq(toks, s, end(s)) /\ p.at = st.toks[s] /\ p.places = SubSeq(st.toks, s, end(s))
      /\ p.term = st.term /\ p.quotedBlockSeen = st.quotedBlockSeen
  BY <1>1
<1>3. toks \in Seq(Token) /\ toks # << >> /\ Len(toks) = Len(st.toks) /\ Len(toks) \in Nat \ {0}
  BY EmptySeq
<1>4. /\ starts \subseteq 1 .. Len(toks)
      /\ \A n \in starts : RunOn(toks, n) = 0 => \A r \in starts : r <= n
  BY <1>3, LastPiece
<1> HIDE DEF toks, starts
<1>5. later(s) \subseteq (s + 1) .. Len(toks) /\ s \in 1 .. Len(toks)
  <2>1. s \in 1 .. Len(toks)
    BY <1>1, <1>4
  <2>2. \A r \in later(s) : r \in 1 .. Len(toks) /\ r > s
    BY <1>4
  <2> HIDE DEF later
  <2>3. \A r \in later(s) : r \in (s + 1) .. Len(toks)
    BY <1>3, <2>1, <2>2
  <2> QED
    BY <2>1, <2>3
<1> HIDE DEF later
<1>6. end(s) \in s .. Len(toks)
  <2>1. CASE later(s) = {}
    BY <1>3, <1>5, <2>1
  <2>2. CASE later(s) # {}
    <3>1. later(s) \in SUBSET Nat
      BY <1>3, <1>5
    <3>2. Least(later(s)) \in (s + 1) .. Len(toks)
      BY <1>5, <2>2, <3>1, LeastExists
    <3> QED
      BY <1>3, <1>5, <2>2, <3>2, SMTT(30)
  <2> QED
    BY <2>1, <2>2
<1> DEFINE own == SubSeq(toks, s, Len(toks))
<1>7. PICK m : m = end(s)
  OBVIOUS
<1>8. /\ Len(own) = Len(toks) - s + 1 /\ \A k \in 1 .. (Len(toks) - s + 1) : own[k] = toks[s + k - 1]
      /\ Len(p.toks) = m - s + 1 /\ \A k \in 1 .. (m - s + 1) : p.toks[k] = toks[s + k - 1]
  <2>1. \A k \in s .. Len(toks) : toks[k] \in Token
    BY <1>3, <1>5, ElementOfSeq
  <2>2. p.toks = SubSeq(toks, s, m) /\ m \in s .. Len(toks) /\ s \in Int /\ Len(toks) \in Int /\ m \in Int
    BY <1>2, <1>3, <1>5, <1>6, <1>7, SMTT(30)
  <2> HIDE DEF end
  <2>3. \A k \in s .. m : toks[k] \in Token
    BY <2>1, <2>2
  <2>4. /\ Len(SubSeq(toks, s, m)) = IF s <= m THEN m - s + 1 ELSE 0
        /\ \A k \in 1 .. (m - s + 1) : SubSeq(toks, s, m)[k] = toks[s + k - 1]
    BY <2>2, <2>3, SubSeqProperties
  <2>5. /\ Len(own) = IF s <= Len(toks) THEN Len(toks) - s + 1 ELSE 0
        /\ \A k \in 1 .. (Len(toks) - s + 1) : own[k] = toks[s + k - 1]
    BY <2>1, <2>2, SubSeqProperties
  <2> HIDE DEF own
  <2> QED
    BY <1>5, <2>2, <2>4, <2>5
<1> HIDE DEF end, own
<1>9. HeadOf(own, words)
  <2>1. \A k \in 1 .. (m - s + 1) : own[k] = p.toks[k]
    BY <1>3, <1>5, <1>6, <1>7, <1>8, SMTT(30)
  <2>2. Len(own) >= Len(p.toks) /\ Len(p.toks) \in Nat
    BY <1>3, <1>5, <1>6, <1>7, <1>8, SMTT(30)
  <2>3. Len(p.toks) >= 2 => own[1] = p.toks[1] /\ own[2] = p.toks[2]
    BY <1>8, <2>1, <2>2
  <2>4. Len(p.toks) >= 4 => own[3] = p.toks[3] /\ own[4] = p.toks[4]
    BY <1>8, <2>1, <2>2
  <2>5. Len(own) \in Nat
    BY <1>3, <1>5, <1>8
  <2> QED
    BY <2>2, <2>3, <2>4, <2>5 DEF HeadOf
<1>10. end(s) = Len(toks) /\ RunOn(toks, s) = 0
  <2>1. ~ IsTable(own)
    BY <1>9, TableHasNoHead
  <2>2. RunOn(toks, s) = 0
    BY <2>1 DEF RunOn, own
  <2>3. \A r \in starts : r <= s
    BY <1>1, <1>4, <2>2
  <2>4. later(s) = {}
    BY <1>3, <1>4, <2>3, <1>5 DEF later
  <2> QED
    BY <2>2, <2>4 DEF end
<1> QED
  BY <1>1, <1>2, <1>3, <1>5, <1>9, <1>10 DEF own, toks, starts

\* Between two tokens of a statement there are comments at most.
LEMMA Adjacent ==
  ASSUME NEW s \in Source, NEW q, NEW a \in Nat \ {0}, NEW e \in Nat, Holds(s, q, a, e),
         NEW x \in DOMAIN q, x + 1 \in DOMAIN q, s.text[q[x + 1]].t # "comment"
  PROVE  SkipComments(s.text, q[x] + 1) = q[x + 1]
<1> DEFINE from == q[x] + 1
           to == q[x + 1]
           stops == {j \in from .. (Len(s.text) + 1) : j = Len(s.text) + 1 \/ s.text[j].t # "comment"}
<1>1. Len(s.text) \in Nat /\ DOMAIN s.text = 1 .. Len(s.text)
  BY SourceText
<1>2. /\ q[x] \in a .. (e - 1) /\ to \in a .. (e - 1) /\ to \in DOMAIN s.text /\ q[x] < to
      /\ DOMAIN q = 1 .. Len(q) /\ Len(q) \in Nat
  <2>1. DOMAIN q = 1 .. Len(q) /\ Len(q) \in Nat
    BY LenProperties DEF Holds
  <2>2. x < x + 1
    BY <2>1
  <2> QED
    BY <2>1, <2>2 DEF Holds
<1>3. to \in stops
  BY <1>1, <1>2, SMTT(30)
<1>4. \A j \in stops : to <= j
  <2> SUFFICES ASSUME NEW j \in stops, j < to PROVE FALSE
    BY <1>1, <1>2, SMTT(30)
  <2>1. j \in from .. (Len(s.text) + 1) /\ j # Len(s.text) + 1 /\ s.text[j].t # "comment"
    BY <1>1, <1>2, SMTT(30)
  <2>2. j \in a .. (e - 1)
    BY <1>1, <1>2, <2>1, SMTT(30)
  <2>3. PICK y \in DOMAIN q : q[y] = j
    BY <2>1, <2>2 DEF Holds, Dropped
  <2>4. y < x \/ y = x \/ y = x + 1 \/ x + 1 < y
    BY <1>2, SMTT(30)
  <2>5. q[x] < j /\ j < to /\ q[y] = j
    BY <1>1, <1>2, <2>1, <2>3, SMTT(30)
  <2>6. y < x => q[y] < q[x]
    BY DEF Holds
  <2>7. x + 1 < y => to < q[y]
    BY DEF Holds
  <2>8. q[y] \in Nat /\ q[x] \in Nat /\ to \in Nat
    BY <1>2, <2>1, <2>2, <2>3, SMTT(30)
  <2> QED
    BY <2>4, <2>5, <2>6, <2>7, <2>8
<1>5. stops \in SUBSET Nat
  BY <1>1, <1>2, SMTT(30)
<1>6. SkipComments(s.text, from) = Least(stops)
  BY DEF SkipComments
<1> HIDE DEF stops, from, to
<1>7. Least(stops) = to
  <2>1. Least(stops) \in stops /\ \A n \in stops : Least(stops) <= n
    BY <1>3, <1>5, LeastExists
  <2>2. Least(stops) \in Nat /\ to \in Nat /\ Least(stops) <= to /\ to <= Least(stops)
    BY <1>3, <1>4, <1>5, <2>1
  <2> QED
    BY <2>2
<1> QED
  BY <1>6, <1>7 DEF from, to

\* A piece that opens with a head does so in the text too.
LEMMA HeadInText ==
  ASSUME file \in Source, NEW q, NEW a \in Nat \ {0}, NEW e \in Nat, Holds(file, q, a, e),
         NEW s \in 1 .. Len(q), NEW words, HeadOf(SubSeq(Tokens(q), s, Len(q)), words)
  PROVE  HeadAt(text, q[s], words)
<1> DEFINE own == SubSeq(Tokens(q), s, Len(q))
           N == Len(q) - s + 1
<1>1. /\ Tokens(q) \in Seq(Token) /\ Len(Tokens(q)) = Len(q) /\ Len(q) \in Nat
      /\ DOMAIN q = 1 .. Len(q)
      /\ \A k \in 1 .. Len(q) : Tokens(q)[k] = text[q[k]]
  BY StatementTokens
<1>2. Len(own) = N /\ \A k \in 1 .. N : own[k] = text[q[s + k - 1]]
  <2>1. \A k \in s .. Len(q) : Tokens(q)[k] \in Token
    BY <1>1, ElementOfSeq
  <2>2. s \in Int /\ Len(q) \in Int /\ s <= Len(q)
    BY <1>1
  <2>3. /\ Len(own) = IF s <= Len(q) THEN Len(q) - s + 1 ELSE 0
        /\ \A k \in 1 .. (Len(q) - s + 1) : own[k] = Tokens(q)[s + k - 1]
    BY <2>1, <2>2, SubSeqProperties
  <2>4. \A k \in 1 .. N : s + k - 1 \in 1 .. Len(q)
    BY <1>1
  <2> QED
    BY <1>1, <2>2, <2>3, <2>4
<1>3. HeadOf(own, words)
  OBVIOUS
<1> HIDE DEF own
<1> DEFINE Place(k) == q[s + k - 1]
<1>4. ASSUME NEW k \in 1 .. N, NEW some, WordIn(own[k], some)
      PROVE  WordAt(text, Place(k), some) /\ text[Place(k)].t # "comment"
  <2>1. own[k] = text[Place(k)] /\ Place(k) \in DOMAIN text
    <3>1. s + k - 1 \in DOMAIN q
      BY <1>1
    <3>2. Place(k) \in DOMAIN text
      BY <3>1 DEF Holds, text
    <3> QED
      BY <1>2, <3>2
  <2> HIDE DEF Place
  <2> QED
    BY <1>4, <2>1 DEF WordIn, WordAt, At, Word
<1>5. ASSUME NEW k \in 1 .. N, k + 1 \in 1 .. N, text[Place(k + 1)].t # "comment"
      PROVE  SkipComments(text, Place(k) + 1) = Place(k + 1)
  <2> DEFINE x == s + k - 1
  <2>1. x \in DOMAIN q /\ x + 1 \in DOMAIN q /\ x + 1 = s + (k + 1) - 1
    BY <1>1, <1>5
  <2>2. Place(k) = q[x] /\ Place(k + 1) = q[x + 1]
    BY <2>1
  <2> HIDE DEF x, Place
  <2>3. file.text[q[x + 1]].t # "comment"
    BY <1>5, <2>2 DEF text
  <2> QED
    BY <2>1, <2>2, <2>3, Adjacent, SMTT(30) DEF text
<1>6. Place(1) = q[s] /\ N \in Nat
  BY <1>1
<1> HIDE DEF Place, N
<1>7. Len(own) >= 2 /\ WordIn(own[1], Create)
  BY <1>3 DEF HeadOf
<1>8. /\ 1 \in 1 .. N /\ 2 \in 1 .. N /\ 1 + 1 = 2
      /\ N >= 4 => 3 \in 1 .. N /\ 4 \in 1 .. N /\ 2 + 1 = 3 /\ 3 + 1 = 4
  BY <1>2, <1>6, <1>7
<1>9. WordAt(text, q[s], Create)
  BY <1>4, <1>6, <1>7, <1>8
<1>10. CASE WordIn(own[2], words)
  <2>1. WordAt(text, Place(2), words) /\ text[Place(2)].t # "comment"
    BY <1>4, <1>8, <1>10
  <2>2. SkipComments(text, q[s] + 1) = Place(2)
    BY <1>5, <1>6, <1>8, <2>1
  <2> QED
    BY <1>9, <2>1, <2>2 DEF HeadAt
<1>11. CASE Len(own) >= 4 /\ WordIn(own[2], {"OR"}) /\ WordIn(own[3], {"REPLACE"}) /\ WordIn(own[4], words)
  <2>0. 2 \in 1 .. N /\ 3 \in 1 .. N /\ 4 \in 1 .. N /\ 1 + 1 = 2 /\ 2 + 1 = 3 /\ 3 + 1 = 4
    BY <1>2, <1>8, <1>11
  <2>1. /\ WordAt(text, Place(2), {"OR"}) /\ text[Place(2)].t # "comment"
        /\ WordAt(text, Place(3), {"REPLACE"}) /\ text[Place(3)].t # "comment"
        /\ WordAt(text, Place(4), words) /\ text[Place(4)].t # "comment"
    BY <1>4, <1>11, <2>0
  <2>2. SkipComments(text, q[s] + 1) = Place(2)
    BY <1>5, <1>6, <1>8, <2>1
  <2>3. SkipComments(text, Place(2) + 1) = Place(3)
    BY <1>5, <2>0, <2>1
  <2>4. SkipComments(text, Place(3) + 1) = Place(4)
    BY <1>5, <2>0, <2>1
  <2> QED
    BY <1>9, <2>1, <2>2, <2>3, <2>4 DEF HeadAt
<1> QED
  BY <1>3, <1>10, <1>11 DEF HeadOf

-----------------------------------------------------------------------------
(* Complete bodies are whole. *)

\* The blocks of a file are within its constructs.
LEMMA DollarsOfSomething ==
  ASSUME NEW s \in Source, s.dialect.dollarQuoting, NEW k \in Dollars(s)
  PROVE  s.text[k].of # 0
<1>1. PICK b \in Blocks(s) : k \in {b[1], b[2]}
  BY BlocksPair DEF Pairs
<1> QED
  BY <1>1, BlockShape

\* Nothing of another construct is in the statement of a routine: not after its head,
\* nor, where there are blocks, before it.
LEMMA NothingElse ==
  ASSUME NEW s \in Source, NEW q, NEW a \in Nat \ {0}, NEW e \in Nat, Holds(s, q, a, e),
         NEW n \in a .. (e - 1), NEW k \in a .. (e - 1), IsRoutineText(s, n),
         n < k \/ s.dialect.dollarQuoting
  PROVE  s.text[k].of \in {s.text[n].of, 0}
<1> SUFFICES ASSUME s.text[k].of \notin {s.text[n].of, 0} PROVE FALSE
  OBVIOUS
<1>1. k \in DOMAIN s.text /\ n \in DOMAIN s.text /\ \A d \in a .. (e - 1) : ~ Divides(s, d)
  BY DEF Holds
<1>2. DOMAIN s.text = 1 .. Len(s.text) /\ Len(s.text) \in Nat
  BY SourceText
<1>3. s.text[n].of # 0 /\ n # k
  BY DEF IsRoutineText
<1> DEFINE dividers == {d \in DOMAIN s.text : Divides(s, d)}
<1>4. ASSUME NEW l \in DOMAIN s.text, NEW j \in 1 .. (l - 1),
             s.text[j].of # s.text[l].of, s.text[j].of # 0, s.text[l].of # 0,
             IsRoutineText(s, j) \/ (IsRoutineText(s, l) /\ s.dialect.dollarQuoting)
      PROVE  \E d \in dividers : j < d /\ d < l
  BY <1>4, SourceText DEF RoutinesAreDivided
<1>5. CASE n < k
  <2>1. n \in 1 .. (k - 1)
    BY <1>1, <1>2, <1>5
  <2>2. PICK d \in dividers : n < d /\ d < k
    BY <1>1, <1>3, <1>4, <2>1
  <2>3. d \in a .. (e - 1)
    BY <1>2, <2>2
  <2> QED
    BY <1>1, <2>2, <2>3
<1>6. CASE k < n
  <2>1. k \in 1 .. (n - 1) /\ s.dialect.dollarQuoting
    BY <1>1, <1>2, <1>6
  <2>2. PICK d \in dividers : k < d /\ d < n
    BY <1>1, <1>3, <1>4, <2>1
  <2>3. d \in a .. (e - 1)
    BY <1>2, <2>2, SMTT(30)
  <2> QED
    BY <1>1, <2>2, <2>3
<1> QED
  BY <1>1, <1>2, <1>3, <1>5, <1>6

\* A routine that is marked complete ends with its statement.
LEMMA EndsWithin ==
  ASSUME NEW s \in Source, NEW st, NEW a \in Nat \ {0}, NEW e \in Nat,
         Holds(s, st.toks, a, e), st.quotedBlockSeen => HoldsBlock(s, a, e), EndsAt(s, st, e),
         NEW n \in a .. (e - 1), IsRoutineText(s, n),
         st.term # "semicolon" \/ s.written[s.text[n].of].style # "atomicDollar",
         \/ st.term # "semicolon" \/ st.quotedBlockSeen
         \/ s.written[s.text[n].of].kind = "trigger" /\ ~ s.dialect.inlineTriggers,
         NEW k \in DOMAIN s.text, s.text[k].of = s.text[n].of
  PROVE  k < e
<1> SUFFICES ASSUME e <= k PROVE FALSE
  BY SourceText
<1>1. DOMAIN s.text = 1 .. Len(s.text) /\ Len(s.text) \in Nat
  BY SourceText, SMTT(30)
<1>2. n \in DOMAIN s.text /\ s.text[n].of # 0
  BY DEF Holds, IsRoutineText
<1>3. e \in DOMAIN s.text /\ n <= e
  BY <1>1, <1>2, SMTT(30)
<1>4. s.text[e].of = s.text[n].of
  BY <1>2, <1>3, Between
<1>5. st.term = "semicolon" /\ IsMark(s.text[e], ";") /\ (s.dialect.dollarQuoting => ~ InBlock(s, e))
  BY <1>2, <1>3, <1>4 DEF EndsAt
<1>6. CASE s.written[s.text[n].of].kind = "trigger" /\ ~ s.dialect.inlineTriggers
  BY <1>2, <1>3, <1>4, <1>5, <1>6, SourceText DEF KeepsSeparatorsOut
<1>7. CASE st.quotedBlockSeen
  <2>1. PICK m \in a .. (e - 1) : s.text[m].t = "dollar" /\ s.dialect.dollarQuoting
    BY <1>7 DEF HoldsBlock
  <2>2. m \in Dollars(s)
    BY <2>1 DEF Dollars, Holds
  <2>3. s.text[m].of # 0
    BY <2>1, <2>2, DollarsOfSomething, SMTT(30)
  <2>4. s.text[m].of = s.text[n].of
    BY <2>1, <2>3, NothingElse, SMTT(30)
  <2>5. IsRoutineText(s, e)
    BY <1>4 DEF IsRoutineText
  <2>6. s.text[m].of = s.text[e].of
    BY <1>4, <2>4, SMTT(30)
  <2>7. s.written[s.text[e].of].style = "atomicDollar"
    BY <1>3, <1>5, <2>1, <2>2, <2>5, <2>6, SourceText DEF BlocksProtect
  <2> QED
    BY <1>4, <1>5, <2>7
<1> QED
  BY <1>5, <1>6, <1>7

\* The places of a statement from one on.
LEMMA PlacesFrom ==
  ASSUME NEW q \in Seq(Nat), NEW s \in 1 .. Len(q)
  PROVE  ToSet(SubSeq(q, s, Len(q))) = {q[y] : y \in s .. Len(q)}
<1> DEFINE r == SubSeq(q, s, Len(q))
           n == Len(q) - s + 1
<1>1. /\ s \in Int /\ Len(q) \in Int /\ s <= Len(q)
      /\ \A y \in s .. Len(q) : q[y] \in Nat
  BY ElementOfSeq, LenProperties, SMTT(30)
<1>2. /\ r \in Seq(Nat) /\ Len(r) = IF s <= Len(q) THEN n ELSE 0
      /\ \A j \in 1 .. n : r[j] = q[s + j - 1]
  BY <1>1, SubSeqProperties, SMTT(30)
<1>3. DOMAIN r = 1 .. n
  BY <1>1, <1>2, LenProperties
<1> HIDE DEF r
<1>4. ToSet(r) = {r[j] : j \in 1 .. n}
  BY <1>3 DEF ToSet
<1>5. ASSUME NEW y \in s .. Len(q) PROVE \E j \in 1 .. n : r[j] = q[y]
  <2>1. y - s + 1 \in 1 .. n /\ s + (y - s + 1) - 1 = y
    BY <1>1
  <2> QED
    BY <1>2, <2>1
<1>6. ASSUME NEW j \in 1 .. n PROVE \E y \in s .. Len(q) : r[j] = q[y]
  <2>1. s + j - 1 \in s .. Len(q)
    BY <1>1
  <2> QED
    BY <1>2, <2>1
<1>7. ToSet(r) = {q[y] : y \in s .. Len(q)}
  <2> HIDE DEF n
  <2>1. \A z \in ToSet(r) : z \in {q[y] : y \in s .. Len(q)}
    BY <1>4, <1>6
  <2>2. \A z \in {q[y] : y \in s .. Len(q)} : z \in ToSet(r)
    BY <1>4, <1>5
  <2> QED
    BY <2>1, <2>2
<1> QED
  BY <1>7 DEF r

\* A routine that is marked complete is whole in every state of the invariant.
LEMMA CompleteIsWhole == TextInv => CompleteBodiesAreWhole
<1> SUFFICES ASSUME TextInv, NEW p \in Procedures \cup Triggers,
                    IF IsRoutine(p.toks) THEN RoutineComplete(p) ELSE TriggerComplete(p),
                    ~ MistakenForWhole(p)
             PROVE  /\ TokensOf(text[p.at].of) \subseteq ToSet(p.places)
                    /\ \A k \in ToSet(p.places) : text[k].of \in {text[p.at].of, 0}
  BY DEF CompleteBodiesAreWhole
<1>1. PICK x \in DOMAIN out : p \in Pieces(out[x])
  BY DEF Procedures, Triggers, Applied
<1> DEFINE st == out[x]
<1>2. Cut(file, st)
  BY <1>1 DEF TextInv, OutInv
<1>3. p \in Pieces(st)
  BY <1>1
<1> HIDE DEF st
<1>4. PICK a, e \in 1 .. (Len(file.text) + 1) :
        /\ StartsAt(file, a) /\ Holds(file, st.toks, a, e)
        /\ (st.quotedBlockSeen => HoldsBlock(file, a, e)) /\ EndsAt(file, st, e)
  BY <1>2 DEF Cut
<1>5. /\ file \in Source /\ text = file.text /\ dialect = file.dialect /\ written = file.written
      /\ a \in Nat \ {0} /\ e \in Nat
  BY <1>4, Here DEF written
<1> DEFINE q == st.toks
<1>6. /\ Tokens(q) \in Seq(Token) /\ Len(Tokens(q)) = Len(q) /\ Len(q) \in Nat \ {0}
      /\ DOMAIN q = 1 .. Len(q) /\ q \in Seq(Nat)
  <2>1. /\ Tokens(q) \in Seq(Token) /\ Len(Tokens(q)) = Len(q) /\ Len(q) \in Nat
        /\ DOMAIN q = 1 .. Len(q)
    BY <1>4, <1>5, StatementTokens
  <2>2. q \in Seq(Nat) /\ q # << >>
    BY <1>2, <1>4 DEF Holds, Cut
  <2> QED
    BY <2>1, <2>2, EmptySeq
\* What it opens with, and what that makes of its construct.
<1>7. PICK kind \in {"procedure", "trigger"}, words \in {{"FUNCTION", "PROCEDURE"}, {"TRIGGER"}} :
        /\ HeadOf(p.toks, words)
        /\ \A k \in DOMAIN text : HeadAt(text, k, words) => BeginsA(file, k, kind)
        /\ \/ p.term # "semicolon" \/ p.quotedBlockSeen
           \/ kind = "trigger" /\ ~ dialect.inlineTriggers
  <2>1. \A k \in DOMAIN text :
          /\ HeadAt(text, k, {"FUNCTION", "PROCEDURE"}) => BeginsA(file, k, "procedure")
          /\ HeadAt(text, k, {"TRIGGER"}) => BeginsA(file, k, "trigger")
    BY <1>5, SourceText DEF HeadsBegin
  <2>3. CASE IsRoutine(p.toks)
    <3>1. HeadOf(p.toks, {"FUNCTION", "PROCEDURE"})
      BY <2>3, RoutineHasHead
    <3>2. p.term # "semicolon" \/ p.quotedBlockSeen
      BY <2>3 DEF RoutineComplete
    <3> QED
      BY <2>1, <3>1, <3>2
  <2>4. CASE ~ IsRoutine(p.toks)
    <3>1. IsTrigger(p.toks)
      BY <2>4 DEF Procedures, Triggers
    <3>2. HeadOf(p.toks, {"TRIGGER"})
      BY <3>1, RoutineHasHead
    <3>3. p.term # "semicolon" \/ p.quotedBlockSeen \/ ~ dialect.inlineTriggers
      BY <2>4 DEF TriggerComplete, RoutineComplete
    <3> QED
      BY <2>1, <3>2, <3>3
  <2> QED
    BY <2>3, <2>4
<1>8. PICK s \in 1 .. Len(q) :
        /\ p.at = q[s] /\ p.places = SubSeq(q, s, Len(q))
        /\ p.term = st.term /\ p.quotedBlockSeen = st.quotedBlockSeen
        /\ HeadOf(SubSeq(Tokens(q), s, Len(q)), words)
  BY <1>3, <1>6, <1>7, PieceShape, ZenonT(40)
<1>9. p.at \in a .. (e - 1) /\ p.at \in DOMAIN text
  BY <1>4, <1>5, <1>6, <1>8 DEF Holds
<1>10. BeginsA(file, p.at, kind)
  <2>1. HeadAt(text, q[s], words)
    BY <1>4, <1>5, <1>8, HeadInText
  <2> QED
    BY <1>7, <1>8, <1>9, <2>1
<1>11. IsRoutineText(file, p.at) /\ file.written[text[p.at].of].kind = kind
  BY <1>5, <1>10 DEF BeginsA, IsRoutineText
<1>12. ToSet(p.places) = {q[y] : y \in s .. Len(q)}
  BY <1>6, <1>8, PlacesFrom
<1>13. ASSUME NEW y \in s .. Len(q) PROVE q[y] \in a .. (e - 1) /\ (q[y] = p.at \/ p.at < q[y])
  <2>1. y \in DOMAIN q /\ s \in DOMAIN q /\ (y = s \/ s < y)
    BY <1>6, SMTT(30)
  <2> QED
    BY <1>4, <1>8, <2>1 DEF Holds
<1>14. \A k \in ToSet(p.places) : text[k].of \in {text[p.at].of, 0}
  <2> SUFFICES ASSUME NEW y \in s .. Len(q) PROVE text[q[y]].of \in {text[p.at].of, 0}
    BY <1>12
  <2> QED
    BY <1>4, <1>5, <1>9, <1>11, <1>13, NothingElse
<1>15. TokensOf(text[p.at].of) \subseteq ToSet(p.places)
  <2> SUFFICES ASSUME NEW k \in TokensOf(text[p.at].of) PROVE \E y \in s .. Len(q) : q[y] = k
    BY <1>12
  <2>1. k \in DOMAIN text /\ text[k].of = text[p.at].of /\ ~ Dropped(file, k)
    BY <1>5 DEF TokensOf, IsComment, Dropped
  <2>2. p.at <= k
    <3>1. \A j \in 1 .. (p.at - 1) : text[j].of # text[p.at].of
      BY <1>5, <1>10 DEF BeginsA
    <3> QED
      BY <1>9, <2>1, <3>1, Here, SMTT(30)
  <2>3. k < e
    <3>1. file.written[file.text[p.at].of].style # "atomicDollar" \/ st.term # "semicolon"
      BY <1>5, <1>8 DEF MistakenForWhole, Construct
    <3> QED
      BY <1>4, <1>5, <1>7, <1>8, <1>9, <1>11, <2>1, <3>1, EndsWithin, ZenonT(40)
  <2>4. k \in a .. (e - 1)
    BY <1>5, <1>9, <2>1, <2>2, <2>3, Here, SMTT(30)
  <2>5. PICK y \in DOMAIN q : q[y] = k
    BY <1>4, <2>1, <2>4 DEF Holds
  <2>6. s <= y
    <3> SUFFICES ASSUME y < s PROVE FALSE
      BY <1>6
    <3>1. q[y] < q[s]
      BY <1>4, <1>6 DEF Holds
    <3> QED
      BY <1>8, <1>9, <2>2, <2>4, <2>5, <3>1, SMTT(30)
  <2> QED
    BY <1>6, <2>5, <2>6
<1> QED
  BY <1>14, <1>15

\* And so in every reachable state.
THEOREM CompleteAlwaysWhole == Spec => []CompleteBodiesAreWhole
BY TextInvariant, CompleteIsWhole, PTL

-----------------------------------------------------------------------------
(* Where every word of the file is. *)

\* A statement opens like a routine or a trigger.
StartsRoutine(q) == HeadOf(Tokens(q), {"FUNCTION", "PROCEDURE"}) \/ HeadOf(Tokens(q), {"TRIGGER"})

Earlier(q, r) == \A j \in DOMAIN q : \A l \in DOMAIN r : q[j] < r[l]
Past(q, k) == \A j \in DOMAIN q : q[j] < k
In(q, k) == \E l \in DOMAIN q : q[l] = k

\* The statements come one after the other,
ApartInv ==
  /\ \A x \in DOMAIN out : Earlier(out[x].toks, buf) /\ Past(out[x].toks, i)
  /\ \A x, y \in DOMAIN out : x < y => Earlier(out[x].toks, out[y].toks)

\* every word is in one,
CoverInv ==
  /\ \A k \in DOMAIN text : k < i /\ Word(text[k]) => In(buf, k) \/ \E x \in DOMAIN out : In(out[x].toks, k)
  /\ Done => buf = << >>

\* and a terminator only in a routine's, a comment only in a block.
Clean(s, q) ==
  \A l \in DOMAIN q :
    /\ Terminates(s, q[l]) => StartsRoutine(q)
    /\ Dropped(s, q[l]) => s.dialect.dollarQuoting /\ InBlock(s, q[l])
SeparatorInv ==
  /\ routineHead => StartsRoutine(buf)
  /\ Clean(file, buf)
  /\ \A x \in DOMAIN out : Clean(file, out[x].toks)

WordsInv == ApartInv /\ CoverInv /\ SeparatorInv

\* The head of what is added to stays.
LEMMA HeadStays ==
  ASSUME NEW q \in Seq(Nat), NEW r \in Seq(Nat), Len(q) <= Len(r), \A l \in 1 .. Len(q) : r[l] = q[l],
         StartsRoutine(q)
  PROVE  StartsRoutine(r)
<1>1. /\ Len(q) \in Nat /\ Len(r) \in Nat /\ DOMAIN q = 1 .. Len(q) /\ DOMAIN r = 1 .. Len(r)
  BY LenProperties
<1>2. ASSUME NEW p \in Seq(Nat)
      PROVE  /\ DOMAIN Tokens(p) = 1 .. Len(p) /\ Len(Tokens(p)) = Len(p)
             /\ \A k \in 1 .. Len(p) : Tokens(p)[k] = text[p[k]]
  <2>1. Len(p) \in Nat /\ DOMAIN p = 1 .. Len(p)
    BY LenProperties
  <2>2. Tokens(p) = [k \in 1 .. Len(p) |-> text[p[k]]]
    BY <2>1 DEF Tokens
  <2> QED
    BY <2>1, <2>2
<1>3. \A k \in 1 .. Len(q) : Tokens(r)[k] = Tokens(q)[k]
  <2> SUFFICES ASSUME NEW k \in 1 .. Len(q) PROVE Tokens(r)[k] = Tokens(q)[k]
    OBVIOUS
  <2>1. k \in 1 .. Len(r) /\ r[k] = q[k]
    BY <1>1
  <2>2. Tokens(q)[k] = text[q[k]] /\ Tokens(r)[k] = text[r[k]]
    BY <1>2, <2>1
  <2> QED
    BY <2>1, <2>2
<1>4. ASSUME NEW words, HeadOf(Tokens(q), words) PROVE HeadOf(Tokens(r), words)
  <2>1. Len(Tokens(q)) = Len(q) /\ Len(Tokens(r)) = Len(r)
    BY <1>2
  <2>2. Len(q) >= 2 => 1 \in 1 .. Len(q) /\ 2 \in 1 .. Len(q)
    BY <1>1
  <2>3. Len(q) >= 4 => 3 \in 1 .. Len(q) /\ 4 \in 1 .. Len(q)
    BY <1>1
  <2> QED
    BY <1>1, <1>3, <1>4, <2>1, <2>2, <2>3 DEF HeadOf
<1> QED
  BY <1>4 DEF StartsRoutine

\* A step that adds tokens to the statement, or none.
LEMMA GrowsKeeps ==
  ASSUME TextInv, WordsInv, UNCHANGED <<file, out>>, buf' \in Seq(Nat), i' \in Nat, i < i', i' <= Len(text) + 1,
         Len(buf) <= Len(buf'), \A l \in 1 .. Len(buf) : buf'[l] = buf[l],
         \A l \in 1 .. Len(buf') : l > Len(buf) =>
           /\ buf'[l] \in i .. (i' - 1)
           /\ Terminates(file, buf'[l]) => StartsRoutine(buf)
           /\ Dropped(file, buf'[l]) => dialect.dollarQuoting /\ InBlock(file, buf'[l]),
         \A k \in i .. (i' - 1) : Word(text[k]) => \E l \in 1 .. Len(buf') : buf'[l] = k,
         routineHead' => routineHead \/ StartsRoutine(buf)
  PROVE  WordsInv'
<1>1. /\ buf \in Seq(Nat) /\ Len(buf) \in Nat /\ Len(buf') \in Nat /\ i \in Nat
      /\ DOMAIN buf = 1 .. Len(buf) /\ DOMAIN buf' = 1 .. Len(buf')
  BY Here, LenProperties DEF TextInv, TextTypeOK
<1>2. \A l \in 1 .. Len(buf') : l \in 1 .. Len(buf) \/ l > Len(buf)
  BY <1>1
<1>3. StartsRoutine(buf) => StartsRoutine(buf')
  <2>1. StartsRoutine(buf)' <=> StartsRoutine(buf')
    BY DEF StartsRoutine, Tokens, text
  <2> QED
    BY <1>1, HeadStays
<1>4. text' = text
  BY DEF text
<1>5. ApartInv'
  <2>1. ASSUME NEW x \in DOMAIN out
        PROVE  Earlier(out[x].toks, buf') /\ Past(out[x].toks, i')
    <3>1. Earlier(out[x].toks, buf) /\ Past(out[x].toks, i)
      BY DEF WordsInv, ApartInv
    <3>2. out[x].toks \in Seq(Nat)
      BY DEF TextInv, OutInv, Cut, Holds
    <3>3. \A j \in DOMAIN out[x].toks : out[x].toks[j] \in Nat
      BY <3>2, SMTT(30)
    <3>4. \A j \in DOMAIN out[x].toks : \A l \in 1 .. Len(buf') : out[x].toks[j] < buf'[l]
      <4> SUFFICES ASSUME NEW j \in DOMAIN out[x].toks, NEW l \in 1 .. Len(buf') PROVE out[x].toks[j] < buf'[l]
        OBVIOUS
      <4>1. CASE l \in 1 .. Len(buf)
        BY <1>1, <3>1, <4>1 DEF Earlier
      <4>2. CASE l > Len(buf)
        <5>1. out[x].toks[j] < i /\ out[x].toks[j] \in Nat
          BY <3>1, <3>3 DEF Past
        <5> QED
          BY <1>1, <4>2, <5>1, SMTT(30)
      <4> QED
        BY <1>2, <4>1, <4>2
    <3> QED
      BY <1>1, <3>1, <3>3, <3>4, SMTT(30) DEF Earlier, Past
  <2> QED
    BY <2>1 DEF ApartInv, WordsInv
<1>6. CoverInv'
  <2> SUFFICES ASSUME NEW k \in DOMAIN text, k < i', Word(text[k])
               PROVE  In(buf', k) \/ \E x \in DOMAIN out : In(out[x].toks, k)
    <3>1. ~ Done'
      BY <1>4, Here DEF Done
    <3> QED
      BY <1>4, <3>1 DEF CoverInv
  <2>1. CASE ~ (k < i)
    <3>1. k \in i .. (i' - 1)
      BY <1>1, <2>1, Here
    <3> QED
      BY <1>1, <3>1 DEF In
  <2>2. CASE k < i
    <3>1. In(buf, k) \/ \E x \in DOMAIN out : In(out[x].toks, k)
      BY <2>2 DEF WordsInv, CoverInv
    <3>2. In(buf, k) => In(buf', k)
      BY <1>1 DEF In
    <3> QED
      BY <3>1, <3>2
  <2> QED
    BY <2>1, <2>2
<1>7. SeparatorInv'
  <2>1. routineHead' => StartsRoutine(buf')
    BY <1>3 DEF WordsInv, SeparatorInv
  <2>2. Clean(file, buf')
    <3> SUFFICES ASSUME NEW l \in 1 .. Len(buf')
                 PROVE  /\ Terminates(file, buf'[l]) => StartsRoutine(buf)
                        /\ Dropped(file, buf'[l]) => file.dialect.dollarQuoting /\ InBlock(file, buf'[l])
      BY <1>1, <1>3 DEF Clean
    <3>1. CASE l \in 1 .. Len(buf)
      BY <1>1, <3>1 DEF WordsInv, SeparatorInv, Clean
    <3>2. CASE l > Len(buf)
      BY <3>2, Here
    <3> QED
      BY <1>2, <3>1, <3>2
  <2>3. \A x \in DOMAIN out : Clean(file, out[x].toks)
    BY DEF WordsInv, SeparatorInv
  <2> QED
    BY <1>1, <1>4, <2>1, <2>2, <2>3 DEF SeparatorInv, Clean, StartsRoutine, Tokens
<1> QED
  BY <1>5, <1>6, <1>7 DEF WordsInv

\* A step that cuts a statement off.
LEMMA CutsKeeps ==
  ASSUME TextInv, WordsInv, i <= Len(text) + 1, i' = i + 1, file' = file,
         NEW kind \in {"goBreak", "semicolon", "customDelimiter", "eof"}, Flush(kind),
         Reading => ~ Word(text[i])
  PROVE  WordsInv'
<1>1. /\ buf \in Seq(Nat) /\ Len(buf) \in Nat /\ i \in Nat /\ DOMAIN buf = 1 .. Len(buf)
      /\ out \in Seq(Kept) /\ Len(out) \in Nat /\ DOMAIN out = 1 .. Len(out)
      /\ quotedSeen \in BOOLEAN
  BY Here, LenProperties DEF TextInv, TextTypeOK
<1>2. buf' = << >> /\ DOMAIN buf' = {} /\ routineHead' = FALSE
  BY DEF Flush, Fresh
<1>3. \A k \in DOMAIN buf : buf[k] < i
  BY <1>1 DEF TextInv, BufInv, Holds
<1>4. PICK st : st = [toks |-> buf, term |-> kind, quotedBlockSeen |-> quotedSeen]
  OBVIOUS
<1>5. st.toks = buf /\ st \in Kept
  BY <1>1, <1>4 DEF Kept
<1>6. PICK n \in Nat :
        /\ DOMAIN out' = 1 .. n /\ n >= Len(out)
        /\ \A x \in 1 .. Len(out) : out'[x] = out[x]
        /\ \A x \in 1 .. n : x \in 1 .. Len(out) \/ (x > Len(out) /\ x = n /\ out'[x].toks = buf)
        /\ buf # << >> => \E x \in 1 .. n : out'[x].toks = buf
  <2>1. CASE buf = << >>
    <3>1. out' = out
      BY <2>1, SMTT(30) DEF Flush
    <3>2. PICK n \in Nat : n = Len(out)
      BY <1>1
    <3>3. /\ DOMAIN out' = 1 .. n /\ n >= Len(out)
          /\ \A x \in 1 .. Len(out) : out'[x] = out[x]
          /\ \A x \in 1 .. n : x \in 1 .. Len(out)
      BY <1>1, <3>1, <3>2
    <3> QED
      BY <2>1, <3>3
  <2>2. CASE buf # << >>
    <3>1. out' = Append(out, st)
      BY <1>4, <2>2 DEF Flush
    <3>2. /\ DOMAIN out' = 1 .. (Len(out) + 1)
          /\ \A x \in 1 .. Len(out) : out'[x] = out[x]
          /\ out'[Len(out) + 1] = st
      BY <1>1, <1>5, <3>1, AppendProperties
    <3>3. PICK n \in Nat : n = Len(out) + 1
      BY <1>1
    <3>4. \A x \in 1 .. n : x \in 1 .. Len(out) \/ (x > Len(out) /\ x = n)
      BY <1>1, <3>3
    <3>5. n \in 1 .. n /\ out'[n].toks = buf /\ DOMAIN out' = 1 .. n /\ n >= Len(out)
      BY <1>1, <1>5, <3>2, <3>3
    <3> QED
      BY <3>2, <3>4, <3>5
  <2> QED
    BY <2>1, <2>2
<1>7. \A x \in DOMAIN out' :
        \/ x \in DOMAIN out /\ out'[x] = out[x]
        \/ x = n /\ x > Len(out) /\ out'[x].toks = buf
  <2>1. DOMAIN out' = 1 .. n /\ DOMAIN out = 1 .. Len(out)
    BY <1>1, <1>6
  <2> SUFFICES ASSUME NEW x \in DOMAIN out'
               PROVE  \/ x \in DOMAIN out /\ out'[x] = out[x]
                      \/ x = n /\ x > Len(out) /\ out'[x].toks = buf
    OBVIOUS
  <2>2. x \in 1 .. n
    BY <2>1
  <2>3. CASE x \in 1 .. Len(out)
    BY <1>6, <2>1, <2>3
  <2>4. CASE x > Len(out) /\ x = n /\ out'[x].toks = buf
    BY <2>4
  <2> QED
    BY <1>6, <2>2, <2>3, <2>4
<1>8. ApartInv'
  <2>1. ASSUME NEW x \in DOMAIN out' PROVE Earlier(out'[x].toks, buf') /\ Past(out'[x].toks, i')
    <3>1. Earlier(out'[x].toks, buf')
      BY <1>2 DEF Earlier
    <3>2. CASE x \in DOMAIN out /\ out'[x] = out[x]
      <4>1. Past(out[x].toks, i) /\ out[x].toks \in Seq(Nat)
        BY <3>2 DEF WordsInv, ApartInv, TextInv, OutInv, Cut, Holds
      <4> QED
        BY <1>1, <3>1, <3>2, <4>1, SMTT(30) DEF Past
    <3>3. CASE out'[x].toks = buf
      BY <1>1, <1>3, <3>1, <3>3 DEF Past
    <3> QED
      BY <1>7, <3>2, <3>3
  <2>2. ASSUME NEW x \in DOMAIN out', NEW y \in DOMAIN out', x < y
        PROVE  Earlier(out'[x].toks, out'[y].toks)
    <3>1. x \in DOMAIN out /\ out'[x] = out[x]
      <4>1. x \in 1 .. n /\ y \in 1 .. n /\ x # n
        BY <1>6, <2>2
      <4> QED
        BY <1>1, <1>6, <4>1
    <3>2. CASE y \in DOMAIN out /\ out'[y] = out[y]
      BY <2>2, <3>1, <3>2 DEF WordsInv, ApartInv
    <3>3. CASE out'[y].toks = buf
      BY <3>1, <3>3 DEF WordsInv, ApartInv
    <3> QED
      BY <1>7, <3>2, <3>3
  <2> QED
    BY <2>1, <2>2 DEF ApartInv
<1>9. CoverInv'
  <2> SUFFICES ASSUME NEW k \in DOMAIN text, k < i + 1, Word(text[k])
               PROVE  In(buf', k) \/ \E x \in DOMAIN out' : In(out'[x].toks, k)
    BY <1>2 DEF CoverInv, text
  <2>1. k < i
    <3>1. k = i => Reading
      BY Here DEF Reading
    <3> QED
      BY <3>1, Here
  <2>2. In(buf, k) \/ \E x \in DOMAIN out : In(out[x].toks, k)
    BY <2>1 DEF WordsInv, CoverInv
  <2>3. CASE In(buf, k)
    <3>1. buf # << >>
      BY <2>3 DEF In
    <3> QED
      BY <1>6, <2>3, <3>1
  <2>4. CASE \E x \in DOMAIN out : In(out[x].toks, k)
    <3>1. PICK x \in DOMAIN out : In(out[x].toks, k)
      BY <2>4
    <3>2. x \in DOMAIN out' /\ out'[x] = out[x]
      <4>1. x \in 1 .. n
        BY <1>1, <1>6
      <4> QED
        BY <1>1, <1>6, <4>1
    <3> QED
      BY <3>1, <3>2
  <2> QED
    BY <2>2, <2>3, <2>4
<1>10. SeparatorInv'
  <2>1. \A x \in DOMAIN out' : Clean(file, out'[x].toks)
    BY <1>7 DEF WordsInv, SeparatorInv
  <2>2. Clean(file, buf')
    BY <1>2 DEF Clean
  <2> QED
    BY <1>2, <2>1, <2>2 DEF SeparatorInv, Clean, StartsRoutine, Tokens, text
<1> QED
  BY <1>8, <1>9, <1>10 DEF WordsInv

\* It begins without statements.
LEMMA WordsInit == Init => WordsInv
<1> SUFFICES ASSUME Init PROVE WordsInv
  OBVIOUS
<1>0. buf = << >> /\ out = << >> /\ i = 1 /\ routineHead = FALSE
  BY DEF Init
<1>1. buf = << >> /\ out = << >> /\ i = 1 /\ routineHead = FALSE /\ DOMAIN out = {} /\ DOMAIN buf = {}
  BY <1>0
<1>2. ApartInv
  BY <1>1 DEF ApartInv
<1>3. CoverInv
  <2>1. \A k \in DOMAIN text : ~ (k < i)
    <3>1. text = file.text /\ DOMAIN file.text = 1 .. Len(file.text)
      BY SourceText DEF Init, text
    <3> QED
      BY <1>1, <3>1
  <2> QED
    BY <1>1, <2>1 DEF CoverInv
<1>4. SeparatorInv
  BY <1>1 DEF SeparatorInv, Clean
<1> QED
  BY <1>2, <1>3, <1>4 DEF WordsInv

\* The steps that cut: a client line, a terminator, the end.
LEMMA WordsCut == TextInv /\ WordsInv /\ (DelimiterLine \/ GoLine \/ Terminator \/ EndOfFile) => WordsInv'
<1> SUFFICES ASSUME TextInv, WordsInv, DelimiterLine \/ GoLine \/ Terminator \/ EndOfFile PROVE WordsInv'
  OBVIOUS
<1>1. i \in Nat /\ Len(text) \in Nat
  BY Here
<1>2. i' = i + 1 /\ file' = file
  BY DEF DelimiterLine, GoLine, Terminator, EndOfFile, Advance
<1>3. i <= Len(text) + 1 /\ (Reading => ~ Word(text[i]))
  <2>1. CASE DelimiterLine \/ GoLine \/ Terminator
    <3>1. Reading /\ text[i].t \in {"delimiter", "go", "mark"}
      BY <2>1 DEF DelimiterLine, GoLine, Terminator, AtTerminator, Is
    <3> QED
      BY <1>1, <3>1 DEF Reading, Word
  <2>2. CASE EndOfFile
    BY <1>1, <2>2 DEF EndOfFile, Reading
  <2> QED
    BY <2>1, <2>2
<1>4. \E kind \in {"goBreak", "semicolon", "customDelimiter", "eof"} : Flush(kind)
  BY DEF DelimiterLine, GoLine, Terminator, EndOfFile
<1> QED
  BY <1>2, <1>3, <1>4, CutsKeeps

\* The steps that keep a token, or drop it.
LEMMA WordsOwn == TextInv /\ WordsInv /\ (Comment \/ OwnText \/ BodySeparator) => WordsInv'
<1> SUFFICES ASSUME TextInv, WordsInv, Comment \/ OwnText \/ BodySeparator PROVE WordsInv'
  OBVIOUS
<1>1. /\ Reading /\ i' = i + 1 /\ i \in Nat /\ Len(text) \in Nat /\ UNCHANGED <<file, out>>
      /\ buf \in Seq(Nat) /\ Len(buf) \in Nat
  BY Here, LenProperties DEF TextInv, TextTypeOK, Comment, OwnText, BodySeparator, AtTerminator, Advance
<1>2. i' \in Nat /\ i < i' /\ i' <= Len(text) + 1 /\ i .. (i' - 1) = {i}
  BY <1>1 DEF Reading
<1>3. CASE Comment
  <2>1. buf' = buf /\ routineHead' = routineHead /\ ~ Word(text[i])
    BY <1>3 DEF Comment, IsComment, Word
  <2>2. \A l \in 1 .. Len(buf') : ~ (l > Len(buf))
    BY <1>1, <2>1
  <2> QED
    BY <1>1, <1>2, <2>1, <2>2, GrowsKeeps
<1>4. CASE OwnText \/ BodySeparator
  <2>1. buf' = Append(buf, i)
    BY <1>4 DEF OwnText, BodySeparator, Keep
  <2>2. /\ buf' \in Seq(Nat) /\ Len(buf') = Len(buf) + 1
        /\ \A l \in 1 .. Len(buf) : buf'[l] = buf[l]
        /\ buf'[Len(buf) + 1] = i
    BY <1>1, <2>1, AppendProperties
  <2>3. PICK n \in Nat : n = Len(buf) + 1 /\ Len(buf') = n /\ n \in 1 .. n /\ buf'[n] = i
    BY <1>1, <2>2
  <2>4. \A l \in 1 .. Len(buf') : l > Len(buf) => l = n
    BY <1>1, <2>3
  <2>5. \E l \in 1 .. Len(buf') : buf'[l] = i
    BY <2>3
  <2>10. ~ Dropped(file, i)
    BY <1>1, <1>4, Here DEF OwnText, BodySeparator, AtTerminator, Ordinary, IsComment, Is, Dropped
  <2>6. (Terminates(file, i) => StartsRoutine(buf)) /\ (routineHead' => routineHead \/ StartsRoutine(buf))
    <3>1. CASE OwnText
      <4>1. ~ Is(text[i], "mark", term) /\ routineHead' = routineHead
        BY <3>1 DEF OwnText, Ordinary
      <4>2. ~ Terminates(file, i)
        BY <1>1, <4>1, Here DEF Terminates
      <4> QED
        BY <4>1, <4>2
    <3>2. CASE BodySeparator
      <4>1. IF headDecided THEN routineHead ELSE IsRoutineHead(Tokens(buf))
        BY <3>2 DEF BodySeparator, SeparatesBody
      <4>2. IsRoutineHead(Tokens(buf)) => StartsRoutine(buf)
        BY RoutineHasHead DEF IsRoutineHead, StartsRoutine
      <4>3. routineHead => StartsRoutine(buf)
        BY DEF WordsInv, SeparatorInv
      <4> QED
        BY <4>1, <4>2, <4>3
    <3> QED
      BY <1>4, <3>1, <3>2
  <2>7. \A l \in 1 .. Len(buf') : l > Len(buf) =>
          /\ buf'[l] \in i .. (i' - 1)
          /\ Terminates(file, buf'[l]) => StartsRoutine(buf)
          /\ ~ Dropped(file, buf'[l])
    <3> SUFFICES ASSUME NEW l \in 1 .. Len(buf'), l > Len(buf)
                 PROVE  /\ buf'[l] \in i .. (i' - 1) /\ (Terminates(file, buf'[l]) => StartsRoutine(buf))
                        /\ ~ Dropped(file, buf'[l])
      OBVIOUS
    <3>1. buf'[l] = i
      BY <2>3, <2>4
    <3> QED
      BY <1>2, <2>6, <2>10, <3>1
  <2>8. \A k \in i .. (i' - 1) : Word(text[k]) => \E l \in 1 .. Len(buf') : buf'[l] = k
    BY <1>2, <2>5
  <2>9. Len(buf) <= Len(buf')
    BY <1>1, <2>2
  <2> QED
    BY <1>1, <1>2, <2>2, <2>6, <2>7, <2>8, <2>9, GrowsKeeps
<1> QED
  BY <1>3, <1>4

\* And a dollar-quoted block is kept whole.
LEMMA WordsBlock == TextInv /\ WordsInv /\ DollarBlock => WordsInv'
<1> SUFFICES ASSUME TextInv, WordsInv, DollarBlock PROVE WordsInv'
  OBVIOUS
<1>0. PICK b \in Blocks(file) : \E m \in DOMAIN text :
        /\ b[1] = i /\ m = b[2] /\ m \in Nat /\ i < m /\ i' = m + 1
        /\ buf' = buf \o [k \in 1 .. (m - i + 1) |-> i + k - 1]
        /\ \A k \in i .. m : text[k].of # 0 /\ text[k].t # "delimiter"
  BY BlockTaken
<1>1. PICK m \in DOMAIN text :
        /\ b[1] = i /\ m = b[2] /\ m \in Nat /\ i < m /\ i' = m + 1
        /\ buf' = buf \o [k \in 1 .. (m - i + 1) |-> i + k - 1]
        /\ \A k \in i .. m : text[k].of # 0 /\ text[k].t # "delimiter"
  BY <1>0
<1>2. /\ i \in Nat /\ Len(text) \in Nat /\ DOMAIN text = 1 .. Len(text)
      /\ buf \in Seq(Nat) /\ Len(buf) \in Nat /\ UNCHANGED <<file, out, routineHead>>
  BY Here, LenProperties DEF TextInv, TextTypeOK, DollarBlock
<1>3. i' \in Nat /\ i < i' /\ i' <= Len(text) + 1 /\ i .. (i' - 1) = i .. m
  <2>1. i' = m + 1 /\ m \in Nat /\ i < m /\ m <= Len(text)
    BY <1>1, <1>2
  <2>2. (m + 1) - 1 = m
    BY <2>1
  <2> QED
    BY <1>2, <2>1, <2>2
<1> DEFINE n == m - i + 1
           block == [k \in 1 .. n |-> i + k - 1]
<1>4. /\ n \in Nat /\ block \in Seq(Nat) /\ Len(block) = n
      /\ \A k \in 1 .. n : block[k] = i + k - 1
  <2>1. n \in Nat
    BY <1>1, <1>2
  <2>2. \A k \in 1 .. n : i + k - 1 \in Nat
    BY <1>2
  <2> HIDE DEF n
  <2>3. block \in [1 .. n -> Nat]
    BY <2>2
  <2>4. block \in Seq(Nat) /\ Len(block) = n
    BY <2>1, <2>3, LenProperties
  <2> QED
    BY <2>1, <2>4
<1>5. /\ buf' \in Seq(Nat) /\ Len(buf') = Len(buf) + n
      /\ \A l \in 1 .. Len(buf) : buf'[l] = buf[l]
      /\ \A k \in 1 .. n : buf'[Len(buf) + k] = i + k - 1
  <2> HIDE DEF block, n
  <2>1. buf' = buf \o block
    BY <1>1 DEF block, n
  <2>2. /\ buf' \in Seq(Nat) /\ Len(buf') = Len(buf) + Len(block)
        /\ \A l \in 1 .. (Len(buf) + Len(block)) :
             buf'[l] = IF l <= Len(buf) THEN buf[l] ELSE block[l - Len(buf)]
    BY <1>2, <1>4, <2>1, ConcatProperties
  <2>3. \A l \in 1 .. Len(buf) : l \in 1 .. (Len(buf) + n) /\ l <= Len(buf)
    BY <1>2, <1>4
  <2>4. \A k \in 1 .. n : Len(buf) + k \in 1 .. (Len(buf) + n) /\ ~ (Len(buf) + k <= Len(buf)) /\ Len(buf) + k - Len(buf) = k
    BY <1>2, <1>4
  <2>5. \A l \in 1 .. Len(buf) : buf'[l] = buf[l]
    BY <1>4, <2>2, <2>3
  <2>6. \A k \in 1 .. n : buf'[Len(buf) + k] = block[k]
    <3> SUFFICES ASSUME NEW k \in 1 .. n PROVE buf'[Len(buf) + k] = block[k]
      OBVIOUS
    <3>1. PICK l : l = Len(buf) + k
      OBVIOUS
    <3>2. l \in 1 .. (Len(buf) + Len(block)) /\ ~ (l <= Len(buf)) /\ l - Len(buf) = k
      BY <1>4, <2>4, <3>1
    <3>3. buf'[l] = block[l - Len(buf)]
      BY <2>2, <3>2
    <3> QED
      BY <3>1, <3>2, <3>3
  <2> QED
    BY <1>4, <2>2, <2>5, <2>6
<1>6. \A k \in i .. m : ~ Terminates(file, k)
  BY <1>1, Here DEF Terminates
<1>7. \A l \in 1 .. Len(buf') : l > Len(buf) => buf'[l] \in i .. m
  <2> SUFFICES ASSUME NEW l \in 1 .. Len(buf'), l > Len(buf) PROVE buf'[l] \in i .. m
    OBVIOUS
  <2>1. PICK k \in 1 .. n : l = Len(buf) + k
    <3> HIDE DEF n
    <3>1. l - Len(buf) \in 1 .. n /\ l = Len(buf) + (l - Len(buf))
      BY <1>2, <1>4, <1>5
    <3> QED
      BY <3>1
  <2>2. buf'[l] = i + k - 1
    BY <1>5, <2>1
  <2>3. i + k - 1 \in i .. m
    BY <1>1, <1>2, SMTT(30)
  <2> QED
    BY <2>2, <2>3
<1>8. \A k \in i .. m : \E l \in 1 .. Len(buf') : buf'[l] = k
  <2> SUFFICES ASSUME NEW k \in i .. m PROVE \E l \in 1 .. Len(buf') : buf'[l] = k
    OBVIOUS
  <2>1. PICK j \in 1 .. n : j = k - i + 1
    BY <1>1, <1>2, SMTT(30)
  <2>2. buf'[Len(buf) + j] = k /\ Len(buf) + j \in 1 .. Len(buf')
    BY <1>2, <1>5, <2>1
  <2> QED
    BY <2>2
<1> HIDE DEF n, block
<1>9. Len(buf) <= Len(buf')
  BY <1>2, <1>4, <1>5
<1>12. \A k \in i .. m : Dropped(file, k) => dialect.dollarQuoting /\ InBlock(file, k)
  <2>1. dialect.dollarQuoting /\ file.dialect.dollarQuoting
    BY Here DEF DollarBlock
  <2>2. file.text[b[1]].t = "dollar" /\ file.text[b[2]].t = "dollar"
    BY <2>1, Here, BlockShape DEF Dollars
  <2> SUFFICES ASSUME NEW k \in i .. m, Dropped(file, k) PROVE b[1] < k /\ k < b[2]
    BY <2>1 DEF InBlock
  <2>3. k # i /\ k # m
    BY <1>1, <2>2 DEF Dropped
  <2> QED
    BY <1>1, <1>2, <2>3
<1>10. \A l \in 1 .. Len(buf') : l > Len(buf) =>
         /\ buf'[l] \in i .. (i' - 1)
         /\ Terminates(file, buf'[l]) => StartsRoutine(buf)
         /\ Dropped(file, buf'[l]) => dialect.dollarQuoting /\ InBlock(file, buf'[l])
  BY <1>3, <1>6, <1>7, <1>12
<1>11. \A k \in i .. (i' - 1) : Word(text[k]) => \E l \in 1 .. Len(buf') : buf'[l] = k
  BY <1>3, <1>8
<1> QED
  BY <1>2, <1>3, <1>5, <1>9, <1>10, <1>11, GrowsKeeps

\* Every step keeps the words in the statements.
LEMMA WordsNext == TextInv /\ WordsInv /\ [Next]_vars => WordsInv'
<1> SUFFICES ASSUME TextInv, WordsInv, [Next]_vars PROVE WordsInv'
  OBVIOUS
<1>1. CASE Next
  BY <1>1, WordsCut, WordsOwn, WordsBlock DEF Next
<1>2. CASE UNCHANGED vars
  BY <1>2 DEF vars, WordsInv, ApartInv, CoverInv, SeparatorInv, Clean, StartsRoutine, Tokens, text, Done
<1> QED
  BY <1>1, <1>2

\* In every reachable state the words are in the statements.
LEMMA WordsInvariant == Spec => []WordsInv
<1>1. TextInv /\ WordsInv /\ [Next]_vars => (TextInv /\ WordsInv)'
  BY TextNext, WordsNext
<1> QED
  BY <1>1, TextInit, WordsInit, PTL DEF Spec

-----------------------------------------------------------------------------
(* A table's piece of a statement. *)

\* Part of a sequence of tokens.
LEMMA PartOf ==
  ASSUME NEW toks \in Seq(Token), NEW s \in 1 .. Len(toks), NEW m \in s .. Len(toks)
  PROVE  /\ SubSeq(toks, s, m) \in Seq(Token) /\ Len(SubSeq(toks, s, m)) = m - s + 1
         /\ \A k \in 1 .. (m - s + 1) : SubSeq(toks, s, m)[k] = toks[s + k - 1]
<1>1. Len(toks) \in Nat /\ s \in Int /\ m \in Int /\ s <= m
  BY LenProperties
<1>2. \A k \in s .. m : k \in 1 .. Len(toks)
  BY <1>1
<1>3. \A k \in s .. m : toks[k] \in Token
  BY <1>2, ElementOfSeq
<1> QED
  BY <1>1, <1>3, SubSeqProperties

\* Two sequences that agree up to a place have the same depth there.
LEMMA SameDepth ==
  ASSUME NEW u, NEW v, NEW k \in Nat, \A j \in 1 .. (k - 1) : u[j] = v[j]
  PROVE  Depth(u, k) = Depth(v, k)
<1>1. /\ {j \in 1 .. (k - 1) : IsMark(u[j], "(")} = {j \in 1 .. (k - 1) : IsMark(v[j], "(")}
      /\ {j \in 1 .. (k - 1) : IsMark(u[j], ")")} = {j \in 1 .. (k - 1) : IsMark(v[j], ")")}
  OBVIOUS
<1> QED
  BY <1>1 DEF Depth

\* A number that is the least of a set is what Least chooses.
LEMMA LeastIs ==
  ASSUME NEW S \in SUBSET Nat, NEW n \in S, \A m \in S : n <= m
  PROVE  Least(S) = n
<1>1. Least(S) \in S /\ \A m \in S : Least(S) <= m
  BY LeastExists
<1>2. Least(S) \in Nat /\ n \in Nat /\ Least(S) <= n /\ n <= Least(S)
  BY <1>1
<1> QED
  BY <1>2

\* What a table opens with.
LEMMA TableOpens ==
  ASSUME NEW u \in Seq(Token)
  PROVE  IsTable(u) <=> /\ Len(u) >= 4 /\ WordIn(u[1], Create) /\ WordIn(u[2], {"TABLE"}) /\ IsMark(u[4], "(")
<1> DEFINE all == <<Create, {"TABLE"}>>
<1>1. Len(all) = 2 /\ DOMAIN all = 1 .. 2 /\ all[1] = Create /\ all[2] = {"TABLE"}
  OBVIOUS
<1>2. Len(u) \in Nat /\ DOMAIN u = 1 .. Len(u)
  BY LenProperties
<1>3. IsTable(u) <=> Opens(u, all) /\ IsMark(At(u, 4), "(")
  BY DEF IsTable
<1> HIDE DEF all
<1>4. Opens(u, all) <=> Len(u) >= 2 /\ WordIn(u[1], Create) /\ WordIn(u[2], {"TABLE"})
  BY <1>1 DEF Opens, WordIn, Word
<1>5. IsMark(At(u, 4), "(") <=> Len(u) >= 4 /\ IsMark(u[4], "(")
  <2>1. CASE Len(u) >= 4
    <3>1. At(u, 4) = u[4]
      BY <1>2, <2>1 DEF At
    <3> QED
      BY <2>1, <3>1
  <2>2. CASE ~ (Len(u) >= 4)
    <3>1. At(u, 4).t = "end"
      BY <1>2, <2>2 DEF At
    <3> QED
      BY <2>2, <3>1 DEF IsMark, Is
  <2> QED
    BY <2>1, <2>2
<1> QED
  BY <1>2, <1>3, <1>4, <1>5

\* Where the parenthesis closes.
LEMMA ClosesAt ==
  ASSUME NEW u \in Seq(Token)
  PROVE  LET closing(k) == k \in 5 .. Len(u) /\ IsMark(u[k], ")") /\ Depth(u, k) = Depth(u, 4) + 1
         IN  \/ Close(u, 4) = 0 /\ \A k \in Nat : ~ closing(k)
             \/ closing(Close(u, 4)) /\ \A k \in 5 .. (Close(u, 4) - 1) : ~ closing(k)
<1> DEFINE closing(k) == k \in 5 .. Len(u) /\ IsMark(u[k], ")") /\ Depth(u, k) = Depth(u, 4) + 1
           all == {k \in (4 + 1) .. Len(u) : IsMark(u[k], ")") /\ Depth(u, k) = Depth(u, 4) + 1}
<1>1. Close(u, 4) = IF all = {} THEN 0 ELSE Least(all)
  BY DEF Close
<1>2. Len(u) \in Nat /\ \A k : k \in all <=> closing(k)
  BY LenProperties
<1>3. all \in SUBSET Nat
  BY <1>2
<1> HIDE DEF all, closing
<1>4. CASE all = {}
  BY <1>1, <1>2, <1>4 DEF closing
<1>5. CASE all # {}
  <2>1. Close(u, 4) \in all /\ \A k \in all : Close(u, 4) <= k
    BY <1>1, <1>3, <1>5, LeastExists, ZenonT(40)
  <2>2. closing(Close(u, 4)) /\ \A k \in 5 .. (Close(u, 4) - 1) : ~ closing(k)
    <3>1. \A k \in 5 .. (Close(u, 4) - 1) : ~ (Close(u, 4) <= k)
      <4>1. PICK c \in Nat : c = Close(u, 4)
        BY <1>3, <2>1
      <4>2. \A k \in 5 .. (c - 1) : ~ (c <= k)
        BY <4>1
      <4> QED
        BY <4>1, <4>2
    <3> QED
      BY <1>2, <2>1, <3>1
  <2> QED
    BY <2>2 DEF closing
<1> QED
  BY <1>4, <1>5

\* Where a statement begins right after a table that is shaped as one, it is run onto it.
LEMMA RunsOnto ==
  ASSUME NEW own \in Seq(Token), NEW v \in Seq(Token), Len(v) < Len(own), \A k \in 1 .. Len(v) : own[k] = v[k],
         IsTable(v), NEW body \in DOMAIN v, Close(v, 4) = body, StatementHeads(v, body + 1) = {},
         Depth(v, Len(v) + 1) = Depth(v, body + 1), WordIn(own[Len(v) + 1], Create)
  PROVE  /\ IsTable(own) /\ Close(own, 4) = body
         /\ Len(v) + 1 \in StatementHeads(own, body + 1)
         /\ \A k \in StatementHeads(own, body + 1) : Len(v) + 1 <= k
<1>1. PICK n, N \in Nat : n = Len(v) /\ N = Len(own) /\ n < N /\ DOMAIN v = 1 .. n
  BY LenProperties
<1>2. n >= 4 /\ body \in 1 .. n /\ body \in Nat
  <2>1. n >= 4
    BY <1>1, TableOpens
  <2> QED
    BY <1>1, <2>1
<1>3. \A k \in 1 .. (n + 1) : Depth(own, k) = Depth(v, k)
  <2> SUFFICES ASSUME NEW k \in 1 .. (n + 1) PROVE Depth(own, k) = Depth(v, k)
    OBVIOUS
  <2>1. k \in Nat /\ \A j \in 1 .. (k - 1) : j \in 1 .. n
    BY <1>1
  <2>2. \A j \in 1 .. (k - 1) : own[j] = v[j]
    BY <1>1, <2>1
  <2> QED
    BY <2>1, <2>2, SameDepth
<1>4. IsTable(own)
  <2>1. 1 \in 1 .. n /\ 2 \in 1 .. n /\ 4 \in 1 .. n /\ N >= 4
    BY <1>1, <1>2
  <2>2. own[1] = v[1] /\ own[2] = v[2] /\ own[4] = v[4]
    BY <1>1, <2>1
  <2> QED
    BY <1>1, <2>1, <2>2, TableOpens
<1> DEFINE closing(u, k) == k \in 5 .. Len(u) /\ IsMark(u[k], ")") /\ Depth(u, k) = Depth(u, 4) + 1
<1>5. \A k \in 1 .. n : closing(own, k) <=> closing(v, k)
  <2>1. 4 \in 1 .. (n + 1) /\ \A k \in 1 .. n : k \in 1 .. (n + 1) /\ k \in 1 .. N
    BY <1>1, <1>2
  <2>2. \A k \in 1 .. n : Depth(own, k) = Depth(v, k) /\ Depth(own, 4) = Depth(v, 4) /\ own[k] = v[k]
    BY <1>1, <1>3, <2>1
  <2>3. \A k \in 1 .. n : k \in 5 .. Len(v) <=> k \in 5 .. Len(own)
    BY <1>1
  <2> QED
    BY <2>2, <2>3
<1>6. closing(v, body) /\ \A k \in 5 .. (body - 1) : ~ closing(v, k)
  <2>1. body # 0
    BY <1>2
  <2> QED
    BY <2>1, ClosesAt
<1>7. \/ Close(own, 4) = 0 /\ \A k \in Nat : ~ closing(own, k)
      \/ closing(own, Close(own, 4)) /\ \A k \in 5 .. (Close(own, 4) - 1) : ~ closing(own, k)
  BY ClosesAt
<1>8. Close(own, 4) = body
  <2> HIDE DEF closing
  <2>1. closing(own, body)
    BY <1>2, <1>5, <1>6
  <2>2. closing(own, Close(own, 4)) /\ \A k \in 5 .. (Close(own, 4) - 1) : ~ closing(own, k)
    BY <1>2, <1>7, <2>1
  <2>3. PICK c : c = Close(own, 4)
    OBVIOUS
  <2>4. c \in 5 .. N /\ body \in 5 .. n
    BY <1>1, <1>6, <2>2, <2>3 DEF closing
  <2>5. ~ (body < c)
    <3>1. body < c => body \in 5 .. (c - 1)
      BY <2>4
    <3> QED
      BY <2>1, <2>2, <2>3, <3>1
  <2>6. ~ (c < body)
    <3>1. c < body => c \in 5 .. (body - 1) /\ c \in 1 .. n
      BY <1>2, <2>4
    <3> QED
      BY <1>5, <1>6, <2>2, <2>3, <3>1
  <2> QED
    BY <2>3, <2>4, <2>5, <2>6
<1>9. Len(v) + 1 \in StatementHeads(own, body + 1)
  <2>1. n + 1 \in (body + 1) .. N /\ body + 1 \in 1 .. (n + 1) /\ n + 1 \in 1 .. (n + 1)
    BY <1>1, <1>2
  <2>2. Depth(own, n + 1) = Depth(own, body + 1)
    BY <1>1, <1>3, <2>1
  <2>3. Word(own[n + 1]) /\ own[n + 1].w[1] \in runOnHeads
    BY <1>1 DEF WordIn, Create, runOnHeads
  <2> QED
    BY <1>1, <2>1, <2>2, <2>3 DEF StatementHeads
<1>10. \A k \in StatementHeads(own, body + 1) : Len(v) + 1 <= k
  <2> SUFFICES ASSUME NEW k \in StatementHeads(own, body + 1), ~ (n + 1 <= k) PROVE FALSE
    BY <1>1
  <2>1. /\ k \in (body + 1) .. N /\ Word(own[k]) /\ own[k].w[1] \in runOnHeads
        /\ Depth(own, k) = Depth(own, body + 1)
    BY <1>1 DEF StatementHeads
  <2>2. k \in 1 .. n /\ k \in (body + 1) .. n /\ k \in 1 .. (n + 1) /\ body + 1 \in 1 .. (n + 1)
    BY <1>1, <1>2, <2>1
  <2>3. own[k] = v[k] /\ Depth(v, k) = Depth(v, body + 1)
    BY <1>1, <1>3, <2>1, <2>2
  <2>4. k \in StatementHeads(v, body + 1)
    BY <1>1, <2>1, <2>2, <2>3 DEF StatementHeads
  <2> QED
    BY <2>4
<1> QED
  BY <1>4, <1>8, <1>9, <1>10

\* And begins the next piece.
LEMMA RunOnNext ==
  ASSUME NEW toks \in Seq(Token), NEW s \in 1 .. Len(toks), NEW own, own = SubSeq(toks, s, Len(toks)),
         NEW n \in Nat, NEW body \in Nat \ {0}, IsTable(own), Close(own, 4) = body,
         n + 1 \in StatementHeads(own, body + 1), \A k \in StatementHeads(own, body + 1) : n + 1 <= k
  PROVE  RunOn(toks, s) = s + n
<1> DEFINE heads == StatementHeads(own, body + 1)
<1>1. own \in Seq(Token) /\ Len(own) \in Nat
  <2>1. Len(toks) \in s .. Len(toks)
    BY LenProperties
  <2> QED
    BY <2>1, PartOf, LenProperties
<1>2. heads \in SUBSET Nat
  BY <1>1, SMTT(30) DEF StatementHeads
<1>3. RunOn(toks, s) = IF heads = {} THEN 0 ELSE s - 1 + Least(heads)
  BY DEF RunOn
<1> HIDE DEF heads
<1>4. Least(heads) = n + 1 /\ heads # {}
  <2>1. n + 1 \in heads /\ \A k \in heads : n + 1 <= k
    BY DEF heads
  <2> QED
    BY <1>2, <2>1, LeastIs
<1>5. s - 1 + (n + 1) = s + n
  OBVIOUS
<1> QED
  BY <1>3, <1>4, <1>5

\* Where a piece ends, and the piece.
EndOf(toks, s) == IF RunOn(toks, s) = 0 THEN Len(toks) ELSE RunOn(toks, s) - 1
PieceFrom(st, s) ==
  LET toks == Tokens(st.toks)
  IN  [toks |-> SubSeq(toks, s, EndOf(toks, s)), at |-> st.toks[s], places |-> SubSeq(st.toks, s, EndOf(toks, s)),
       term |-> st.term, quotedBlockSeen |-> st.quotedBlockSeen]

\* The pieces of a statement are what is from each start to its end.
LEMMA PiecesAre ==
  ASSUME NEW st, Tokens(st.toks) \in Seq(Token), Tokens(st.toks) # << >>
  PROVE  Pieces(st) = {PieceFrom(st, s) : s \in PieceStarts(Tokens(st.toks))}
<1> DEFINE toks == Tokens(st.toks)
           starts == PieceStarts(toks)
           later(s) == {r \in starts : r > s}
           end(s) == IF later(s) = {} THEN Len(toks) ELSE Least(later(s)) - 1
           Piece(s, m) == [toks |-> SubSeq(toks, s, m), at |-> st.toks[s], places |-> SubSeq(st.toks, s, m),
                           term |-> st.term, quotedBlockSeen |-> st.quotedBlockSeen]
<1>1. Pieces(st) = {Piece(s, end(s)) : s \in starts}
  BY DEF Pieces
<1>2. ASSUME NEW s \in starts PROVE end(s) = EndOf(toks, s)
  <2>1. /\ starts \subseteq 1 .. Len(toks)
        /\ RunOn(toks, s) = 0 => \A r \in starts : r <= s
        /\ RunOn(toks, s) # 0 => RunOn(toks, s) \in starts /\ \A r \in starts : r <= s \/ RunOn(toks, s) <= r
    BY LastPiece
  <2> HIDE DEF toks, starts
  <2>2. Len(toks) \in Nat /\ \A r \in starts : r \in Nat
    <3>1. Len(toks) \in Nat
      BY LenProperties DEF toks
    <3> QED
      BY <2>1, <3>1
  <2>3. CASE RunOn(toks, s) = 0
    <3>1. later(s) = {}
      <4>1. \A r \in starts : r <= s /\ r \in Nat /\ s \in Nat
        BY <2>1, <2>2, <2>3
      <4>2. \A r \in starts : ~ (r > s)
        BY <4>1
      <4> QED
        BY <4>2
    <3> QED
      BY <2>3, <3>1 DEF EndOf
  <2>4. CASE RunOn(toks, s) # 0
    <3>1. PICK r \in starts : r = RunOn(toks, s)
      BY <2>1, <2>4
    <3>2. r > s
      <4>1. s \in 1 .. Len(toks)
        BY <2>1
      <4>2. RunOn(toks, s) = 0 \/ RunOn(toks, s) \in (s + 1) .. Len(toks)
        BY <4>1, RunsOnLater DEF toks
      <4> QED
        BY <2>2, <2>4, <3>1, <4>2
    <3>3. r \in later(s) /\ later(s) \in SUBSET Nat /\ \A m \in later(s) : r <= m
      <4>1. \A m \in starts : m \in Nat /\ s \in Nat /\ (m <= s \/ r <= m)
        BY <2>1, <2>2, <2>4, <3>1
      <4>2. \A m \in starts : m > s => r <= m
        BY <4>1
      <4> QED
        BY <3>2, <4>1, <4>2
    <3> HIDE DEF later
    <3>4. Least(later(s)) = r /\ later(s) # {}
      BY <3>3, LeastIs
    <3> QED
      BY <2>4, <3>1, <3>4 DEF EndOf
  <2> QED
    BY <2>3, <2>4
<1>3. \A s \in starts : Piece(s, end(s)) = PieceFrom(st, s)
  <2> HIDE DEF end, starts
  <2> QED
    BY <1>2 DEF PieceFrom
<1> HIDE DEF Piece, end, starts
<1>4. {Piece(s, end(s)) : s \in starts} = {PieceFrom(st, s) : s \in starts}
  BY <1>3
<1> QED
  BY <1>1, <1>4 DEF starts

\* A piece is a table when what is left of its statement is.
LEMMA PieceTable ==
  ASSUME NEW toks \in Seq(Token), NEW s \in 1 .. Len(toks)
  PROVE  /\ EndOf(toks, s) \in s .. Len(toks)
         /\ IsTable(SubSeq(toks, s, EndOf(toks, s))) <=> IsTable(SubSeq(toks, s, Len(toks)))
<1> DEFINE own == SubSeq(toks, s, Len(toks))
<1>1. PICK N \in Nat : N = Len(toks) /\ s \in 1 .. N
  BY LenProperties
<1>2. own \in Seq(Token) /\ Len(own) = N - s + 1 /\ \A k \in 1 .. (N - s + 1) : own[k] = toks[s + k - 1]
  <2>1. N \in s .. Len(toks)
    BY <1>1
  <2> QED
    BY <1>1, <2>1, PartOf
<1>3. CASE RunOn(toks, s) = 0
  BY <1>1, <1>3 DEF EndOf
<1>4. CASE RunOn(toks, s) # 0
  <2> DEFINE body == IF IsTable(own) THEN Close(own, 4) ELSE 0
             tail == IF body = 0 THEN {} ELSE StatementHeads(own, body + 1)
  <2>1. RunOn(toks, s) = IF tail = {} THEN 0 ELSE s - 1 + Least(tail)
    BY DEF RunOn
  <2>2. tail # {} /\ RunOn(toks, s) = s - 1 + Least(tail)
    BY <1>4, <2>1
  <2> HIDE DEF own
  <2>3. IsTable(own) /\ Close(own, 4) # 0 /\ tail = StatementHeads(own, Close(own, 4) + 1)
    BY <2>2
  <2>4. Close(own, 4) \in 5 .. Len(own)
    BY <1>2, <2>3, ClosesAt
  <2>5. tail \in SUBSET Nat /\ \A k \in tail : k \in 6 .. Len(own)
    <3>1. PICK c \in 5 .. Len(own) : c = Close(own, 4)
      BY <2>4
    <3>2. \A k \in tail : k \in (c + 1) .. Len(own)
      BY <2>3, <3>1 DEF StatementHeads
    <3> HIDE DEF tail
    <3> QED
      BY <1>1, <1>2, <3>2, SMTT(30)
  <2> HIDE DEF tail
  <2>6. PICK r \in 6 .. Len(own) : r = Least(tail)
    BY <2>2, <2>5, LeastExists
  <2>7. PICK m \in s .. N : m = EndOf(toks, s) /\ m >= s + 4
    <3>1. EndOf(toks, s) = s - 1 + r - 1
      BY <1>1, <1>4, <2>2, <2>6 DEF EndOf
    <3>2. s - 1 + r - 1 \in s .. N /\ s - 1 + r - 1 >= s + 4
      BY <1>1, <1>2, <2>6, SMTT(30)
    <3> QED
      BY <3>1, <3>2
  <2> DEFINE part == SubSeq(toks, s, m)
  <2>8. part \in Seq(Token) /\ Len(part) = m - s + 1 /\ \A k \in 1 .. (m - s + 1) : part[k] = toks[s + k - 1]
    BY <1>1, PartOf
  <2> HIDE DEF part
  <2>9. Len(part) >= 4 /\ \A k \in 1 .. 4 : k \in 1 .. (m - s + 1) /\ k \in 1 .. (N - s + 1)
    BY <1>1, <2>7, <2>8, SMTT(30)
  <2>10. part[1] = own[1] /\ part[2] = own[2] /\ part[4] = own[4]
    <3>1. \A k \in 1 .. 4 : part[k] = own[k]
      BY <1>2, <2>8, <2>9
    <3> QED
      BY <3>1
  <2>11. IsTable(part)
    BY <1>2, <2>3, <2>8, <2>9, <2>10, TableOpens
  <2> QED
    BY <1>1, <2>3, <2>7, <2>11 DEF part, own
<1> QED
  BY <1>3, <1>4

\* A table's head.
LEMMA TableHead ==
  ASSUME NEW u \in Seq(Token), IsTable(u)
  PROVE  HeadOf(u, {"TABLE"})
<1>1. Len(u) >= 4 /\ Len(u) \in Nat /\ WordIn(u[1], Create) /\ WordIn(u[2], {"TABLE"})
  BY TableOpens, LenProperties
<1> QED
  BY <1>1 DEF HeadOf

-----------------------------------------------------------------------------
(* No table is made up. *)

\* What is known of a statement that was cut off.
LEMMA StatementOf ==
  ASSUME TextInv, NEW x \in DOMAIN out, NEW q, q = out[x].toks
  PROVE  /\ \E a, e \in Nat \ {0} : StartsAt(file, a) /\ Holds(file, q, a, e) /\ EndsAt(file, out[x], e)
         /\ q \in Seq(Nat) /\ Len(q) \in Nat \ {0} /\ DOMAIN q = 1 .. Len(q) /\ \A k \in 1 .. Len(q) : q[k] \in DOMAIN text
         /\ Tokens(q) \in Seq(Token) /\ Len(Tokens(q)) = Len(q) /\ Tokens(q) # << >>
         /\ \A k \in 1 .. Len(q) : Tokens(q)[k] = text[q[k]]
<1>1. file \in Source /\ text = file.text /\ Cut(file, out[x])
  BY Here DEF TextInv, OutInv
<1>2. PICK a, e \in 1 .. (Len(file.text) + 1) :
        StartsAt(file, a) /\ Holds(file, q, a, e) /\ EndsAt(file, out[x], e)
  BY <1>1 DEF Cut
<1>3. a \in Nat \ {0} /\ e \in Nat \ {0}
  BY <1>1, <1>2, Here
<1>4. /\ Tokens(q) \in Seq(Token) /\ Len(Tokens(q)) = Len(q) /\ Len(q) \in Nat /\ DOMAIN q = 1 .. Len(q)
      /\ \A k \in 1 .. Len(q) : Tokens(q)[k] = text[q[k]]
  BY <1>1, <1>2, StatementTokens
<1>5. q \in Seq(Nat) /\ q # << >>
  BY <1>1, <1>2 DEF Cut, Holds
<1>6. Len(q) # 0 /\ Tokens(q) # << >>
  BY <1>4, <1>5, EmptySeq
<1>7. \A k \in 1 .. Len(q) : q[k] \in DOMAIN text
  BY <1>1, <1>2, <1>4 DEF Holds
<1> QED
  BY <1>2, <1>3, <1>4, <1>5, <1>6, <1>7

\* A table is a piece of some statement, and has a table's head in the file.
LEMMA TableAt ==
  ASSUME TextInv, NEW p \in Tables
  PROVE  \E x \in DOMAIN out : \E s \in PieceStarts(Tokens(out[x].toks)) :
           /\ s \in 1 .. Len(out[x].toks) /\ p = PieceFrom(out[x], s) /\ p.at = out[x].toks[s] /\ p.at \in DOMAIN text
           /\ IsTable(SubSeq(Tokens(out[x].toks), s, Len(out[x].toks)))
           /\ HeadAt(text, p.at, {"TABLE"})
<1>1. PICK x \in DOMAIN out : p \in Pieces(out[x])
  BY DEF Tables, Applied
<1> DEFINE q == out[x].toks
           toks == Tokens(q)
<1>2. /\ \E a, e \in Nat \ {0} : StartsAt(file, a) /\ Holds(file, q, a, e)
      /\ q \in Seq(Nat) /\ Len(q) \in Nat \ {0} /\ DOMAIN q = 1 .. Len(q) /\ \A k \in 1 .. Len(q) : q[k] \in DOMAIN text
      /\ toks \in Seq(Token) /\ Len(toks) = Len(q) /\ toks # << >>
  BY StatementOf
<1>3. PICK s \in PieceStarts(toks) : p = PieceFrom(out[x], s)
  BY <1>1, <1>2, PiecesAre
<1>4. p.at = q[s] /\ p.toks = SubSeq(toks, s, EndOf(toks, s)) /\ IsTable(p.toks)
  BY <1>3 DEF PieceFrom, Tables
<1>5. s \in 1 .. Len(q)
  BY <1>2, LastPiece
<1>6. IsTable(SubSeq(toks, s, Len(q))) /\ SubSeq(toks, s, Len(q)) \in Seq(Token)
  <2>1. s \in 1 .. Len(toks) /\ Len(toks) \in s .. Len(toks)
    BY <1>2, <1>5
  <2> HIDE DEF toks
  <2> QED
    BY <1>2, <1>4, <2>1, PieceTable, PartOf
<1>7. HeadOf(SubSeq(toks, s, Len(q)), {"TABLE"})
  BY <1>6, TableHead
<1>8. HeadAt(text, q[s], {"TABLE"})
  BY <1>2, <1>5, <1>7, Here, HeadInText
<1> QED
  BY <1>2, <1>3, <1>4, <1>5, <1>6, <1>8

\* A place of the file is in one place of one statement.
LEMMA SamePlace ==
  ASSUME TextInv, WordsInv, NEW x \in DOMAIN out, NEW y \in DOMAIN out,
         NEW l \in DOMAIN out[x].toks, NEW k \in DOMAIN out[y].toks, out[x].toks[l] = out[y].toks[k]
  PROVE  x = y /\ l = k
<1>1. PICK n \in Nat : n = out[x].toks[l]
  <2>1. out[x].toks \in Seq(Nat)
    BY StatementOf
  <2> QED
    BY <2>1
<1>2. ~ (n < n)
  BY <1>1
<1>3. x \in Nat /\ y \in Nat
  <2>1. DOMAIN out = 1 .. Len(out) /\ Len(out) \in Nat
    BY LenProperties DEF TextInv, TextTypeOK
  <2> QED
    BY <2>1
<1>4. x = y
  <2>1. \A u, v \in DOMAIN out : u < v => Earlier(out[u].toks, out[v].toks)
    BY DEF WordsInv, ApartInv
  <2>2. ~ (x < y)
    BY <1>1, <1>2, <2>1 DEF Earlier
  <2>3. ~ (y < x)
    BY <1>1, <1>2, <2>1 DEF Earlier
  <2> QED
    BY <1>3, <2>2, <2>3
<1>5. l = k
  <2>1. /\ \A u, v \in DOMAIN out[x].toks : u < v => out[x].toks[u] < out[x].toks[v]
        /\ DOMAIN out[x].toks = 1 .. Len(out[x].toks) /\ Len(out[x].toks) \in Nat
    BY StatementOf DEF Holds
  <2>2. l \in Nat /\ k \in Nat /\ k \in DOMAIN out[x].toks
    BY <1>4, <2>1
  <2>3. ~ (l < k) /\ ~ (k < l)
    BY <1>1, <1>2, <1>4, <2>1, <2>2
  <2> QED
    BY <2>2, <2>3
<1> QED
  BY <1>4, <1>5

\* Every table that is read is one, or comes from a body that is known not to be whole.
LEMMA NoTableMadeUp ==
  ASSUME TextInv, WordsInv, NEW p \in Tables
  PROVE  Construct(p).kind = "table" \/ FallsApart(text[p.at].of)
<1>0. PICK x \in DOMAIN out : \E s \in PieceStarts(Tokens(out[x].toks)) :
        /\ s \in 1 .. Len(out[x].toks) /\ p.at = out[x].toks[s] /\ p.at \in DOMAIN text
        /\ IsTable(SubSeq(Tokens(out[x].toks), s, Len(out[x].toks)))
        /\ HeadAt(text, p.at, {"TABLE"})
  BY TableAt
<1>1. PICK s \in PieceStarts(Tokens(out[x].toks)) :
        /\ s \in 1 .. Len(out[x].toks) /\ p.at = out[x].toks[s] /\ p.at \in DOMAIN text
        /\ IsTable(SubSeq(Tokens(out[x].toks), s, Len(out[x].toks)))
        /\ HeadAt(text, p.at, {"TABLE"})
  BY <1>0
<1>2. BeginsA(file, p.at, "table") \/ IsRoutineText(file, p.at)
  BY <1>1, Here, SourceText DEF HeadsBegin
<1>3. CASE BeginsA(file, p.at, "table")
  BY <1>3, Here DEF BeginsA, Construct, written
<1>4. CASE IsRoutineText(file, p.at)
  <2> SUFFICES ASSUME NEW r \in Procedures \cup Triggers, text[r.at].of = text[p.at].of,
                      RoutineComplete(r), ~ MistakenForWhole(r)
               PROVE  FALSE
    BY DEF FallsApart
  <2>1. TokensOf(text[p.at].of) \subseteq ToSet(r.places)
    <3>1. IF IsRoutine(r.toks) THEN RoutineComplete(r) ELSE TriggerComplete(r)
      BY DEF TriggerComplete
    <3> QED
      BY <3>1, CompleteIsWhole DEF CompleteBodiesAreWhole
  <2>2. p.at \in ToSet(r.places)
    <3>1. text[p.at].t = "word"
      BY <1>1 DEF HeadAt, WordAt, Word, At
    <3>2. ~ IsComment(text[p.at])
      BY <3>1 DEF IsComment
    <3> QED
      BY <1>1, <2>1, <3>2 DEF TokensOf
  <2>3. PICK words \in {{"FUNCTION", "PROCEDURE"}, {"TRIGGER"}} : HeadOf(r.toks, words)
    BY RoutineHasHead DEF Procedures, Triggers
  <2>4. PICK y \in DOMAIN out : r \in Pieces(out[y])
    BY DEF Procedures, Triggers, Applied
  <2> DEFINE q == out[y].toks
             toks == Tokens(q)
  <2>5. /\ q \in Seq(Nat) /\ Len(q) \in Nat \ {0} /\ DOMAIN q = 1 .. Len(q)
        /\ toks \in Seq(Token) /\ Len(toks) = Len(q) /\ toks # << >>
    BY StatementOf
  <2>6. PICK b \in 1 .. Len(q) :
          /\ b \in PieceStarts(toks) /\ RunOn(toks, b) = 0
          /\ r.places = SubSeq(q, b, Len(q)) /\ HeadOf(SubSeq(toks, b, Len(q)), words)
    <3>1. PICK st : st = out[y]
      OBVIOUS
    <3>2. /\ r \in Pieces(st) /\ Len(st.toks) \in Nat \ {0}
          /\ Tokens(st.toks) \in Seq(Token) /\ Len(Tokens(st.toks)) = Len(st.toks)
      BY <2>4, <2>5, <3>1
    <3>3. \E b \in 1 .. Len(st.toks) :
            /\ b \in PieceStarts(Tokens(st.toks)) /\ RunOn(Tokens(st.toks), b) = 0
            /\ r.at = st.toks[b] /\ r.places = SubSeq(st.toks, b, Len(st.toks))
            /\ r.term = st.term /\ r.quotedBlockSeen = st.quotedBlockSeen
            /\ HeadOf(SubSeq(Tokens(st.toks), b, Len(st.toks)), words)
      BY <2>3, <3>2, PieceShape, ZenonT(40)
    <3> QED
      BY <3>1, <3>3
  <2>7. PICK k \in b .. Len(q) : q[k] = p.at
    <3>1. ToSet(r.places) = {q[k] : k \in b .. Len(q)}
      BY <2>5, <2>6, PlacesFrom
    <3> QED
      BY <2>2, <3>1
  <2>8. x = y /\ s = k
    <3>1. k \in DOMAIN out[y].toks /\ s \in DOMAIN out[x].toks
      <4>1. DOMAIN out[x].toks = 1 .. Len(out[x].toks)
        BY StatementOf
      <4>2. k \in 1 .. Len(q)
        BY <2>5, <2>7
      <4> QED
        BY <1>1, <2>5, <4>1, <4>2
    <3>2. out[x].toks[s] = out[y].toks[k]
      BY <1>1, <2>7
    <3> QED
      BY <3>1, <3>2, SamePlace
  <2>9. s = b
    <3>1. s \in PieceStarts(toks) /\ s \in b .. Len(q)
      BY <1>1, <2>7, <2>8
    <3>2. \A n \in PieceStarts(toks) : n <= b
      BY <2>5, <2>6, LastPiece
    <3> QED
      BY <2>5, <3>1, <3>2
  <2>10. HeadOf(SubSeq(Tokens(out[x].toks), s, Len(out[x].toks)), words)
    BY <2>6, <2>8, <2>9
  <2> QED
    BY <1>1, <2>10, TableHasNoHead
<1> QED
  BY <1>2, <1>3, <1>4

-----------------------------------------------------------------------------
(* The words of a table in its statement. *)

\* n numbers of a sequence from a place on.
From(q, b, n) == {q[b + y - 1] : y \in 1 .. n}
Rising(q, b, n) ==
  /\ \A y \in 1 .. n : q[b + y - 1] \in Nat
  /\ \A y, z \in 1 .. n : y < z => q[b + y - 1] < q[b + z - 1]

\* There are as many of them.
LEMMA Numbered ==
  ASSUME NEW q, NEW b \in Nat, NEW n \in Nat, Rising(q, b, n)
  PROVE  IsFiniteSet(From(q, b, n)) /\ Cardinality(From(q, b, n)) = n
<1> DEFINE S == {q[b + y - 1] : y \in 1 .. n}
           f == [y \in 1 .. n |-> q[b + y - 1]]
<1>1. \A y \in 1 .. n : f[y] = q[b + y - 1] /\ f[y] \in Nat
  BY DEF Rising
<1>2. f \in [1 .. n -> S]
  OBVIOUS
<1>3. \A y, z \in 1 .. n : f[y] = f[z] => y = z
  <2> HIDE DEF f
  <2> SUFFICES ASSUME NEW y \in 1 .. n, NEW z \in 1 .. n, f[y] = f[z], y # z PROVE FALSE
    OBVIOUS
  <2>1. y < z \/ z < y
    OBVIOUS
  <2>2. f[y] < f[z] \/ f[z] < f[y]
    BY <1>1, <2>1 DEF Rising
  <2> QED
    BY <1>1, <2>2
<1>4. \A t \in S : \E y \in 1 .. n : f[y] = t
  BY <1>1
<1> HIDE DEF f, S
<1>5. f \in Bijection(1 .. n, S)
  <2>1. f \in Injection(1 .. n, S)
    BY <1>2, <1>3 DEF Injection, IsInjective
  <2>2. f \in Surjection(1 .. n, S)
    BY <1>2, <1>4 DEF Surjection
  <2> QED
    BY <2>1, <2>2 DEF Bijection
<1>6. IsFiniteSet(1 .. n) /\ Cardinality(1 .. n) = n
  <2>1. 1 \in Int /\ n \in Int
    OBVIOUS
  <2>2. IsFiniteSet(1 .. n) /\ Cardinality(1 .. n) = IF 1 > n THEN 0 ELSE n - 1 + 1
    BY <2>1, FS_Interval
  <2> QED
    BY <2>2
<1>7. IsFiniteSet(S) /\ Cardinality(S) = n
  BY <1>5, <1>6, FS_Bijection DEF ExistsBijection
<1> QED
  BY <1>7 DEF S, From

\* Each of some numbers is one of the first, the second, ...
LEMMA NthOf ==
  ASSUME NEW S \in SUBSET Nat, IsFiniteSet(S), NEW k \in S, NEW n, Cardinality({j \in S : j <= k}) = n
  PROVE  Nth(S, n) = k /\ n \in 1 .. Cardinality(S)
<1> DEFINE upto(m) == {j \in S : j <= m}
<1>1. \A m \in S : upto(m) \in SUBSET S /\ IsFiniteSet(upto(m)) /\ Cardinality(upto(m)) \in Nat
  BY FS_Subset, FS_CardinalityType
<1>2. \A m \in S : Cardinality(upto(m)) <= Cardinality(S)
  BY <1>1, FS_Subset
<1>3. Cardinality(upto(k)) # 0
  <2>1. k \in upto(k)
    OBVIOUS
  <2> HIDE DEF upto
  <2> QED
    BY <1>1, <2>1, FS_EmptySet
<1>4. ASSUME NEW l \in S, NEW m \in S, l < m PROVE Cardinality(upto(l)) # Cardinality(upto(m))
  <2>1. upto(l) \in SUBSET upto(m) /\ m \in upto(m) /\ m \notin upto(l)
    <3>1. \A j \in S : j <= l => j <= m
      BY <1>4
    <3>2. ~ (m <= l) /\ m <= m
      BY <1>4
    <3> QED
      BY <3>1, <3>2
  <2> HIDE DEF upto
  <2> QED
    BY <1>1, <2>1, FS_Subset
<1>5. n = Cardinality(upto(k))
  OBVIOUS
<1>6. Nth(S, n) = CHOOSE m \in S : Cardinality(upto(m)) = n
  BY DEF Nth
<1> HIDE DEF upto
<1>7. \A m \in S : Cardinality(upto(m)) = n => m = k
  <2> SUFFICES ASSUME NEW m \in S, Cardinality(upto(m)) = n, m # k PROVE FALSE
    OBVIOUS
  <2>1. m < k \/ k < m
    OBVIOUS
  <2> QED
    BY <1>4, <1>5, <2>1
<1>8. Cardinality(S) \in Nat
  BY FS_CardinalityType
<1> QED
  BY <1>1, <1>2, <1>3, <1>5, <1>6, <1>7, <1>8

\* The numbers of a rising sequence in order.
LEMMA Enumerated ==
  ASSUME NEW q, NEW b \in Nat, NEW n \in Nat, Rising(q, b, n), NEW S, S = From(q, b, n)
  PROVE  /\ S \in SUBSET Nat /\ IsFiniteSet(S) /\ Cardinality(S) = n
         /\ \A y \in 1 .. n : Nth(S, y) = q[b + y - 1]
<1>1. S \in SUBSET Nat /\ IsFiniteSet(S) /\ Cardinality(S) = n
  <2>1. S \in SUBSET Nat
    BY DEF From, Rising
  <2> QED
    BY <2>1, Numbered
<1>2. ASSUME NEW y \in 1 .. n PROVE Nth(S, y) = q[b + y - 1]
  <2>1. {j \in S : j <= q[b + y - 1]} = From(q, b, y)
    <3>1. ASSUME NEW z \in 1 .. n PROVE q[b + z - 1] <= q[b + y - 1] <=> z \in 1 .. y
      <4>1. z < y \/ z = y \/ y < z
        OBVIOUS
      <4>2. y < z => q[b + y - 1] < q[b + z - 1]
        BY DEF Rising
      <4>3. z < y => q[b + z - 1] < q[b + y - 1]
        BY DEF Rising
      <4>4. PICK u, v \in Nat : u = q[b + z - 1] /\ v = q[b + y - 1]
        BY DEF Rising
      <4> QED
        BY <4>1, <4>2, <4>3, <4>4
    <3>2. \A z \in 1 .. y : z \in 1 .. n
      OBVIOUS
    <3>3. \A k \in S : k <= q[b + y - 1] => \E z \in 1 .. y : k = q[b + z - 1]
      BY <3>1 DEF From
    <3>4. \A z \in 1 .. y : q[b + z - 1] \in S /\ q[b + z - 1] <= q[b + y - 1]
      BY <3>1, <3>2 DEF From
    <3> QED
      BY <3>3, <3>4 DEF From
  <2>2. Cardinality(From(q, b, y)) = y
    <3>1. \A z \in 1 .. y : z \in 1 .. n
      OBVIOUS
    <3>2. Rising(q, b, y)
      BY <3>1 DEF Rising
    <3> QED
      BY <3>2, Numbered
  <2>3. Cardinality({j \in S : j <= q[b + y - 1]}) = y
    BY <2>1, <2>2
  <2>4. q[b + y - 1] \in S
    BY DEF From
  <2> QED
    BY <1>1, <2>3, <2>4, NthOf
<1> QED
  BY <1>1, <1>2

\* What the assumption says of a table's tokens.
ShapedAsTable(v) ==
  \E body \in DOMAIN v :
    /\ IsTable(v) /\ Close(v, 4) = body /\ StatementHeads(v, body + 1) = {}
    /\ Depth(v, Len(v) + 1) = Depth(v, body + 1)
TokensAre(s, c, S) ==
  /\ \A k \in S : /\ k \in DOMAIN s.text /\ s.text[k].of = c /\ ~ Dropped(s, k)
                  /\ ~ IsMark(s.text[k], ";") /\ s.text[k].t # "dollar"
  /\ \A k \in DOMAIN s.text : s.text[k].of = c /\ ~ Dropped(s, k) => k \in S
  /\ \E k \in S : Word(s.text[k])

\* The tokens of a table are shaped as one.
LEMMA TableText ==
  ASSUME file \in Source, NEW c \in DOMAIN written, written[c].kind = "table",
         NEW S, S = Spoken(file, c), NEW v, v = SpokenText(file, c)
  PROVE  /\ S \in SUBSET Nat /\ IsFiniteSet(S) /\ Cardinality(S) \in Nat /\ c \in Nat /\ c # 0
         /\ DOMAIN v = 1 .. Cardinality(S) /\ \A n \in 1 .. Cardinality(S) : v[n] = text[Nth(S, n)]
         /\ ShapedAsTable(v) /\ TokensAre(file, c, S)
<1>1. /\ DOMAIN text = 1 .. Len(text) /\ Len(text) \in Nat /\ text = file.text /\ written = file.written
      /\ DOMAIN written = 1 .. Len(written) /\ Len(written) \in Nat
  BY SourceText DEF text, written, Ordered
<1>2. S = {k \in DOMAIN text : text[k].of = c /\ ~ Dropped(file, k)}
  BY <1>1 DEF Spoken
<1>3. S \in SUBSET (1 .. Len(text)) /\ S \in SUBSET Nat
  BY <1>1, <1>2
<1>4. IsFiniteSet(S) /\ Cardinality(S) \in Nat
  <2>1. 1 \in Int /\ Len(text) \in Int
    BY <1>1
  <2>2. IsFiniteSet(1 .. Len(text))
    BY <2>1, FS_Interval
  <2> QED
    BY <1>3, <2>2, FS_Subset, FS_CardinalityType
<1>5. v = [n \in 1 .. Cardinality(S) |-> text[Nth(S, n)]]
  BY <1>1 DEF SpokenText
<1>6. DOMAIN v = 1 .. Cardinality(S) /\ \A n \in 1 .. Cardinality(S) : v[n] = text[Nth(S, n)]
  BY <1>5
<1>7. PICK body \in DOMAIN v :
        /\ IsTable(v) /\ Close(v, 4) = body /\ StatementHeads(v, body + 1) = {}
        /\ Depth(v, Len(v) + 1) = Depth(v, body + 1)
        /\ \A k \in DOMAIN v : ~ IsMark(v[k], ";") /\ v[k].t # "dollar"
  BY <1>1, SourceText DEF TablesAreShaped
<1>8. ASSUME NEW k \in S PROVE ~ IsMark(text[k], ";") /\ text[k].t # "dollar"
  <2>1. PICK n : n = Cardinality({j \in S : j <= k})
    OBVIOUS
  <2>2. Nth(S, n) = k /\ n \in 1 .. Cardinality(S)
    BY <1>3, <1>4, <2>1, NthOf
  <2>3. v[n] = text[k]
    BY <1>6, <2>2
  <2> QED
    BY <1>6, <1>7, <2>2, <2>3
<1>9. \E k \in S : Word(text[k])
  <2>1. S # {}
    <3>1. Cardinality(S) # 0
      <4>1. body \in 1 .. Cardinality(S)
        BY <1>6, <1>7
      <4> QED
        BY <1>4, <4>1
    <3> QED
      BY <3>1, FS_EmptySet
  <2>2. PICK k \in S : \A n \in S : k <= n
    BY <1>3, <2>1, LeastExists
  <2>3. {j \in S : j <= k} = {k}
    BY <1>3, <2>2
  <2>4. Cardinality({j \in S : j <= k}) = 1
    BY <2>3, FS_Singleton
  <2>5. Nth(S, 1) = k /\ 1 \in 1 .. Cardinality(S)
    BY <1>3, <1>4, <2>4, NthOf
  <2>6. v[1] = text[k]
    BY <1>6, <2>5
  <2>7. WordIn(v[1], Create)
    <3> DEFINE all == <<Create, {"TABLE"}>>
    <3>1. Len(all) = 2 /\ DOMAIN all = 1 .. 2 /\ all[1] = Create /\ all[2] = {"TABLE"}
      OBVIOUS
    <3>2. Opens(v, all)
      BY <1>7 DEF IsTable
    <3> HIDE DEF all
    <3> QED
      BY <3>1, <3>2, TwoWords
  <2> QED
    BY <2>6, <2>7 DEF WordIn
<1>10. c \in Nat /\ c # 0
  BY <1>1
<1> QED
  <2>1. ShapedAsTable(v)
    BY <1>7 DEF ShapedAsTable
  <2>2. TokensAre(file, c, S)
    BY <1>1, <1>2, <1>8, <1>9 DEF TokensAre
  <2> QED
    BY <1>3, <1>4, <1>6, <1>10, <2>1, <2>2

\* A statement that holds one token of a table holds all.
LEMMA HoldsTable ==
  ASSUME NEW s \in Source, NEW c \in Nat \ {0}, NEW S, TokensAre(s, c, S),
         NEW st, NEW a \in Nat \ {0}, NEW e \in Nat \ {0}, NEW n \in a .. (e - 1), s.text[n].of = c,
         StartsAt(s, a), Holds(s, st.toks, a, e), EndsAt(s, st, e), NEW k \in S
  PROVE  k \in a .. (e - 1)
<1>1. DOMAIN s.text = 1 .. Len(s.text) /\ Len(s.text) \in Nat
  BY SourceText
<1>3. ASSUME NEW j \in DOMAIN s.text, s.text[j].of = c PROVE ~ IsMark(s.text[j], ";")
  <2>1. IsMark(s.text[j], ";") => ~ Dropped(s, j)
    BY <1>1 DEF Dropped, IsMark, Is
  <2> QED
    BY <1>3, <2>1 DEF TokensAre
<1>4. k \in DOMAIN s.text /\ s.text[k].of = c
  BY DEF TokensAre
<1>5. n \in DOMAIN s.text /\ n \in Nat
  BY <1>1 DEF Holds
<1>6. k < e
  <2> SUFFICES ASSUME e <= k PROVE FALSE
    BY <1>1, <1>4
  <2>1. e \in DOMAIN s.text /\ n <= e
    BY <1>1, <1>4, <1>5
  <2>2. s.text[e].of = c
    BY <1>4, <1>5, <2>1, Between
  <2> QED
    BY <1>1, <1>3, <2>1, <2>2 DEF EndsAt
<1>7. a <= k
  <2> SUFFICES ASSUME k < a PROVE FALSE
    BY <1>1, <1>4
  <2>1. PICK d : d = a - 1
    OBVIOUS
  <2>2. d \in DOMAIN s.text /\ k <= d /\ d <= n
    BY <1>1, <1>4, <1>5, <2>1
  <2>3. s.text[d].of = c
    BY <1>4, <1>5, <2>2, Between
  <2>4. IsMark(s.text[d], ";")
    BY <2>1, <2>2, <2>3 DEF StartsAt
  <2> QED
    BY <1>3, <2>2, <2>3, <2>4
<1> QED
  BY <1>1, <1>4, <1>6, <1>7

\* A bounded set of numbers has a greatest one.
LEMMA GreatestExists ==
  ASSUME NEW N \in Nat, NEW P \in SUBSET (1 .. N), P # {}
  PROVE  \E m \in P : \A y \in P : y <= m
<1> DEFINE R == {r \in 0 .. N : N - r \in P}
<1>1. R \in SUBSET Nat /\ R # {}
  <2>1. PICK y \in P : y \in 1 .. N
    OBVIOUS
  <2>2. N - y \in 0 .. N /\ N - (N - y) = y
    BY <2>1
  <2>3. N - y \in R
    BY <2>1, <2>2
  <2> QED
    BY <2>3
<1>2. PICK r \in R : \A n \in R : r <= n
  <2> HIDE DEF R
  <2> QED
    BY <1>1, LeastExists
<1>3. ASSUME NEW y \in P PROVE y <= N - r
  <2>1. y \in 1 .. N
    OBVIOUS
  <2>2. N - y \in 0 .. N /\ N - (N - y) = y
    BY <2>1
  <2>3. r <= N - y
    BY <1>2, <2>2
  <2> QED
    BY <1>2, <2>1, <2>3
<1> QED
  BY <1>2, <1>3

\* A table is in one stretch of its statement.
Stretch(q, c, b, n) ==
  /\ b \in 1 .. Len(q) /\ n \in Nat \ {0} /\ b + n - 1 <= Len(q)
  /\ \A y \in 1 .. Len(q) : text[q[y]].of = c <=> y \in b .. (b + n - 1)

Wording(q, b, n, v) == v \in Seq(Token) /\ Len(v) = n /\ \A j \in 1 .. n : v[j] = text[q[b + j - 1]]

\* A statement that holds one token of a table holds it in a stretch, word for word.
LEMMA WholeTable ==
  ASSUME TextInv, WordsInv, NEW x \in DOMAIN out, NEW q, q = out[x].toks,
         NEW c \in DOMAIN written, written[c].kind = "table", NEW l \in 1 .. Len(q), text[q[l]].of = c,
         NEW v, v = SpokenText(file, c)
  PROVE  \E b, n \in Nat : Stretch(q, c, b, n) /\ Wording(q, b, n, v)
<1>1. /\ text = file.text /\ file \in Source /\ dialect = file.dialect
      /\ DOMAIN text = 1 .. Len(text) /\ Len(text) \in Nat
  BY Here
<1>2. /\ q \in Seq(Nat) /\ Len(q) \in Nat \ {0} /\ DOMAIN q = 1 .. Len(q) /\ \A k \in 1 .. Len(q) : q[k] \in DOMAIN text
  BY StatementOf, SMTT(30)
<1>22. \A k \in 1 .. Len(q) : q[k] \in Nat /\ q[k] \in DOMAIN file.text
  <2>1. \A k \in 1 .. Len(q) : q[k] \in Nat
    BY <1>2, ElementOfSeq
  <2> QED
    BY <1>1, <1>2, <2>1
<1>3. PICK a, e \in Nat \ {0} : StartsAt(file, a) /\ Holds(file, q, a, e) /\ EndsAt(file, out[x], e)
  BY StatementOf
<1>4. PICK S : S = Spoken(file, c)
  OBVIOUS
<1>5. /\ S \in SUBSET Nat /\ IsFiniteSet(S) /\ c \in Nat \ {0} /\ TokensAre(file, c, S)
      /\ DOMAIN v = 1 .. Cardinality(S) /\ \A n \in 1 .. Cardinality(S) : v[n] = text[Nth(S, n)]
  BY <1>1, <1>4, TableText
<1> DEFINE P == {y \in 1 .. Len(q) : text[q[y]].of = c}
<1>6. PICK b \in P : \A y \in P : b <= y
  <2>1. P \in SUBSET Nat /\ P # {}
    OBVIOUS
  <2> HIDE DEF P
  <2> QED
    BY <2>1, LeastExists
<1>7. PICK m \in P : \A y \in P : y <= m
  <2>1. P \in SUBSET (1 .. Len(q)) /\ P # {}
    OBVIOUS
  <2> HIDE DEF P
  <2> QED
    BY <1>2, <2>1, GreatestExists
<1>8. /\ b \in 1 .. Len(q) /\ m \in 1 .. Len(q) /\ b <= m
      /\ file.text[q[b]].of = c /\ file.text[q[m]].of = c
  BY <1>1, <1>6, <1>7
<1>9. \A y, z \in 1 .. Len(q) : y < z => q[y] < q[z]
  BY <1>2, <1>3 DEF Holds
<1>10. ASSUME NEW y \in b .. m PROVE y \in 1 .. Len(q) /\ file.text[q[y]].of = c
  <2>1. y \in 1 .. Len(q) /\ (b = y \/ b < y) /\ (y = m \/ y < m)
    BY <1>2, <1>8, SMTT(30)
  <2>2. q[b] \in Nat /\ q[y] \in Nat /\ q[m] \in Nat
    BY <1>8, <1>22, <2>1
  <2>3. q[b] <= q[y] /\ q[y] <= q[m]
    BY <1>8, <1>9, <2>1, <2>2, SMTT(30)
  <2>4. q[b] \in DOMAIN file.text /\ q[y] \in DOMAIN file.text /\ q[m] \in DOMAIN file.text
    BY <1>8, <1>22, <2>1
  <2>5. PICK u, v1, w \in DOMAIN file.text : u = q[b] /\ v1 = q[y] /\ w = q[m]
    BY <2>4, SMTT(30)
  <2>6. file.text[v1].of = file.text[u].of
    <3>1. u <= v1 /\ v1 <= w /\ file.text[u].of = file.text[w].of /\ file.text[u].of # 0
      BY <1>5, <1>8, <2>3, <2>5
    <3> QED
      BY <1>1, <2>5, <3>1, Between, ZenonT(40)
  <2> QED
    BY <1>8, <2>1, <2>5, <2>6
<1>11. \A y \in 1 .. Len(q) : text[q[y]].of = c <=> y \in b .. m
  <2>1. \A y \in P : y \in b .. m
    BY <1>2, <1>6, <1>7, SMTT(30)
  <2> QED
    BY <1>1, <1>10, <2>1
<1> HIDE DEF P
<1>12. PICK n \in Nat \ {0} : n = m - b + 1 /\ b + n - 1 = m
  <2>1. m - b + 1 \in Nat \ {0} /\ b + (m - b + 1) - 1 = m
    BY <1>2, <1>8
  <2> QED
    BY <2>1
<1>13. b \in Nat /\ \A j \in 1 .. n : b + j - 1 \in b .. m /\ b + j - 1 \in 1 .. Len(q)
  BY <1>2, <1>8, <1>12
<1>14. Rising(q, b, n)
  <2>1. \A y \in 1 .. n : q[b + y - 1] \in Nat
    BY <1>13, <1>22
  <2>2. \A y, z \in 1 .. n : y < z => b + y - 1 < b + z - 1
    BY <1>13
  <2>3. \A y, z \in 1 .. n : y < z => q[b + y - 1] < q[b + z - 1]
    BY <1>9, <1>13, <2>2
  <2> QED
    BY <2>1, <2>3 DEF Rising
<1>15. ASSUME NEW k \in S PROVE k \in From(q, b, n)
  <2>1. q[l] \in a .. (e - 1) /\ file.text[q[l]].of = c
    BY <1>1, <1>2, <1>3 DEF Holds
  <2>2. k \in a .. (e - 1)
    BY <1>1, <1>3, <1>5, <2>1, HoldsTable
  <2>3. file.text[k].of = c /\ ~ Dropped(file, k)
    BY <1>5 DEF TokensAre
  <2>4. PICK y \in 1 .. Len(q) : q[y] = k
    BY <1>2, <1>3, <2>2, <2>3 DEF Holds
  <2>5. y \in b .. m
    BY <1>1, <1>11, <2>3, <2>4
  <2>6. PICK j : j = y - b + 1
    OBVIOUS
  <2>7. j \in 1 .. n /\ b + j - 1 = y
    BY <1>12, <1>13, <2>5, <2>6
  <2> QED
    BY <2>4, <2>7 DEF From
<1>16. ASSUME NEW y \in b .. m PROVE q[y] \in S
  <2>1. y \in 1 .. Len(q) /\ q[y] \in DOMAIN file.text /\ file.text[q[y]].of = c
    BY <1>1, <1>2, <1>10
  <2> SUFFICES ASSUME Dropped(file, q[y]) PROVE FALSE
    BY <1>5, <2>1 DEF TokensAre
  <2>2. file.dialect.dollarQuoting /\ InBlock(file, q[y])
    BY <1>2, <2>1 DEF WordsInv, SeparatorInv, Clean
  <2>3. PICK block \in Blocks(file) : block[1] < q[y] /\ q[y] < block[2]
    BY <2>2 DEF InBlock
  <2>4. /\ block[1] \in DOMAIN file.text /\ block[2] \in DOMAIN file.text
        /\ file.text[block[1]].t = "dollar"
    BY <1>1, <2>2, BlockShape DEF Dollars
  <2>5. q[y] \in block[1] .. block[2]
    BY <1>1, <2>1, <2>3, <2>4, SMTT(30)
  <2>6. file.text[block[1]].of = c
    BY <1>1, <2>1, <2>2, <2>5, BlockWithin
  <2>7. ~ Dropped(file, block[1])
    BY <2>4 DEF Dropped
  <2> QED
    BY <1>5, <2>4, <2>6, <2>7 DEF TokensAre
<1>17. S = From(q, b, n)
  <2>1. \A k \in From(q, b, n) : k \in S
    BY <1>13, <1>16 DEF From
  <2> QED
    BY <1>15, <2>1
<1>18. Cardinality(S) = n /\ \A j \in 1 .. n : Nth(S, j) = q[b + j - 1]
  BY <1>13, <1>14, <1>17, Enumerated, SMTT(30)
<1>19. \A j \in 1 .. n : v[j] = text[q[b + j - 1]]
  BY <1>5, <1>18
<1>20. v \in Seq(Token) /\ Len(v) = n
  <2>1. text \in Seq(Token)
    BY <1>1, SourceText
  <2>2. \A j \in 1 .. n : q[b + j - 1] \in 1 .. Len(text)
    BY <1>1, <1>2, <1>13
  <2>3. \A j \in 1 .. n : v[j] \in Token
    BY <1>19, <2>1, <2>2, ElementOfSeq
  <2>4. v = [j \in 1 .. n |-> file.text[Nth(S, j)]]
    BY <1>4, <1>18 DEF SpokenText
  <2>5. v \in [1 .. n -> Token]
    BY <2>3, <2>4
  <2> QED
    BY <2>5, LenProperties
<1>21. Stretch(q, c, b, n)
  BY <1>2, <1>8, <1>11, <1>12 DEF Stretch
<1> QED
  BY <1>12, <1>13, <1>19, <1>20, <1>21 DEF Wording

-----------------------------------------------------------------------------
(* What comes before a table in its statement. *)

\* No routine does.
LEMMA NoRoutineBefore ==
  ASSUME TextInv, NEW x \in DOMAIN out, NEW q, q = out[x].toks,
         NEW c \in DOMAIN written, written[c].kind = "table", NEW l \in 1 .. Len(q), file.text[q[l]].of = c
  PROVE  /\ \A y \in 1 .. l : ~ IsRoutineText(file, q[y])
         /\ ~ StartsRoutine(q)
<1>1. text = file.text /\ file \in Source /\ written = file.written
  BY Here DEF written
<1>2. /\ q \in Seq(Nat) /\ Len(q) \in Nat \ {0} /\ DOMAIN q = 1 .. Len(q) /\ \A k \in 1 .. Len(q) : q[k] \in DOMAIN text
      /\ Tokens(q) \in Seq(Token) /\ Len(Tokens(q)) = Len(q)
  BY StatementOf, SMTT(30)
<1>3. PICK a, e \in Nat \ {0} : Holds(file, q, a, e)
  BY StatementOf
<1>4. c # 0
  <2>1. c \in DOMAIN file.written /\ DOMAIN file.written = 1 .. Len(file.written)
    BY <1>1, SourceText DEF Ordered
  <2> QED
    BY <2>1
<1>5. \A y \in 1 .. l : ~ IsRoutineText(file, q[y])
  <2> SUFFICES ASSUME NEW y \in 1 .. l, IsRoutineText(file, q[y]) PROVE FALSE
    BY SMTT(30)
  <2>1. file.text[q[y]].of # c
    BY <1>1 DEF IsRoutineText
  <2>2. y \in DOMAIN q /\ l \in DOMAIN q /\ y < l
    BY <1>2, <2>1
  <2>3. q[y] \in a .. (e - 1) /\ q[l] \in a .. (e - 1) /\ q[y] < q[l]
    BY <1>3, <2>2 DEF Holds
  <2>4. file.text[q[l]].of \in {file.text[q[y]].of, 0}
    BY <1>1, <1>3, <2>3, NothingElse, SMTT(30)
  <2> QED
    BY <1>4, <2>1, <2>4
<1>6. ASSUME NEW words, NEW kind \in {"procedure", "trigger"}, HeadOf(Tokens(q), words),
             \A k \in DOMAIN file.text : HeadAt(file.text, k, words) => BeginsA(file, k, kind)
      PROVE  FALSE
  <2> DEFINE u == Tokens(q)
             own == SubSeq(u, 1, Len(q))
  <2>1. 1 \in 1 .. Len(q) /\ 1 \in 1 .. l /\ Len(q) \in 1 .. Len(q)
    BY <1>2
  <2>2. Len(own) = Len(u) /\ Len(u) \in Nat /\ \A k \in 1 .. Len(u) : own[k] = u[k]
    <3> HIDE DEF u
    <3>1. u \in Seq(Token) /\ Len(u) = Len(q)
      BY <1>2 DEF u
    <3>2. Len(own) = Len(q) - 1 + 1 /\ \A k \in 1 .. (Len(q) - 1 + 1) : own[k] = u[1 + k - 1]
      BY <2>1, <3>1, PartOf
    <3>3. Len(q) - 1 + 1 = Len(q) /\ \A k \in 1 .. Len(q) : 1 + k - 1 = k
      BY <1>2
    <3> QED
      BY <1>2, <3>1, <3>2, <3>3
  <2>3. HeadOf(own, words)
    <3> HIDE DEF own
    <3>1. Len(u) >= 2 => own[1] = u[1] /\ own[2] = u[2]
      BY <2>2
    <3>2. Len(u) >= 4 => own[3] = u[3] /\ own[4] = u[4]
      BY <2>2
    <3> QED
      BY <1>6, <2>2, <3>1, <3>2 DEF HeadOf
  <2>4. HeadAt(text, q[1], words)
    BY <1>1, <1>3, <2>1, <2>3, HeadInText
  <2>5. BeginsA(file, q[1], kind)
    BY <1>1, <1>2, <1>6, <2>1, <2>4
  <2> QED
    BY <1>5, <2>1, <2>5 DEF BeginsA, IsRoutineText
<1>7. ~ StartsRoutine(q)
  <2>1. \A k \in DOMAIN file.text :
          /\ HeadAt(file.text, k, {"FUNCTION", "PROCEDURE"}) => BeginsA(file, k, "procedure")
          /\ HeadAt(file.text, k, {"TRIGGER"}) => BeginsA(file, k, "trigger")
    BY <1>1, SourceText DEF HeadsBegin
  <2> QED
    BY <1>6, <2>1 DEF StartsRoutine
<1> QED
  BY <1>5, <1>7

\* Nothing separates what is in the statement.
LEMMA NothingSeparates ==
  ASSUME TextInv, WordsInv, NEW x \in DOMAIN out, NEW q, q = out[x].toks, ~ StartsRoutine(q),
         NEW a \in Nat \ {0}, NEW e \in Nat \ {0}, Holds(file, q, a, e)
  PROVE  /\ \A k \in a .. (e - 1) : ~ Terminates(file, k)
         /\ \A y \in 1 .. Len(q) : file.text[q[y]].of # 0
<1>1. file \in Source /\ DOMAIN q = 1 .. Len(q)
  BY Here, StatementOf
<1>2. Clean(file, q)
  BY DEF WordsInv, SeparatorInv
<1>3. ASSUME NEW k \in a .. (e - 1), Terminates(file, k) PROVE FALSE
  <2>1. ~ Dropped(file, k)
    BY <1>3 DEF Terminates, Dropped, Is
  <2>2. PICK y \in DOMAIN q : q[y] = k
    BY <2>1 DEF Holds
  <2> QED
    BY <1>2, <1>3, <2>2 DEF Clean
<1>4. ASSUME NEW y \in 1 .. Len(q), file.text[q[y]].of = 0 PROVE FALSE
  <2>1. q[y] \in a .. (e - 1) /\ q[y] \in DOMAIN file.text /\ ~ Divides(file, q[y])
    BY <1>1 DEF Holds
  <2>2. file.text[q[y]].t \in {"delimiter", "go"} \/ Dropped(file, q[y]) \/ Terminates(file, q[y])
    BY <1>1, <1>4, <2>1, SourceText, SMTT(30) DEF SeparatorsSeparate
  <2>3. Dropped(file, q[y])
    BY <1>3, <1>4, <2>1, <2>2 DEF Divides
  <2>4. file.dialect.dollarQuoting /\ InBlock(file, q[y])
    BY <1>1, <1>2, <2>3 DEF Clean
  <2>5. PICK block \in Blocks(file) : block[1] < q[y] /\ q[y] < block[2]
    BY <2>4 DEF InBlock
  <2>6. q[y] \in block[1] .. block[2]
    <3>1. block[1] \in DOMAIN file.text /\ block[2] \in DOMAIN file.text
      BY <1>1, <2>4, BlockShape DEF Dollars
    <3>2. DOMAIN file.text = 1 .. Len(file.text) /\ Len(file.text) \in Nat
      BY <1>1, SourceText
    <3> QED
      BY <2>1, <2>5, <3>1, <3>2, SMTT(30)
  <2> QED
    BY <1>1, <1>4, <2>4, <2>6, BlockWithin
<1> QED
  BY <1>3, <1>4

\* So tables do, unless it is run onto data.
LEMMA TablesBefore ==
  ASSUME TextInv, WordsInv, NEW x \in DOMAIN out, NEW q, q = out[x].toks,
         NEW c \in DOMAIN written, written[c].kind = "table", ~ RunOntoData(c),
         NEW l \in 1 .. Len(q), file.text[q[l]].of = c, NEW y \in 1 .. l
  PROVE  file.text[q[y]].of \in DOMAIN written /\ written[file.text[q[y]].of].kind = "table"
<1>1. /\ file \in Source /\ written = file.written
      /\ DOMAIN file.text = 1 .. Len(file.text) /\ Len(file.text) \in Nat
  BY Here, SourceText DEF written
<1>2. q \in Seq(Nat) /\ Len(q) \in Nat \ {0} /\ DOMAIN q = 1 .. Len(q)
  BY StatementOf
<1>3. PICK a, e \in Nat \ {0} : Holds(file, q, a, e)
  BY StatementOf
<1>4. ~ StartsRoutine(q) /\ ~ IsRoutineText(file, q[y])
  BY NoRoutineBefore
<1>5. /\ \A k \in a .. (e - 1) : ~ Terminates(file, k)
      /\ \A k \in 1 .. Len(q) : file.text[q[k]].of # 0
  BY <1>3, <1>4, NothingSeparates
<1>6. /\ DOMAIN written = 1 .. Len(written) /\ Len(written) \in Nat
      /\ \A k \in DOMAIN file.text : file.text[k].of \in 0 .. Len(written)
      /\ \A d \in DOMAIN written : \E k \in DOMAIN file.text : file.text[k].of = d
      /\ \A k \in DOMAIN file.text : file.text[k].of # 0 => \A j \in 1 .. (k - 1) : file.text[j].of <= file.text[k].of
  <2>1. Ordered(file)
    BY <1>1, SourceText
  <2>2. {file.text[k].of : k \in DOMAIN file.text} \cup {0} = 0 .. Len(written)
    BY <1>1, <2>1 DEF Ordered
  <2>3. DOMAIN written = 1 .. Len(written) /\ Len(written) \in Nat
    BY <1>1, <2>1 DEF Ordered
  <2>4. \A d \in DOMAIN written : d \in 0 .. Len(written) /\ d # 0
    BY <2>3
  <2>5. \A d \in DOMAIN written : d \in {file.text[k].of : k \in DOMAIN file.text}
    BY <2>2, <2>4
  <2> QED
    BY <2>1, <2>2, <2>3, <2>5, SMTT(30) DEF Ordered
<1>7. PICK d : d = file.text[q[y]].of
  OBVIOUS
<1>8. /\ y \in 1 .. Len(q) /\ q[y] \in a .. (e - 1) /\ q[l] \in a .. (e - 1) /\ q[y] \in Nat /\ q[l] \in Nat
      /\ q[y] \in DOMAIN file.text /\ q[l] \in DOMAIN file.text
      /\ (y = l \/ q[y] < q[l])
  <2>1. y \in 1 .. Len(q) /\ (y = l \/ y < l)
    BY <1>2
  <2> QED
    BY <1>2, <1>3, <2>1, ElementOfSeq DEF Holds
<1>9. d \in DOMAIN written /\ d \in Nat /\ c \in Nat /\ c # 0
  <2>1. d # 0 /\ d \in 0 .. Len(written)
    BY <1>5, <1>6, <1>7, <1>8, SMTT(30)
  <2> QED
    BY <1>6, <2>1
<1>10. written[d].kind \notin {"procedure", "trigger"}
  BY <1>1, <1>4, <1>5, <1>7, <1>8 DEF IsRoutineText
<1>11. CASE d = c
  BY <1>7, <1>11
<1>12. CASE d # c
  <2>1. d < c /\ q[y] < q[l]
    <3>1. q[y] < q[l]
      BY <1>7, <1>8, <1>12
    <3>2. q[y] \in 1 .. (q[l] - 1)
      BY <1>1, <1>8, <3>1, SMTT(30)
    <3>3. d <= c
      BY <1>6, <1>7, <1>8, <1>9, <3>2
    <3> QED
      BY <1>9, <1>12, <3>1, <3>3
\* None of the statements from there on is a routine or has its terminator.
  <2>2. ASSUME NEW f \in d .. (c - 1)
        PROVE  f \in DOMAIN written /\ written[f].kind \notin {"procedure", "trigger"} /\ ~ written[f].terminated
    <3>1. f \in DOMAIN written /\ f \in Nat /\ f # 0 /\ f < c /\ d <= f
      BY <1>6, <1>9, SMTT(30)
    <3>2. PICK k \in DOMAIN file.text : file.text[k].of = f /\ (f = d => k = q[y])
      BY <1>6, <1>7, <1>8, <3>1
    <3>3. k < q[l] /\ k >= q[y] /\ k \in Nat
      <4>1. k \in Nat
        BY <1>1
      <4>2. ~ (q[l] < k)
        <5>1. q[l] < k => q[l] \in 1 .. (k - 1)
          BY <1>1, <1>8, <4>1, SMTT(30)
        <5>2. q[l] < k => c <= f
          BY <1>6, <3>1, <3>2, <5>1
        <5> QED
          BY <1>9, <3>1, <5>2
      <4>3. k # q[l]
        BY <1>9, <3>1, <3>2, SMTT(30)
      <4>4. ~ (k < q[y])
        <5> SUFFICES ASSUME k < q[y] PROVE FALSE
          OBVIOUS
        <5>1. k \in 1 .. (q[y] - 1) /\ f # d
          BY <1>1, <1>8, <3>2, <4>1, SMTT(30)
        <5>2. file.text[q[y]].of = d /\ d # 0
          BY <1>6, <1>7, <1>9, SMTT(30)
        <5>3. PICK u \in DOMAIN file.text : u = q[y]
          BY <1>8
        <5>4. file.text[u].of = d /\ k \in 1 .. (u - 1)
          BY <5>1, <5>2, <5>3
        <5>5. \A j \in 1 .. (u - 1) : file.text[j].of <= file.text[u].of
          BY <1>6, <5>2, <5>4
        <5>6. f <= d
          BY <3>2, <5>4, <5>5
        <5> QED
          BY <1>9, <3>1, <5>1, <5>6
      <4> QED
        BY <1>8, <4>1, <4>2, <4>3, <4>4, SMTT(30)
    <3>4. k \in a .. (e - 1)
      BY <1>8, <3>3, SMTT(30)
    <3>5. written[f].kind \notin {"procedure", "trigger"}
      <4> SUFFICES ASSUME written[f].kind \in {"procedure", "trigger"} PROVE FALSE
        OBVIOUS
      <4>1. IsRoutineText(file, k)
        BY <1>1, <3>1, <3>2 DEF IsRoutineText
      <4>2. file.text[q[l]].of \in {file.text[k].of, 0}
        BY <1>1, <1>3, <1>8, <3>3, <3>4, <4>1, NothingElse
      <4> QED
        BY <1>9, <3>1, <3>2, <4>2
    <3>6. ASSUME written[f].terminated PROVE FALSE
      <4>1. PICK t \in (k + 1) .. (q[l] - 1) : Terminates(file, t)
        BY <1>1, <1>8, <3>1, <3>2, <3>5, <3>6, SourceText DEF SeparatorsSeparate
      <4>2. t \in a .. (e - 1)
        BY <1>8, <3>3, <4>1, SMTT(30)
      <4> QED
        BY <1>5, <4>1, <4>2
    <3> QED
      BY <3>1, <3>5, <3>6
  <2>3. d \in d .. (c - 1) /\ d \in 1 .. (c - 1)
    <3>1. d # 0
      BY <1>6, <1>9
    <3> QED
      BY <1>9, <2>1, <3>1
  <2>4. ~ written[d].terminated
    BY <2>2, <2>3
  <2>5. written[d].kind \in {"table", "data"}
    BY <1>1, <1>9, <1>10, <2>4, SourceText DEF SeparatorsSeparate
  <2>6. written[d].kind # "data"
    BY <2>2, <2>3 DEF RunOntoData
  <2> QED
    BY <1>7, <1>9, <2>5, <2>6
<1> QED
  BY <1>11, <1>12

\* From where its stretch begins the statement is a table.
OpensTable(q, b, n, v, own) ==
  /\ IsTable(v) /\ IsTable(own) /\ b \in 1 .. Len(q)
  /\ own \in Seq(Token) /\ Len(own) = Len(q) - b + 1 /\ \A j \in 1 .. n : own[j] = v[j]
  /\ \A j \in 1 .. (Len(q) - b + 1) : own[j] = text[q[b + j - 1]]
  /\ WordIn(text[q[b]], Create)

\* Its stretch is what begins like one.
LEMMA StretchHead ==
  ASSUME TextInv, NEW x \in DOMAIN out, NEW q, q = out[x].toks,
         NEW c \in DOMAIN written, written[c].kind = "table", NEW b \in Nat, NEW n \in Nat, Stretch(q, c, b, n),
         NEW v, v = SpokenText(file, c), Wording(q, b, n, v),
         NEW own, own = SubSeq(Tokens(q), b, Len(q))
  PROVE  OpensTable(q, b, n, v, own)
<1>0. v \in Seq(Token) /\ Len(v) = n /\ \A j \in 1 .. n : v[j] = text[q[b + j - 1]]
  BY DEF Wording
<1>1. file \in Source
  BY Here
<1>2. ShapedAsTable(v)
  BY <1>1, TableText
<1>3. IsTable(v)
  BY <1>2 DEF ShapedAsTable
<1>4. n >= 4 /\ WordIn(v[1], Create) /\ WordIn(v[2], {"TABLE"}) /\ IsMark(v[4], "(")
  BY <1>0, <1>3, TableOpens
<1>5. /\ Tokens(q) \in Seq(Token) /\ Len(Tokens(q)) = Len(q) /\ Len(q) \in Nat
      /\ \A k \in 1 .. Len(q) : Tokens(q)[k] = text[q[k]]
  BY StatementOf, SMTT(30)
<1>6. b \in 1 .. Len(q) /\ b + n - 1 <= Len(q)
  BY DEF Stretch
<1> DEFINE toks == Tokens(q)
<1>7. own \in Seq(Token) /\ Len(own) = Len(q) - b + 1 /\ \A j \in 1 .. (Len(q) - b + 1) : own[j] = toks[b + j - 1]
  <2>1. b \in 1 .. Len(toks) /\ Len(q) \in b .. Len(toks)
    BY <1>5, <1>6
  <2>2. toks \in Seq(Token) /\ own = SubSeq(toks, b, Len(q))
    BY <1>5
  <2> HIDE DEF toks
  <2> QED
    BY <2>1, <2>2, PartOf
<1> HIDE DEF toks
<1>8. \A j \in 1 .. (Len(q) - b + 1) : own[j] = text[q[b + j - 1]]
  <2>1. \A j \in 1 .. (Len(q) - b + 1) : b + j - 1 \in 1 .. Len(q)
    BY <1>5, <1>6
  <2> QED
    BY <1>5, <1>7, <2>1 DEF toks
<1>9. \A j \in 1 .. n : own[j] = v[j]
  <2>1. \A j \in 1 .. n : j \in 1 .. (Len(q) - b + 1)
    BY <1>5, <1>6, SMTT(30)
  <2> QED
    BY <1>0, <1>8, <2>1, ZenonT(40)
<1>10. IsTable(own)
  <2>1. 1 \in 1 .. n /\ 2 \in 1 .. n /\ 4 \in 1 .. n /\ Len(own) >= 4
    BY <1>4, <1>5, <1>6, <1>7, SMTT(30)
  <2>2. own[1] = v[1] /\ own[2] = v[2] /\ own[4] = v[4]
    BY <1>9, <2>1
  <2> QED
    BY <1>4, <1>7, <2>1, <2>2, TableOpens
<1>11. WordIn(text[q[b]], Create)
  <2>1. 1 \in 1 .. n /\ b + 1 - 1 = b
    BY <1>4
  <2>2. v[1] = text[q[b]]
    BY <1>0, <2>1
  <2> QED
    BY <1>4, <2>2
<1> QED
  BY <1>3, <1>6, <1>7, <1>8, <1>9, <1>10, <1>11 DEF OpensTable

\* A construct's first place in a statement.
Begins(q, y) == y = 1 \/ text[q[y - 1]].of # text[q[y]].of

\* Each table before it in its statement is cut off, and so is the table itself.
LEMMA StartsReached ==
  ASSUME TextInv, WordsInv, NEW x \in DOMAIN out, NEW q, q = out[x].toks,
         NEW c \in DOMAIN written, written[c].kind = "table", ~ RunOntoData(c),
         NEW l \in 1 .. Len(q), text[q[l]].of = c, NEW y \in 1 .. l, Begins(q, y)
  PROVE  y \in PieceStarts(Tokens(q))
<1> DEFINE Bad == {m \in 1 .. l : Begins(q, m) /\ m \notin PieceStarts(Tokens(q))}
<1>1. text = file.text /\ file \in Source
  BY Here
<1>2. /\ Tokens(q) \in Seq(Token) /\ Len(Tokens(q)) = Len(q) /\ Len(q) \in Nat /\ Tokens(q) # << >>
      /\ \A k \in 1 .. Len(q) : Tokens(q)[k] = text[q[k]]
  BY StatementOf, SMTT(30)
<1>3. ASSUME NEW m \in 1 .. l
      PROVE  text[q[m]].of \in DOMAIN written /\ written[text[q[m]].of].kind = "table" /\ m \in 1 .. Len(q)
  <2>1. file.text[q[l]].of = c
    BY <1>1, SMTT(30)
  <2>2. file.text[q[m]].of \in DOMAIN written /\ written[file.text[q[m]].of].kind = "table"
    BY <2>1, TablesBefore
  <2> QED
    BY <1>1, <1>2, <2>2
<1>4. SUFFICES ASSUME Bad # {} PROVE FALSE
  OBVIOUS
<1>5. PICK m \in Bad : \A k \in Bad : m <= k
  <2>1. Bad \in SUBSET Nat
    OBVIOUS
  <2> HIDE DEF Bad
  <2> QED
    BY <1>4, <2>1, LeastExists
<1>6. m \in 1 .. l /\ Begins(q, m) /\ m \notin PieceStarts(Tokens(q))
  OBVIOUS
<1>7. m # 1
  BY <1>2, <1>6, LastPiece
<1>8. PICK r \in 1 .. l : r = m - 1 /\ m = r + 1
  BY <1>6, <1>7, SMTT(30)
<1>9. PICK d, f \in DOMAIN written :
        /\ d = text[q[r]].of /\ f = text[q[m]].of /\ d # f
        /\ written[d].kind = "table" /\ written[f].kind = "table"
        /\ r \in 1 .. Len(q) /\ m \in 1 .. Len(q)
  BY <1>3, <1>6, <1>7, <1>8, SMTT(30) DEF Begins
\* The table before it.
<1>10. PICK v : v = SpokenText(file, d)
  OBVIOUS
<1>11. PICK b, n \in Nat : Stretch(q, d, b, n) /\ Wording(q, b, n, v) /\ v \in Seq(Token) /\ Len(v) = n
  <2> HIDE DEF Bad
  <2>1. \E b, n \in Nat : Stretch(q, d, b, n) /\ Wording(q, b, n, v)
    BY <1>9, <1>10, WholeTable
  <2> QED
    BY <2>1 DEF Wording
<1>12. b \in 1 .. r /\ m = b + n
  <2>1. r \in b .. (b + n - 1) /\ m \notin b .. (b + n - 1)
    BY <1>9, <1>11 DEF Stretch
  <2>2. b >= 1
    BY <1>2, <1>11 DEF Stretch
  <2> QED
    BY <1>2, <1>8, <1>11, <2>1, <2>2, SMTT(30)
<1>13. b \in PieceStarts(Tokens(q))
  <2>1. b \in 1 .. l /\ ~ (m <= b)
    BY <1>8, <1>12
  <2>2. Begins(q, b)
    <3>1. SUFFICES ASSUME b # 1 PROVE text[q[b - 1]].of # text[q[b]].of
      BY DEF Begins
    <3>2. b - 1 \in 1 .. Len(q) /\ b - 1 \notin b .. (b + n - 1) /\ b \in b .. (b + n - 1) /\ b \in 1 .. Len(q)
      BY <1>2, <1>8, <1>9, <1>12, <3>1, SMTT(30)
    <3> QED
      BY <1>11, <3>2 DEF Stretch
  <2>3. b \notin Bad
    BY <1>5, <2>1
  <2> QED
    BY <2>1, <2>2, <2>3
<1> HIDE DEF Bad
\* The table itself.
<1>14. WordIn(text[q[m]], Create)
  <2>1. PICK w : w = SpokenText(file, f)
    BY SMTT(30)
  <2>2. PICK t, k \in Nat : Stretch(q, f, t, k) /\ Wording(q, t, k, w)
    BY <1>9, <2>1, WholeTable
  <2>3. t = m
    <3>1. m \in t .. (t + k - 1) /\ r \notin t .. (t + k - 1)
      BY <1>9, <2>2 DEF Stretch
    <3> QED
      BY <1>2, <1>8, <2>2, <3>1
  <2>4. WordIn(text[q[t]], Create)
    <3>1. PICK u : u = SubSeq(Tokens(q), t, Len(q))
      OBVIOUS
    <3>2. OpensTable(q, t, k, w, u)
      BY <1>9, <2>1, <2>2, <3>1, StretchHead
    <3> QED
      BY <3>2 DEF OpensTable
  <2> QED
    BY <2>3, <2>4
\* So the cut is where it begins.
<1>15. PICK own : own = SubSeq(Tokens(q), b, Len(q))
  OBVIOUS
<1>16. /\ IsTable(own) /\ b \in 1 .. Len(q) /\ IsTable(v)
       /\ own \in Seq(Token) /\ Len(own) = Len(q) - b + 1 /\ \A j \in 1 .. n : own[j] = v[j]
       /\ \A j \in 1 .. (Len(q) - b + 1) : own[j] = text[q[b + j - 1]]
  <2>1. d \in DOMAIN written /\ written[d].kind = "table"
    BY <1>9
  <2>2. Stretch(q, d, b, n) /\ Wording(q, b, n, v)
    BY <1>11
  <2>3. OpensTable(q, b, n, v, own)
    BY <1>10, <1>15, <2>1, <2>2, StretchHead
  <2> QED
    BY <2>3 DEF OpensTable
<1>17. Len(v) < Len(own) /\ WordIn(own[Len(v) + 1], Create)
  <2>1. n + 1 \in 1 .. (Len(q) - b + 1) /\ b + (n + 1) - 1 = m
    BY <1>2, <1>8, <1>9, <1>11, <1>12, SMTT(30)
  <2>2. own[n + 1] = text[q[m]]
    BY <1>16, <2>1
  <2> QED
    BY <1>2, <1>11, <1>14, <1>16, <2>1, <2>2, SMTT(30)
<1>18. ShapedAsTable(v)
  BY <1>1, <1>9, <1>10, TableText, SMTT(30)
<1>19. PICK body \in DOMAIN v :
         /\ Close(v, 4) = body /\ StatementHeads(v, body + 1) = {}
         /\ Depth(v, Len(v) + 1) = Depth(v, body + 1)
  BY <1>18 DEF ShapedAsTable
<1>20. /\ Close(own, 4) = body /\ n + 1 \in StatementHeads(own, body + 1)
       /\ \A k \in StatementHeads(own, body + 1) : n + 1 <= k
  BY <1>11, <1>16, <1>17, <1>19, RunsOnto, ZenonT(40)
<1>21. body \in Nat \ {0}
  <2>1. DOMAIN v = 1 .. n
    BY <1>11, LenProperties
  <2> QED
    BY <1>11, <2>1
<1>22. RunOn(Tokens(q), b) = b + n
  <2>1. PICK toks : toks = Tokens(q)
    OBVIOUS
  <2>2. toks \in Seq(Token) /\ b \in 1 .. Len(toks) /\ own = SubSeq(toks, b, Len(toks))
    BY <1>2, <1>15, <1>16, <2>1
  <2>3. IsTable(own) /\ Close(own, 4) = body /\ n + 1 \in StatementHeads(own, body + 1)
    BY <1>16, <1>20
  <2>4. \A k \in StatementHeads(own, body + 1) : n + 1 <= k
    BY <1>20
  <2>5. RunOn(toks, b) = b + n
    BY <1>21, <2>2, <2>3, <2>4, RunOnNext, ZenonT(40)
  <2> QED
    BY <2>1, <2>5
<1>23. RunOn(Tokens(q), b) # 0 /\ RunOn(Tokens(q), b) = m
  BY <1>6, <1>12, <1>22
<1>24. m \in PieceStarts(Tokens(q))
  BY <1>2, <1>13, <1>23, LastPiece
<1> QED
  BY <1>6, <1>24

-----------------------------------------------------------------------------
(* The tables that are read are the tables declared. *)

\* A table that is run onto no data is read.
LEMMA TableRead ==
  ASSUME TextInv, WordsInv, Done, NEW c \in DOMAIN written, written[c].kind = "table", ~ RunOntoData(c)
  PROVE  \E p \in Tables : text[p.at].of = c
<1>1. text = file.text /\ file \in Source /\ DOMAIN text = 1 .. Len(text) /\ Len(text) \in Nat
  BY Here
\* One of its words is in some statement.
<1>2. PICK k \in DOMAIN text : text[k].of = c /\ Word(text[k])
  <2>1. PICK S, v : S = Spoken(file, c) /\ v = SpokenText(file, c)
    OBVIOUS
  <2>2. TokensAre(file, c, S)
    BY <1>1, <2>1, TableText
  <2> QED
    BY <1>1, <2>2 DEF TokensAre
<1>3. PICK x \in DOMAIN out : In(out[x].toks, k)
  <2>1. k < i
    BY <1>1 DEF Done
  <2>2. ~ In(buf, k)
    <3>1. buf = << >>
      BY DEF WordsInv, CoverInv
    <3> QED
      BY <3>1 DEF In
  <2> QED
    BY <1>2, <2>1, <2>2 DEF WordsInv, CoverInv
<1>4. PICK q : q = out[x].toks
  OBVIOUS
<1>5. /\ DOMAIN q = 1 .. Len(q) /\ Len(q) \in Nat
      /\ Tokens(q) \in Seq(Token) /\ Len(Tokens(q)) = Len(q) /\ Tokens(q) # << >>
  BY <1>4, StatementOf
<1>6. PICK l \in 1 .. Len(q) : text[q[l]].of = c
  BY <1>2, <1>3, <1>4, <1>5 DEF In
<1>7. PICK v : v = SpokenText(file, c)
  OBVIOUS
<1>8. PICK b, n \in Nat : Stretch(q, c, b, n) /\ Wording(q, b, n, v)
  BY <1>4, <1>6, <1>7, WholeTable
<1>9. b \in 1 .. l /\ Begins(q, b) /\ text[q[b]].of = c
  <2>1. b \in 1 .. Len(q) /\ b \in b .. (b + n - 1)
    BY <1>5, <1>8 DEF Stretch
  <2>2. l \in b .. (b + n - 1) /\ text[q[b]].of = c
    BY <1>6, <1>8, <2>1 DEF Stretch
  <2>3. b # 1 => text[q[b - 1]].of # c
    <3>1. b # 1 => b - 1 \in 1 .. Len(q) /\ b - 1 \notin b .. (b + n - 1)
      BY <1>5, <2>1
    <3> QED
      BY <1>8, <3>1 DEF Stretch
  <2> QED
    BY <1>5, <1>8, <2>1, <2>2, <2>3 DEF Begins
<1>10. b \in PieceStarts(Tokens(q))
  BY <1>4, <1>6, <1>9, StartsReached
<1>11. PICK own : own = SubSeq(Tokens(q), b, Len(q))
  OBVIOUS
<1>12. OpensTable(q, b, n, v, own)
  BY <1>4, <1>7, <1>8, <1>11, StretchHead
<1>13. PICK st : st = out[x]
  OBVIOUS
<1>14. PICK p : p = PieceFrom(st, b)
  OBVIOUS
<1>15. p \in Applied
  <2>1. p \in Pieces(st)
    BY <1>4, <1>5, <1>10, <1>13, <1>14, PiecesAre
  <2> QED
    BY <1>13, <2>1 DEF Applied
<1>16. IsTable(p.toks) /\ p.at = q[b]
  <2>1. PICK toks : toks = Tokens(q)
    OBVIOUS
  <2>2. p.toks = SubSeq(toks, b, EndOf(toks, b)) /\ p.at = q[b]
    BY <1>4, <1>13, <1>14, <2>1 DEF PieceFrom
  <2>3. toks \in Seq(Token) /\ b \in 1 .. Len(toks) /\ IsTable(SubSeq(toks, b, Len(toks)))
    BY <1>5, <1>11, <1>12, <2>1 DEF OpensTable
  <2> QED
    BY <2>2, <2>3, PieceTable
<1> QED
  BY <1>9, <1>15, <1>16 DEF Tables

\* And read once.
LEMMA TableOnce ==
  ASSUME TextInv, WordsInv, NEW c \in DOMAIN written, written[c].kind = "table",
         NEW p \in Tables, NEW r \in Tables, text[p.at].of = c, text[r.at].of = c
  PROVE  p = r
<1>1. text = file.text /\ file \in Source /\ written = file.written /\ DOMAIN text = 1 .. Len(text) /\ Len(text) \in Nat
  BY Here DEF written
<1>2. PICK x \in DOMAIN out : \E s \in PieceStarts(Tokens(out[x].toks)) :
           /\ s \in 1 .. Len(out[x].toks) /\ p = PieceFrom(out[x], s) /\ p.at = out[x].toks[s] /\ p.at \in DOMAIN text
           /\ HeadAt(text, p.at, {"TABLE"})
  BY TableAt
<1>3. PICK s \in 1 .. Len(out[x].toks) :
           /\ p = PieceFrom(out[x], s) /\ p.at = out[x].toks[s] /\ p.at \in DOMAIN text
           /\ HeadAt(text, p.at, {"TABLE"})
  BY <1>2
<1>4. PICK y \in DOMAIN out : \E t \in PieceStarts(Tokens(out[y].toks)) :
           /\ t \in 1 .. Len(out[y].toks) /\ r = PieceFrom(out[y], t) /\ r.at = out[y].toks[t] /\ r.at \in DOMAIN text
           /\ HeadAt(text, r.at, {"TABLE"})
  BY TableAt, SMTT(30)
<1>5. PICK t \in 1 .. Len(out[y].toks) :
           /\ r = PieceFrom(out[y], t) /\ r.at = out[y].toks[t] /\ r.at \in DOMAIN text
           /\ HeadAt(text, r.at, {"TABLE"})
  BY <1>4
<1>6. ASSUME NEW k \in DOMAIN text, text[k].of = c, HeadAt(text, k, {"TABLE"})
      PROVE  \A j \in 1 .. (k - 1) : text[j].of # c
  <2>1. BeginsA(file, k, "table") \/ IsRoutineText(file, k)
    BY <1>1, <1>6, SourceText DEF HeadsBegin
  <2>2. ~ IsRoutineText(file, k)
    BY <1>1, <1>6 DEF IsRoutineText
  <2> QED
    BY <1>1, <1>6, <2>1, <2>2 DEF BeginsA
<1>7. p.at = r.at
  <2>1. PICK k, m \in DOMAIN text : k = p.at /\ m = r.at
    BY <1>3, <1>5
  <2>2. /\ \A j \in 1 .. (k - 1) : text[j].of # c
        /\ \A j \in 1 .. (m - 1) : text[j].of # c
        /\ text[k].of = c /\ text[m].of = c
    BY <1>3, <1>5, <1>6, <2>1
  <2>3. k \notin 1 .. (m - 1) /\ m \notin 1 .. (k - 1)
    BY <2>2
  <2>4. k = m
    BY <1>1, <2>3
  <2> QED
    BY <2>1, <2>4
<1>8. x = y /\ s = t
  <2>1. s \in DOMAIN out[x].toks /\ t \in DOMAIN out[y].toks
    BY <1>3, <1>5, StatementOf
  <2>2. out[x].toks[s] = out[y].toks[t]
    BY <1>3, <1>5, <1>7
  <2> QED
    BY <2>1, <2>2, SamePlace
<1> QED
  BY <1>3, <1>5, <1>8

\* So the tables are those declared.
LEMMA DeclaredTables == TextInv /\ WordsInv => TablesAreThoseDeclared
<1> SUFFICES ASSUME TextInv, WordsInv, Done PROVE TablesAreThoseDeclared
  BY DEF TablesAreThoseDeclared
<1>1. \A p \in Tables : Construct(p).kind = "table" \/ FallsApart(text[p.at].of)
  BY NoTableMadeUp
<1>2. ASSUME NEW c \in DOMAIN written, written[c].kind = "table", ~ RunOntoData(c)
      PROVE  Cardinality({p \in Tables : text[p.at].of = c}) = 1
  <2>1. PICK p \in Tables : text[p.at].of = c
    BY <1>2, TableRead
  <2>2. \A r \in Tables : text[r.at].of = c => r = p
    BY <1>2, <2>1, TableOnce
  <2>3. {r \in Tables : text[r.at].of = c} = {p}
    BY <2>1, <2>2
  <2> QED
    BY <2>3, FS_Singleton
<1> QED
  BY <1>1, <1>2 DEF TablesAreThoseDeclared

\* At the end of every file that is split, of every dialect and however long, the tables its author
\* declared at the top level have been read, each once, but for those run onto data; and a table
\* that is read besides comes from a body that is known not to be whole (cutRunOn, routineBody).
THEOREM TablesAlwaysDeclared == Spec => []TablesAreThoseDeclared
BY TextInvariant, WordsInvariant, DeclaredTables, PTL
=============================================================================
