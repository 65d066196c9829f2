--------------------------- MODULE BaselineProofs ---------------------------
(***************************************************************************)
(* What the functions of core/baseline do to a baseline, for every set of  *)
(* fingerprints, files, verdicts and helpers; from it, that the calls of   *)
(* BaselineStore keep its types and never list a fingerprint twice; and    *)
(* the promises of AuditLedger and AuditAnswers.  With one call in flight  *)
(* at a time, and all of them in the language of the project, nothing      *)
(* codefit answered as recorded is lost while the code it is about stays.  *)
(* And however many calls overlap, fail or are killed, only a human's      *)
(* accept acknowledges, and a scan shows every affirmation nobody accepted *)
(* in what it looked at.                                                   *)
(***************************************************************************)
EXTENDS AuditLedger, AuditAnswers, SequenceTheorems, FiniteSetTheorems, TLAPS

-----------------------------------------------------------------------------
(* Lists of entries.                                                         *)

\* A list with one entry, and with none.
LEMMA OneEntry ==
  ASSUME NEW e \in Entry
  PROVE  <<e>> \in Seq(Entry) /\ <<e>> # <<>> /\ Len(<<e>>) = 1 /\ <<e>>[1] = e
OBVIOUS

LEMMA NoEntry == <<>> \in Seq(Entry) /\ Len(<<>>) = 0
BY EmptySeq, Zenon

\* What acknowledging an entry and adding a verdict to it change.
LEMMA EntryChanges ==
  ASSUME NEW e \in Entry
  PROVE  /\ Acknowledge(e) \in Entry
         /\ Acknowledge(e).ack = TRUE /\ Acknowledge(e).verdicts = e.verdicts
         /\ \A v \in Verdict :
              /\ AddVerdict(e, v) \in Entry
              /\ AddVerdict(e, v).ack = e.ack
              /\ AddVerdict(e, v).verdicts = e.verdicts \cup {v}
BY DEF Entry, Acknowledge, AddVerdict

\* The last entry of a tracked fingerprint is an entry.
LEMMA LatestType ==
  ASSUME NEW b \in Baselines, NEW f \in Tracked(b)
  PROVE  /\ f \in FP /\ b.items[f] \in Seq(Entry) /\ b.items[f] # <<>>
         /\ Len(b.items[f]) \in Nat \ {0}
         /\ Latest(b, f) \in Entry
<1>1. f \in FP /\ b.items[f] \in Seq(Entry) /\ b.items[f] # <<>>
  BY DEF Baselines, Tracked
<1>2. Len(b.items[f]) \in Nat \ {0}
  BY <1>1, EmptySeq, Zenon
<1>3. QED
  BY <1>1, <1>2, ElementOfSeq DEF Latest

\* Replacing one entry of a tracked fingerprint's list.
LEMMA EntryReplaced ==
  ASSUME NEW b \in Baselines, NEW f \in Tracked(b), NEW i \in 1..Len(b.items[f]), NEW e \in Entry
  PROVE  LET s == [b.items[f] EXCEPT ![i] = e]
         IN  s \in Seq(Entry) /\ s # <<>> /\ Len(s) = Len(b.items[f]) /\ s[i] = e
<1>1. b.items[f] \in Seq(Entry) /\ Len(b.items[f]) \in Nat \ {0}
  BY LatestType
<1> DEFINE s == [b.items[f] EXCEPT ![i] = e]
<1>2. s \in Seq(Entry) /\ Len(s) = Len(b.items[f]) /\ s[i] = e
  BY <1>1, ExceptSeq
<1>3. s # <<>>
  BY <1>1, <1>2
<1>4. QED
  BY <1>2, <1>3

\* The baseline with the same helpers over another item list.
LEMMA OverItems ==
  ASSUME NEW b \in Baselines, NEW items \in [FP -> Seq(Entry)]
  PROVE  /\ WithItems(b, items) \in Baselines
         /\ WithItems(b, items).items = items
         /\ WithItems(b, items).helpers = b.helpers
BY DEF Baselines, WithItems

-----------------------------------------------------------------------------
(* The functions.                                                            *)

\* Accept acknowledges what it is asked to and touches nothing else.
LEMMA AcceptFacts ==
  ASSUME NEW b \in Baselines, NEW fps \in SUBSET Tracked(b)
  PROVE  /\ Accept(b, fps) \in Baselines
         /\ Tracked(Accept(b, fps)) = Tracked(b)
         /\ Acked(Accept(b, fps)) = Acked(b) \cup fps
         /\ \A f \in Tracked(b) : Latest(Accept(b, fps), f).verdicts = Latest(b, f).verdicts
         /\ Single(b) => Single(Accept(b, fps))
<1> DEFINE a == Accept(b, fps)
           s(f) == [b.items[f] EXCEPT ![Len(b.items[f])] = Acknowledge(Latest(b, f))]
<1>1. /\ a.items = [f \in FP |-> IF f \in fps THEN s(f) ELSE b.items[f]]
      /\ a.helpers = b.helpers
      /\ a = [items |-> a.items, helpers |-> a.helpers]
  BY DEF Accept, WithItems
<1>2. ASSUME NEW f \in fps
      PROVE  /\ s(f) \in Seq(Entry) /\ s(f) # <<>> /\ Len(s(f)) = Len(b.items[f])
             /\ s(f)[Len(s(f))].ack = TRUE
             /\ s(f)[Len(s(f))].verdicts = Latest(b, f).verdicts
  <2> DEFINE e == Acknowledge(Latest(b, f))
  <2>1. f \in Tracked(b)
    OBVIOUS
  <2>2. e \in Entry /\ e.ack = TRUE /\ e.verdicts = Latest(b, f).verdicts
    BY <2>1, LatestType, EntryChanges
  <2>3. Len(b.items[f]) \in 1..Len(b.items[f])
    BY <2>1, LatestType
  <2>4. QED
    BY <2>1, <2>2, <2>3, EntryReplaced
<1>3. a \in Baselines
  <2>1. \A f \in FP : b.items[f] \in Seq(Entry)
    BY DEF Baselines
  <2>2. a.items \in [FP -> Seq(Entry)]
    BY <1>1, <1>2, <2>1
  <2>3. QED
    BY <1>1, <2>2 DEF Baselines
<1>4. Tracked(a) = Tracked(b)
  BY <1>1, <1>2 DEF Tracked
<1>5. \A f \in Tracked(b) : /\ Latest(a, f).verdicts = Latest(b, f).verdicts
                            /\ Latest(a, f).ack = IF f \in fps THEN TRUE ELSE Latest(b, f).ack
  BY <1>1, <1>2, ZenonT(40) DEF Latest, Tracked
<1>6. Acked(a) = Acked(b) \cup fps
  BY <1>4, <1>5 DEF Acked
<1>7. Single(b) => Single(a)
  BY <1>1, <1>2 DEF Single
<1>8. QED
  BY <1>3, <1>4, <1>5, <1>6, <1>7

\* RecordVerdict tracks the items, adds the verdict and acknowledges nothing.
LEMMA RecordFacts ==
  ASSUME NEW b \in Baselines, NEW fps \in SUBSET FP, NEW v \in Verdict
  PROVE  /\ RecordVerdict(b, fps, v) \in Baselines
         /\ Tracked(RecordVerdict(b, fps, v)) = Tracked(b) \cup fps
         /\ Single(b) =>
              /\ Single(RecordVerdict(b, fps, v))
              /\ Acked(RecordVerdict(b, fps, v)) = Acked(b)
              /\ \A f \in Tracked(b) : Latest(b, f).verdicts \subseteq Latest(RecordVerdict(b, fps, v), f).verdicts
              /\ \A f \in fps : v \in Latest(RecordVerdict(b, fps, v), f).verdicts
<1> DEFINE r == RecordVerdict(b, fps, v)
           new == AddVerdict(Bare, v)
           s(f) == [b.items[f] EXCEPT ![1] = AddVerdict(b.items[f][1], v)]
<1>1. /\ r.items = [f \in FP |-> IF f \notin fps THEN b.items[f]
                                 ELSE IF b.items[f] = <<>> THEN <<new>> ELSE s(f)]
      /\ r.helpers = b.helpers
      /\ r = [items |-> r.items, helpers |-> r.helpers]
  BY DEF RecordVerdict, WithItems
<1>2. new \in Entry /\ new.ack = FALSE /\ new.verdicts = {v}
  <2>1. Bare \in Entry /\ Bare.ack = FALSE /\ Bare.verdicts = {}
    BY DEF Entry, Bare
  <2>2. {} \cup {v} = {v}
    OBVIOUS
  <2>3. /\ AddVerdict(Bare, v) \in Entry
        /\ AddVerdict(Bare, v).ack = Bare.ack
        /\ AddVerdict(Bare, v).verdicts = Bare.verdicts \cup {v}
    BY <2>1, EntryChanges
  <2>4. QED
    BY <2>1, <2>2, <2>3
<1>3. <<new>> \in Seq(Entry) /\ <<new>> # <<>> /\ Len(<<new>>) = 1 /\ <<new>>[1] = new
  BY <1>2, OneEntry
<1>4. ASSUME NEW f \in fps, f \in Tracked(b)
      PROVE  /\ s(f) \in Seq(Entry) /\ s(f) # <<>> /\ Len(s(f)) = Len(b.items[f])
             /\ s(f)[1].ack = b.items[f][1].ack
             /\ s(f)[1].verdicts = b.items[f][1].verdicts \cup {v}
  <2> DEFINE e == AddVerdict(b.items[f][1], v)
  <2>1. 1 \in 1..Len(b.items[f]) /\ b.items[f] \in Seq(Entry)
    BY <1>4, LatestType
  <2>2. b.items[f][1] \in Entry
    BY <2>1, ElementOfSeq
  <2>3. e \in Entry /\ e.ack = b.items[f][1].ack /\ e.verdicts = b.items[f][1].verdicts \cup {v}
    BY <2>2, EntryChanges
  <2>4. QED
    BY <1>4, <2>1, <2>3, EntryReplaced
<1>5. r \in Baselines
  <2>1. \A f \in FP : b.items[f] \in Seq(Entry)
    BY DEF Baselines
  <2>2. \A f \in fps : b.items[f] # <<>> => s(f) \in Seq(Entry)
    BY <1>4 DEF Tracked
  <2>3. r.items \in [FP -> Seq(Entry)]
    BY <1>1, <1>3, <2>1, <2>2
  <2>4. QED
    BY <1>1, <2>3 DEF Baselines
<1>6. Tracked(r) = Tracked(b) \cup fps
  BY <1>1, <1>3, <1>4 DEF Tracked
<1>7. ASSUME Single(b)
      PROVE  /\ Single(r)
             /\ Acked(r) = Acked(b)
             /\ \A f \in Tracked(b) : Latest(b, f).verdicts \subseteq Latest(r, f).verdicts
             /\ \A f \in fps : v \in Latest(r, f).verdicts
  <2>1. Single(r)
    BY <1>1, <1>3, <1>4, <1>7 DEF Single, Tracked
  <2>2. \A f \in Tracked(b) : Len(b.items[f]) = 1
    <3> SUFFICES ASSUME NEW f \in Tracked(b)
                 PROVE  Len(b.items[f]) = 1
      OBVIOUS
    <3>1. f \in FP /\ Len(b.items[f]) \in Nat \ {0}
      BY LatestType
    <3>2. Len(b.items[f]) \in {0, 1}
      BY <1>7, <3>1 DEF Single
    <3>3. QED
      BY <3>1, <3>2
  <2>3. ASSUME NEW f \in Tracked(b)
        PROVE  /\ Latest(r, f).ack = Latest(b, f).ack
               /\ Latest(r, f).verdicts = Latest(b, f).verdicts \cup (IF f \in fps THEN {v} ELSE {})
    <3>1. CASE f \in fps
      BY <1>1, <1>4, <2>2, <3>1 DEF Latest, Tracked
    <3>2. CASE f \notin fps
      BY <1>1, <3>2 DEF Latest, Tracked
    <3>3. QED
      BY <3>1, <3>2
  <2>4. \A f \in fps \ Tracked(b) : Latest(r, f) = new
    BY <1>1, <1>3 DEF Latest, Tracked
  <2>5. Acked(r) = Acked(b)
    BY <1>2, <1>6, <2>3, <2>4 DEF Acked
  <2>6. QED
    BY <1>2, <2>1, <2>3, <2>4, <2>5
<1>8. QED
  BY <1>5, <1>6, <1>7

\* Prune takes away what it is asked to and touches nothing else.
LEMMA PruneFacts ==
  ASSUME NEW b \in Baselines, NEW fps \in SUBSET FP
  PROVE  /\ Prune(b, fps) \in Baselines
         /\ Tracked(Prune(b, fps)) = Tracked(b) \ fps
         /\ Acked(Prune(b, fps)) = Acked(b) \ fps
         /\ \A f \in Tracked(b) \ fps : Latest(Prune(b, fps), f) = Latest(b, f)
         /\ Single(b) => Single(Prune(b, fps))
<1> DEFINE p == Prune(b, fps)
<1>1. /\ p.items = [f \in FP |-> IF f \in fps THEN <<>> ELSE b.items[f]]
      /\ p.helpers = b.helpers
      /\ p = [items |-> p.items, helpers |-> p.helpers]
  BY DEF Prune, WithItems
<1>2. p \in Baselines
  <2>1. p.items \in [FP -> Seq(Entry)]
    BY <1>1, NoEntry DEF Baselines
  <2>2. QED
    BY <1>1, <2>1 DEF Baselines
<1>3. Tracked(p) = Tracked(b) \ fps
  BY <1>1 DEF Tracked
<1>4. \A f \in Tracked(b) \ fps : Latest(p, f) = Latest(b, f)
  BY <1>1 DEF Latest, Tracked
<1>5. Acked(p) = Acked(b) \ fps
  BY <1>3, <1>4 DEF Acked
<1>6. Single(b) => Single(p)
  BY <1>1, NoEntry DEF Single
<1>7. QED
  BY <1>2, <1>3, <1>4, <1>5, <1>6

\* Diff keeps the entry of every tracked item it observed or did not look at.
LEMMA DiffFacts ==
  ASSUME NEW b \in Baselines, NEW seen \in SUBSET FP, NEW looked \in SUBSET FP,
         NEW replaced \in Replacements(b, seen, looked)
  PROVE  /\ DiffNext(b, seen, looked, replaced) \in Baselines
         /\ seen \subseteq Tracked(DiffNext(b, seen, looked, replaced))
         /\ \A f \in Tracked(b) \ replaced :
              /\ f \in Tracked(DiffNext(b, seen, looked, replaced))
              /\ Latest(DiffNext(b, seen, looked, replaced), f) = Latest(b, f)
         /\ \A f \in seen \ Tracked(b) : Latest(DiffNext(b, seen, looked, replaced), f) = Bare
         /\ replaced \subseteq (Tracked(b) \cap looked) \ seen
         /\ Single(b) => Single(DiffNext(b, seen, looked, replaced))
<1> DEFINE n == DiffNext(b, seen, looked, replaced)
<1>1. /\ n.items = [f \in FP |-> NextEntries(b, seen, looked, replaced, f)]
      /\ n.helpers = b.helpers
      /\ n = [items |-> n.items, helpers |-> n.helpers]
  BY DEF DiffNext, WithItems
<1>2. replaced \subseteq (Tracked(b) \cap looked) \ seen
  BY DEF Replacements, GoneIn
<1>3. Bare \in Entry
  BY DEF Bare, Entry
<1>4. ASSUME NEW f \in seen \ Tracked(b)
      PROVE  n.items[f] = <<Bare>>
  <2>1. f \in FP /\ f \in NewIn(b, seen) /\ f \notin replaced
    BY <1>2 DEF NewIn
  <2>2. QED
    BY <1>1, <2>1 DEF NextEntries
<1>5. ASSUME NEW f \in Tracked(b) \cap seen \cap looked
      PROVE  n.items[f] = <<Latest(b, f)>> /\ Latest(b, f) \in Entry
  <2>1. /\ f \in FP /\ f \notin NewIn(b, seen) /\ f \notin replaced
        /\ Latest(b, f) \in Entry
    BY <1>2, LatestType DEF NewIn
  <2>2. n.items[f] = NextEntries(b, seen, looked, replaced, f)
    BY <1>1, <2>1
  <2>3. QED
    BY <2>1, <2>2 DEF NextEntries
<1>6. ASSUME NEW f \in replaced
      PROVE  n.items[f] = <<>>
  BY <1>1, <1>2 DEF NextEntries, NewIn, Tracked
<1>7. ASSUME NEW f \in FP \ replaced, f \notin seen \/ (f \in Tracked(b) /\ f \notin looked)
      PROVE  n.items[f] = b.items[f]
  BY <1>1, <1>7 DEF NextEntries, NewIn
<1>8. ASSUME NEW f \in FP
      PROVE  \/ f \in seen \ Tracked(b)
             \/ f \in Tracked(b) \cap seen \cap looked
             \/ f \in replaced
             \/ f \in FP \ replaced /\ (f \notin seen \/ (f \in Tracked(b) /\ f \notin looked))
  OBVIOUS
<1>9. \A f \in FP : n.items[f] \in Seq(Entry) /\ (Single(b) => Len(n.items[f]) \in {0, 1})
  <2> SUFFICES ASSUME NEW f \in FP
               PROVE  n.items[f] \in Seq(Entry) /\ (Single(b) => Len(n.items[f]) \in {0, 1})
    OBVIOUS
  <2>1. CASE f \in seen \ Tracked(b)
    BY <1>3, <1>4, <2>1, OneEntry, Zenon
  <2>2. CASE f \in Tracked(b) \cap seen \cap looked
    BY <1>5, <2>2, OneEntry
  <2>3. CASE f \in replaced
    BY <1>6, <2>3, NoEntry
  <2>4. CASE f \in FP \ replaced /\ (f \notin seen \/ (f \in Tracked(b) /\ f \notin looked))
    BY <1>7, <2>4 DEF Single, Baselines
  <2>5. QED
    BY <1>8, <2>1, <2>2, <2>3, <2>4
<1>10. n \in Baselines /\ (Single(b) => Single(n))
  <2>1. n.items \in [FP -> Seq(Entry)]
    BY <1>1, <1>9
  <2>2. QED
    BY <1>1, <1>9, <2>1 DEF Baselines, Single
<1>11. \A f \in FP \ replaced : f \in seen => f \in Tracked(n)
  BY <1>3, <1>4, <1>5, <1>7, <1>8, OneEntry DEF Tracked
<1>12. ASSUME NEW f \in Tracked(b) \ replaced
       PROVE  f \in Tracked(n) /\ Latest(n, f) = Latest(b, f)
  <2>1. f \in FP /\ b.items[f] # <<>>
    BY DEF Tracked
  <2>2. CASE f \in seen \cap looked
    BY <1>5, <2>1, <2>2, OneEntry, SMTT(30) DEF Tracked, Latest
  <2>3. CASE f \notin seen \cap looked
    BY <1>7, <2>1, <2>3 DEF Tracked, Latest
  <2>4. QED
    BY <2>2, <2>3
<1>13. \A f \in seen \ Tracked(b) : Latest(n, f) = Bare
  BY <1>3, <1>4, OneEntry DEF Latest
<1>14. QED
  BY <1>2, <1>10, <1>11, <1>12, <1>13

\* Diff keeps the entry of what it did not replace.
LEMMA DiffKeeps ==
  ASSUME NEW b \in Baselines, NEW seen \in SUBSET FP, NEW looked \in SUBSET FP,
         NEW replaced \in Replacements(b, seen, looked), NEW f \in Tracked(b) \ replaced
  PROVE  /\ f \in Tracked(DiffNext(b, seen, looked, replaced))
         /\ Latest(DiffNext(b, seen, looked, replaced), f) = Latest(b, f)
BY DiffFacts

\* Diff tracks nothing but what it kept and what it observed.
LEMMA DiffDrops ==
  ASSUME NEW b \in Baselines, NEW seen \in SUBSET FP, NEW looked \in SUBSET FP,
         NEW replaced \in Replacements(b, seen, looked),
         NEW f \in Tracked(DiffNext(b, seen, looked, replaced))
  PROVE  f \in (Tracked(b) \ replaced) \cup seen /\ replaced \cap seen = {}
<1> DEFINE n == DiffNext(b, seen, looked, replaced)
<1>1. f \in FP /\ n.items[f] = NextEntries(b, seen, looked, replaced, f) /\ n.items[f] # <<>>
  BY DEF Tracked, DiffNext, WithItems
<1> HIDE DEF n
<1>2. f \notin seen \cup Tracked(b) => n.items[f] = b.items[f]
  <2> SUFFICES ASSUME f \notin seen \cup Tracked(b) PROVE n.items[f] = b.items[f]
    OBVIOUS
  <2>1. f \notin NewIn(b, seen) /\ f \notin seen \cap Tracked(b) \cap looked /\ f \notin replaced
    BY DEF NewIn, Replacements, GoneIn
  <2>2. QED
    BY <1>1, <2>1 DEF NextEntries
<1>3. f \in replaced => n.items[f] = <<>>
  <2> SUFFICES ASSUME f \in replaced PROVE n.items[f] = <<>>
    OBVIOUS
  <2>1. f \notin NewIn(b, seen) /\ f \notin seen \cap Tracked(b) \cap looked
    BY DEF NewIn, Replacements, GoneIn
  <2>2. QED
    BY <1>1, <2>1 DEF NextEntries
<1>4. f \in seen \cup Tracked(b) /\ f \notin replaced
  BY <1>1, <1>2, <1>3 DEF Tracked
<1>5. QED
  BY <1>4 DEF Replacements, GoneIn

\* Diff acknowledges nothing: a new item is bare, a kept one keeps its entry.
LEMMA DiffAcks ==
  ASSUME NEW b \in Baselines, NEW seen \in SUBSET FP, NEW looked \in SUBSET FP,
         NEW replaced \in Replacements(b, seen, looked)
  PROVE  Acked(DiffNext(b, seen, looked, replaced)) \subseteq Acked(b)
<1>1. SUFFICES ASSUME NEW f \in Tracked(DiffNext(b, seen, looked, replaced)),
                      Latest(DiffNext(b, seen, looked, replaced), f).ack
               PROVE  f \in Acked(b)
  BY DEF Acked
<1>2. CASE f \in Tracked(b) \ replaced
  <2>1. Latest(DiffNext(b, seen, looked, replaced), f) = Latest(b, f)
    BY <1>2, DiffFacts
  <2>2. QED
    BY <1>1, <1>2, <2>1 DEF Acked
<1>3. CASE f \in seen \ Tracked(b)
  <2>1. Latest(DiffNext(b, seen, looked, replaced), f) = Bare
    BY <1>3, DiffFacts
  <2>2. QED
    BY <1>1, <2>1 DEF Bare
<1>4. f \in (Tracked(b) \ replaced) \cup seen /\ replaced \cap seen = {}
  BY DiffDrops
<1>5. QED
  BY <1>2, <1>3, <1>4

-----------------------------------------------------------------------------
(* The calls.                                                                *)

\* A temp file about to be renamed holds the whole of what the call computed.
TempWhole == \A c \in Callers : call[c].pc = "rename" => tmp[c] = call[c].mem

StoreInv == TypeOK /\ OneEntryEach /\ TempWhole

LEMMA IdleType == Idle \in Calls /\ Single(Idle.mem) /\ Idle.pc # "rename"
<1>1. NoFile \in Baselines
  BY NoEntry DEF NoFile, Baselines
<1>2. Single(NoFile)
  BY NoEntry DEF NoFile, Single
<1>3. QED
  BY <1>1, <1>2 DEF Idle, Calls, NoAnswer

\* A step that changes one call's local state, short of the rename.
LEMMA LocalStep ==
  ASSUME StoreInv, NEW c \in Callers, NEW r \in Calls,
         Single(r.mem), r.pc # "rename", Become(c, r), UNCHANGED <<code, disk>>,
         tmp' = tmp \/ tmp' = [tmp EXCEPT ![c] = NoTemp] \/ tmp' = [tmp EXCEPT ![c] = Torn]
  PROVE  StoreInv'
<1>1. call' \in [Callers -> Calls] /\ call'[c] = r /\ \A d \in Callers \ {c} : call'[d] = call[d]
  BY DEF Become, StoreInv, TypeOK
<1>2. tmp' \in [Callers -> Baselines \cup {NoTemp, Torn}] /\ \A d \in Callers \ {c} : tmp'[d] = tmp[d]
  BY DEF StoreInv, TypeOK
<1>3. TypeOK'
  BY <1>1, <1>2 DEF StoreInv, TypeOK
<1>4. OneEntryEach'
  BY <1>1 DEF StoreInv, OneEntryEach, Single
<1>5. TempWhole'
  BY <1>1, <1>2 DEF StoreInv, TempWhole
<1>6. QED
  BY <1>3, <1>4, <1>5 DEF StoreInv

LEMMA InitInv == Init => StoreInv
<1> SUFFICES ASSUME Init PROVE StoreInv
  OBVIOUS
<1>1. NoFile \in Baselines /\ Single(NoFile)
  BY NoEntry DEF NoFile, Baselines, Single
<1>2. TypeOK
  BY <1>1, IdleType DEF Init, TypeOK
<1>3. OneEntryEach
  BY <1>1, IdleType DEF Init, OneEntryEach
<1>4. TempWhole
  BY IdleType DEF Init, TempWhole
<1>5. QED
  BY <1>2, <1>3, <1>4 DEF StoreInv

\* With nothing new at its file and category, an item is never replaced.
LEMMA NothingToReplace ==
  ASSUME NEW b \in Baselines, NEW seen \in SUBSET FP, NEW looked \in SUBSET FP,
         NEW replaced \in Replacements(b, seen, looked), NEW f \in replaced
  PROVE  \E g \in seen : SameLoc(g, f)
<1> DEFINE new == NewIn(b, seen)
           gone == GoneIn(b, seen, looked)
<1>1. f \in gone /\ gone \subseteq FP /\ new \subseteq seen
  BY DEF Replacements, GoneIn, NewIn, Tracked
<1>2. f \in AtLoc(replaced, f) /\ f \in AtLoc(gone, f)
  BY <1>1 DEF AtLoc, SameLoc
<1>3. IsFiniteSet(AtLoc(replaced, f)) /\ IsFiniteSet(AtLoc(gone, f))
  <2>1. AtLoc(replaced, f) \subseteq FP /\ AtLoc(gone, f) \subseteq FP
    BY <1>1 DEF AtLoc, Replacements
  <2>2. QED
    BY <2>1, FS_Subset, FingerprintAssumption
<1>4. SUFFICES ASSUME AtLoc(new, f) = {} PROVE FALSE
  BY <1>1 DEF AtLoc
<1>5. Cardinality(AtLoc(new, f)) = 0
  BY <1>4, FS_EmptySet
<1>6. \/ Cardinality(AtLoc(replaced, f)) = 0
      \/ Cardinality(AtLoc(gone, f)) < 0
  BY <1>1, <1>5 DEF Replacements
<1>7. Cardinality(AtLoc(gone, f)) \in Nat
  BY <1>3, FS_CardinalityType
<1>8. AtLoc(replaced, f) = {}
  BY <1>3, <1>6, <1>7, FS_EmptySet
<1>9. QED
  BY <1>2, <1>8

\* What a scan in the language lang looks at, and what it observes.
LookedAt(lang, dbRan, scp) == InScope(Scanned(lang \in Exposed, dbRan, scp), scp.files)
Observed(lang, dbRan, scp, cross) ==
  (IF lang \in Exposed THEN SecuritySeen(lang, scp.files) ELSE {})
    \cup (IF dbRan THEN DBSeen ELSE {}) \cup cross
CrossOf(lang, dbRan, scp) == IF dbRan THEN CrossSeen(lang, scp) ELSE {{}}

\* The call c's scan runs, with its choices named.
Ran(c, lang, scp, dbRan, fits, cross, replaced, hidden) ==
  LET looked == LookedAt(lang, dbRan, scp)
      seen   == Observed(lang, dbRan, scp, cross)
  IN  /\ cross \in CrossOf(lang, dbRan, scp)
      /\ replaced \in Replacements(call[c].mem, seen, looked)
      /\ hidden \in SUBSET Withholdable(DiffShown(call[c].mem, seen, looked))
      /\ Become(c, Diffed(call[c], seen, looked, replaced, hidden, fits))

LEMMA ScanChoices ==
  ASSUME NEW c \in Callers, ScanRun(c)
  PROVE  \E lang \in Language, scp \in Scopes, dbRan \in BOOLEAN, fits \in BOOLEAN :
            \E cross, replaced, hidden : Ran(c, lang, scp, dbRan, fits, cross, replaced, hidden)
<1>1. PICK lang \in Language, scp \in Scopes, dbRan \in BOOLEAN, fits \in BOOLEAN :
       LET secRan == lang \in Exposed
           looked == InScope(Scanned(secRan, dbRan, scp), scp.files)
       IN  /\ dbRan => SchemaFiles # {} /\ dbInputsInScope(scp)
           /\ secRan \/ dbRan
           /\ \E cross \in IF dbRan THEN CrossSeen(lang, scp) ELSE {{}} :
                LET seen == (IF secRan THEN SecuritySeen(lang, scp.files) ELSE {})
                              \cup (IF dbRan THEN DBSeen ELSE {}) \cup cross
                IN  \E replaced \in Replacements(call[c].mem, seen, looked),
                       hidden \in SUBSET Withholdable(DiffShown(call[c].mem, seen, looked)) :
                      Become(c, Diffed(call[c], seen, looked, replaced, hidden, fits))
  BY Zenon DEF ScanRun
<1> DEFINE looked == LookedAt(lang, dbRan, scp)
<1>2. PICK cross \in CrossOf(lang, dbRan, scp) :
        LET seen == (IF lang \in Exposed THEN SecuritySeen(lang, scp.files) ELSE {})
                      \cup (IF dbRan THEN DBSeen ELSE {}) \cup cross
        IN  \E replaced \in Replacements(call[c].mem, seen, looked),
               hidden \in SUBSET Withholdable(DiffShown(call[c].mem, seen, looked)) :
              Become(c, Diffed(call[c], seen, looked, replaced, hidden, fits))
  BY <1>1 DEF CrossOf, LookedAt
<1> DEFINE seen == Observed(lang, dbRan, scp, cross)
<1>3. PICK replaced \in Replacements(call[c].mem, seen, looked),
           hidden \in SUBSET Withholdable(DiffShown(call[c].mem, seen, looked)) :
        Become(c, Diffed(call[c], seen, looked, replaced, hidden, fits))
  BY <1>2 DEF Observed
<1>4. Ran(c, lang, scp, dbRan, fits, cross, replaced, hidden)
  BY <1>2, <1>3 DEF Ran
<1>5. QED
  BY <1>1, <1>4

\* A scan looks at fingerprints and observes fingerprints.
LEMMA ScanWithin ==
  ASSUME code \in SUBSET FP, NEW lang, NEW dbRan, NEW scp, NEW cross \in CrossOf(lang, dbRan, scp)
  PROVE  /\ LookedAt(lang, dbRan, scp) \in SUBSET FP
         /\ Observed(lang, dbRan, scp, cross) \in SUBSET FP
         /\ cross \subseteq code \cap InCats(CrossCats)
<1>1. cross \subseteq code \cap InCats(CrossCats)
  BY DEF CrossOf, CrossSeen
<1>2. QED
  BY <1>1 DEF LookedAt, Observed, InScope, SecuritySeen, DBSeen

\* Whatever it looks at and does not observe, a scan never gives up an item whose code
\* is there: what could replace it was not observed either.
LEMMA ReplacesNoCode ==
  ASSUME code \in SUBSET FP, NEW b \in Baselines, NEW lang, NEW scp \in Scopes, NEW dbRan \in BOOLEAN,
         NEW cross \in CrossOf(lang, dbRan, scp),
         NEW replaced \in Replacements(b, Observed(lang, dbRan, scp, cross), LookedAt(lang, dbRan, scp))
  PROVE  replaced \cap code = {}
<1> DEFINE looked == LookedAt(lang, dbRan, scp)
           seen == Observed(lang, dbRan, scp, cross)
<1>1. looked \in SUBSET FP /\ seen \in SUBSET FP /\ cross \subseteq InCats(CrossCats)
  BY ScanWithin
<1>2. SUFFICES ASSUME NEW f \in replaced, f \in code PROVE FALSE
  OBVIOUS
<1>3. f \in FP /\ f \in looked /\ f \notin seen
  BY DEF Replacements, GoneIn, Tracked
<1> HIDE DEF seen, looked
<1>4. PICK g \in seen : SameLoc(g, f)
  BY <1>1, NothingToReplace DEF seen, looked
<1>5. CategoryOf[g] = CategoryOf[f]
  BY <1>4 DEF SameLoc
<1>6. CategoryOf[f] \in Scanned(lang \in Exposed, dbRan, scp) /\ FileOf[f] \in scp.files
  BY <1>3 DEF looked, LookedAt, InScope
<1>7. CategoryOf[f] \notin SecurityCats
  <2> SUFFICES ASSUME CategoryOf[f] \in SecurityCats PROVE FALSE
    OBVIOUS
  <2>1. lang \in Exposed
    BY <1>6, StoreAssumption DEF Scanned
  <2>2. g \in SecuritySeen(lang, scp.files)
    BY <1>1, <1>4, <1>5, StoreAssumption DEF seen, Observed, DBSeen, InCats
  <2>3. WrittenIn[FileOf[f]] = lang
    BY <1>4, <2>2 DEF SecuritySeen, SameLoc
  <2>4. QED
    BY <1>2, <1>3, <1>6, <2>1, <2>3 DEF seen, Observed, SecuritySeen, InCats
<1>8. dbRan /\ CategoryOf[f] \notin DBCats
  BY <1>2, <1>3, <1>6, <1>7 DEF Scanned, seen, Observed, DBSeen, InCats
<1>9. CategoryOf[f] \in CrossCats /\ ~scp.narrows
  BY <1>6, <1>7, <1>8 DEF Scanned
<1>10. cross = {}
  BY <1>2, <1>3, <1>8, <1>9 DEF CrossOf, CrossSeen, seen, Observed, InCats
<1>11. QED
  BY <1>4, <1>5, <1>7, <1>8, <1>10 DEF seen, Observed, SecuritySeen, DBSeen, InCats

\* A scan's step is Diff over some observation and some part of the baseline; it
\* never gives up an item whose code is there.
LEMMA ScanIsDiff ==
  ASSUME code \in SUBSET FP, NEW c \in Callers, call[c].mem \in Baselines, ScanRun(c)
  PROVE  \E fits \in BOOLEAN, looked \in SUBSET FP, seen \in SUBSET FP, replaced \in SUBSET FP,
            hidden \in SUBSET (FP \ Affirming) :
           /\ replaced \in Replacements(call[c].mem, seen, looked)
           /\ replaced \cap code = {}
           /\ Become(c, Diffed(call[c], seen, looked, replaced, hidden, fits))
<1>0. PICK lang \in Language, scp \in Scopes, dbRan \in BOOLEAN, fits \in BOOLEAN :
          \E cross, replaced, hidden : Ran(c, lang, scp, dbRan, fits, cross, replaced, hidden)
  BY ScanChoices
<1>1. PICK cross, replaced, hidden : Ran(c, lang, scp, dbRan, fits, cross, replaced, hidden)
  BY <1>0
<1> DEFINE looked == LookedAt(lang, dbRan, scp)
           seen   == Observed(lang, dbRan, scp, cross)
<1>2. /\ cross \in CrossOf(lang, dbRan, scp)
      /\ replaced \in Replacements(call[c].mem, seen, looked)
      /\ hidden \in SUBSET Withholdable(DiffShown(call[c].mem, seen, looked))
      /\ Become(c, Diffed(call[c], seen, looked, replaced, hidden, fits))
  BY <1>1 DEF Ran
<1>3. looked \in SUBSET FP /\ seen \in SUBSET FP
  BY <1>2, ScanWithin
<1>4. replaced \in SUBSET FP /\ replaced \cap code = {}
  <2>1. replaced \in SUBSET FP
    BY <1>2 DEF Replacements, GoneIn, Tracked
  <2>2. replaced \cap code = {}
    BY <1>2, ReplacesNoCode
  <2>3. QED
    BY <2>1, <2>2
<1>5. hidden \in SUBSET (FP \ Affirming)
  BY <1>2, <1>3 DEF Withholdable, InCats
<1> HIDE DEF looked, seen
<1>6. QED
  BY <1>2, <1>3, <1>4, <1>5

\* What Diff makes of a call.
LEMMA DiffedType ==
  ASSUME NEW r \in Calls, Single(r.mem), NEW seen \in SUBSET FP, NEW looked \in SUBSET FP,
         NEW replaced \in Replacements(r.mem, seen, looked),
         NEW hidden \in SUBSET (FP \ Affirming), NEW fits \in BOOLEAN
  PROVE  LET d == Diffed(r, seen, looked, replaced, hidden, fits)
         IN  /\ d \in Calls /\ Single(d.mem)
             /\ d.pc \in {"create", "reply"} /\ d.op = r.op
             /\ d.fps = r.fps /\ d.verdict = r.verdict
             /\ d.mem = DiffNext(r.mem, seen, looked, replaced)
             /\ d.seen = seen /\ d.looked = looked
             /\ d.answer.shown = DiffShown(r.mem, seen, looked) \ hidden
<1> DEFINE n == DiffNext(r.mem, seen, looked, replaced)
           shown == DiffShown(r.mem, seen, looked)
           a == [shown |-> shown \ hidden, withheld |-> hidden, silent |-> seen \ shown,
                 gone |-> DiffGone(r.mem, seen, looked, replaced), fits |-> fits]
           d == [r EXCEPT !.pc = AfterScan(fits), !.mem = n, !.seen = seen,
                          !.looked = looked, !.answer = a]
<1>0. r.mem \in Baselines
  BY DEF Calls
<1>1. n \in Baselines /\ Single(n)
  <2>1. \A b \in Baselines : \A R \in Replacements(b, seen, looked) :
          DiffNext(b, seen, looked, R) \in Baselines
  BY DiffFacts
  <2>2. \A b \in Baselines : \A R \in Replacements(b, seen, looked) :
          (Single(b) => Single(DiffNext(b, seen, looked, R)))
    BY DiffFacts
  <2>3. QED
    BY <1>0, <2>1, <2>2
<1>2. a \in [shown : SUBSET FP, withheld : SUBSET FP, silent : SUBSET FP, gone : SUBSET FP,
               fits : BOOLEAN]
  BY DEF DiffShown, NewIn, DiffGone, GoneIn, Tracked
<1>3. AfterScan(fits) \in {"create", "reply"}
  BY DEF AfterScan
<1>4. a.shown = shown \ hidden
  OBVIOUS
<1> HIDE DEF n, shown, a
<1>5. /\ d \in Calls /\ d.pc = AfterScan(fits) /\ d.op = r.op /\ d.fps = r.fps
      /\ d.verdict = r.verdict /\ d.mem = n /\ d.seen = seen /\ d.looked = looked /\ d.answer = a
  BY <1>1, <1>2, <1>3 DEF Calls
<1>6. Diffed(r, seen, looked, replaced, hidden, fits) = d
  BY DEF Diffed, n, shown, a
<1> HIDE DEF d
<1>7. QED
  BY <1>1, <1>3, <1>4, <1>5, <1>6 DEF n, shown

\* What a scan's call carries after Diff, and what it shows.
LEMMA DiffedCarries ==
  ASSUME NEW r \in Calls, NEW seen, NEW looked, NEW replaced, NEW hidden, NEW fits
  PROVE  LET d == Diffed(r, seen, looked, replaced, hidden, fits)
         IN  /\ d.pc \in {"create", "reply"} /\ d.op = r.op
             /\ d.mem = DiffNext(r.mem, seen, looked, replaced)
             /\ d.seen = seen /\ d.looked = looked
             /\ d.answer.shown = DiffShown(r.mem, seen, looked) \ hidden
             /\ d.answer.withheld = hidden /\ d.answer.fits = fits
             /\ d.answer.silent = seen \ DiffShown(r.mem, seen, looked)
             /\ d.answer.gone = DiffGone(r.mem, seen, looked, replaced)
             /\ d.pc = "create" => fits
BY DEF Diffed, AfterScan, Calls

\* Each step of a call keeps the invariant.
LEMMA WorkInv ==
  ASSUME StoreInv, NEW c \in Callers, Work(c) \/ Reply(c)
  PROVE  StoreInv'
<1>1. /\ code \in SUBSET FP /\ disk \in Baselines /\ Single(disk)
      /\ call[c] \in Calls /\ call[c].mem \in Baselines /\ Single(call[c].mem)
  BY DEF StoreInv, TypeOK, OneEntryEach, Calls
<1>2. CASE ScanLoad(c)
  <2> DEFINE r == [Idle EXCEPT !.pc = "scan", !.op = "scan-all", !.mem = disk]
  <2>1. r \in Calls /\ r.mem = disk /\ r.pc = "scan"
    BY <1>1, IdleType DEF Calls
  <2>2. QED
    BY <1>1, <1>2, <2>1, LocalStep DEF ScanLoad
<1>3. CASE ScanRun(c)
  <2>1. PICK fits \in BOOLEAN, looked \in SUBSET FP, seen \in SUBSET FP,
             replaced \in SUBSET FP, hidden \in SUBSET (FP \ Affirming) :
          /\ replaced \in Replacements(call[c].mem, seen, looked)
          /\ Become(c, Diffed(call[c], seen, looked, replaced, hidden, fits))
    BY <1>1, <1>3, ScanIsDiff
  <2> DEFINE r == Diffed(call[c], seen, looked, replaced, hidden, fits)
  <2>2. r \in Calls /\ Single(r.mem) /\ r.pc # "rename"
    BY <1>1, <2>1, DiffedType, ZenonT(40)
  <2>3. UNCHANGED <<code, disk>> /\ tmp' = tmp
    BY <1>3 DEF ScanRun
  <2>4. QED
    BY <2>1, <2>2, <2>3, LocalStep
<1>4. CASE ScanFails(c)
  BY <1>4, IdleType, LocalStep DEF ScanFails
<1>5. CASE AcceptLoad(c)
  <2>1. PICK fps \in SUBSET Tracked(disk) :
          Become(c, [Idle EXCEPT !.pc = "create", !.op = "accept", !.fps = fps,
                                 !.mem = Accept(disk, fps)])
    BY <1>5 DEF AcceptLoad
  <2>2. Accept(disk, fps) \in Baselines /\ Single(Accept(disk, fps))
    BY <1>1, AcceptFacts
  <2> DEFINE r == [Idle EXCEPT !.pc = "create", !.op = "accept", !.fps = fps, !.mem = Accept(disk, fps)]
  <2>3. r \in Calls /\ r.mem = Accept(disk, fps) /\ r.pc = "create"
    BY <2>2, IdleType DEF Calls, Tracked
  <2>4. QED
    BY <1>5, <2>1, <2>2, <2>3, LocalStep DEF AcceptLoad
<1>6. CASE VerdictAnalyse(c)
  <2>1. PICK v \in Verdict, fps \in SUBSET FP :
          Become(c, [Idle EXCEPT !.pc = "record", !.op = "record-verdict",
                                 !.seen = fps, !.fps = fps, !.verdict = {v}])
    BY <1>1, <1>6 DEF VerdictAnalyse, SecuritySeen
  <2> DEFINE r == [Idle EXCEPT !.pc = "record", !.op = "record-verdict",
                               !.seen = fps, !.fps = fps, !.verdict = {v}]
  <2>2. r \in Calls /\ r.mem = Idle.mem /\ r.pc = "record"
    BY IdleType DEF Calls
  <2>3. QED
    BY <1>6, <2>1, <2>2, IdleType, LocalStep DEF VerdictAnalyse
<1>7. CASE VerdictLoad(c)
  <2>1. PICK v \in call[c].verdict :
          Become(c, [call[c] EXCEPT !.pc = "create", !.mem = RecordVerdict(disk, call[c].fps, v)])
    BY <1>7 DEF VerdictLoad
  <2>2. v \in Verdict /\ call[c].fps \in SUBSET FP
    BY <1>1 DEF Calls
  <2>3. RecordVerdict(disk, call[c].fps, v) \in Baselines /\ Single(RecordVerdict(disk, call[c].fps, v))
    BY <1>1, <2>2, RecordFacts
  <2> DEFINE r == [call[c] EXCEPT !.pc = "create", !.mem = RecordVerdict(disk, call[c].fps, v)]
  <2>4. r \in Calls /\ r.mem = RecordVerdict(disk, call[c].fps, v) /\ r.pc = "create"
    BY <1>1, <2>3 DEF Calls
  <2>5. QED
    BY <1>7, <2>1, <2>3, <2>4, LocalStep DEF VerdictLoad
<1>8. CASE PruneAnalyse(c)
  <2>1. PICK wanted \in SUBSET FP, lang \in Language \cap Exposed :
          Become(c, [Idle EXCEPT !.pc = "prune", !.op = "prune", !.fps = wanted,
                                 !.seen = SecuritySeen(lang, File)])
    BY <1>8 DEF PruneAnalyse
  <2>2. SecuritySeen(lang, File) \in SUBSET FP
    BY <1>1 DEF SecuritySeen
  <2> DEFINE r == [Idle EXCEPT !.pc = "prune", !.op = "prune", !.fps = wanted, !.seen = SecuritySeen(lang, File)]
  <2>3. r \in Calls /\ r.mem = Idle.mem /\ r.pc = "prune"
    BY <2>2, IdleType DEF Calls
  <2>4. QED
    BY <1>8, <2>1, <2>3, IdleType, LocalStep DEF PruneAnalyse
<1>9. CASE PruneLoad(c)
  <2> DEFINE targets == PruneTargets(disk, call[c].seen, call[c].fps)
             r == [call[c] EXCEPT !.pc = "create", !.fps = targets, !.mem = Prune(disk, targets)]
  <2>1. targets \in SUBSET FP
    BY DEF PruneTargets, Tracked
  <2>2. Prune(disk, targets) \in Baselines /\ Single(Prune(disk, targets))
    BY <1>1, <2>1, PruneFacts
  <2>3. r \in Calls /\ r.mem = Prune(disk, targets) /\ r.pc = "create"
    BY <1>1, <2>1, <2>2 DEF Calls
  <2>4. Become(c, r)
    BY <1>9 DEF PruneLoad
  <2>5. QED
    BY <1>9, <2>2, <2>3, <2>4, LocalStep DEF PruneLoad
<1>10. CASE RegisterLoad(c)
  <2>1. PICK h \in Helper :
          Become(c, [Idle EXCEPT !.pc = "create", !.op = "register", !.mem = RegisterAuthzHelper(disk, h)])
    BY <1>10 DEF RegisterLoad
  <2>2. RegisterAuthzHelper(disk, h) \in Baselines /\ Single(RegisterAuthzHelper(disk, h))
    BY <1>1 DEF RegisterAuthzHelper, Baselines, Single
  <2> DEFINE r == [Idle EXCEPT !.pc = "create", !.op = "register", !.mem = RegisterAuthzHelper(disk, h)]
  <2>3. r \in Calls /\ r.mem = RegisterAuthzHelper(disk, h) /\ r.pc = "create"
    BY <2>2, IdleType DEF Calls
  <2>4. QED
    BY <1>10, <2>1, <2>2, <2>3, LocalStep DEF RegisterLoad
<1>11. CASE UnregisterLoad(c)
  <2>1. PICK h :
          Become(c, [Idle EXCEPT !.pc = "create", !.op = "unregister", !.mem = UnregisterAuthzHelper(disk, h)])
    BY <1>11 DEF UnregisterLoad
  <2>2. UnregisterAuthzHelper(disk, h) \in Baselines /\ Single(UnregisterAuthzHelper(disk, h))
    BY <1>1 DEF UnregisterAuthzHelper, Baselines, Single
  <2> DEFINE r == [Idle EXCEPT !.pc = "create", !.op = "unregister", !.mem = UnregisterAuthzHelper(disk, h)]
  <2>3. r \in Calls /\ r.mem = UnregisterAuthzHelper(disk, h) /\ r.pc = "create"
    BY <2>2, IdleType DEF Calls
  <2>4. QED
    BY <1>11, <2>1, <2>2, <2>3, LocalStep DEF UnregisterLoad
<1>12. CASE SaveCreate(c)
  <2> DEFINE r == [call[c] EXCEPT !.pc = "write"]
  <2>1. r \in Calls /\ r.mem = call[c].mem /\ r.pc = "write"
    BY <1>1 DEF Calls
  <2>2. QED
    BY <1>1, <1>12, <2>1, LocalStep DEF SaveCreate
<1>13. CASE SaveWrite(c)
  <2> DEFINE r == [call[c] EXCEPT !.pc = "rename"]
  <2>1. r \in Calls /\ r.mem = call[c].mem /\ r.pc = "rename"
    BY <1>1 DEF Calls
  <2>2. /\ call' \in [Callers -> Calls] /\ call'[c] = r /\ \A d \in Callers \ {c} : call'[d] = call[d]
        /\ tmp' \in [Callers -> Baselines \cup {NoTemp, Torn}]
        /\ tmp'[c] = call[c].mem /\ \A d \in Callers \ {c} : tmp'[d] = tmp[d]
        /\ code' = code /\ disk' = disk
    BY <1>1, <1>13, <2>1 DEF SaveWrite, Become, StoreInv, TypeOK
  <2>3. TypeOK'
    BY <2>2 DEF StoreInv, TypeOK
  <2>4. OneEntryEach'
    <3>1. \A d \in Callers : Single(call'[d].mem)
      BY <1>1, <2>1, <2>2 DEF StoreInv, OneEntryEach
    <3>2. Single(disk')
      BY <1>1, <2>2
    <3>3. QED
      BY <3>1, <3>2 DEF OneEntryEach, Single
  <2>5. TempWhole'
    BY <2>1, <2>2 DEF StoreInv, TempWhole
  <2>6. QED
    BY <2>3, <2>4, <2>5 DEF StoreInv
<1>14. CASE SaveRename(c)
  <2> DEFINE r == [call[c] EXCEPT !.pc = "reply"]
  <2>1. r \in Calls /\ r.mem = call[c].mem /\ r.pc = "reply"
    BY <1>1 DEF Calls
  <2>2. disk' = call[c].mem
    BY <1>14 DEF SaveRename, StoreInv, TempWhole
  <2>3. /\ call' \in [Callers -> Calls] /\ call'[c] = r /\ \A d \in Callers \ {c} : call'[d] = call[d]
        /\ tmp' \in [Callers -> Baselines \cup {NoTemp, Torn}]
        /\ \A d \in Callers \ {c} : tmp'[d] = tmp[d]
        /\ code' = code
    BY <1>1, <1>14, <2>1 DEF SaveRename, Become, StoreInv, TypeOK
  <2>4. TypeOK'
    BY <1>1, <2>2, <2>3 DEF StoreInv, TypeOK
  <2>5. OneEntryEach'
    <3>1. \A d \in Callers : Single(call'[d].mem)
      BY <1>1, <2>1, <2>3 DEF StoreInv, OneEntryEach
    <3>2. Single(disk')
      BY <1>1, <2>2
    <3>3. QED
      BY <3>1, <3>2 DEF OneEntryEach, Single
  <2>6. TempWhole'
    BY <2>1, <2>3 DEF StoreInv, TempWhole
  <2>7. QED
    BY <2>4, <2>5, <2>6 DEF StoreInv
<1>15. CASE SaveFails(c)
  BY <1>15, IdleType, LocalStep DEF SaveFails
<1>16. CASE Crash(c)
  BY <1>16, IdleType, LocalStep DEF Crash
<1>17. CASE Reply(c)
  BY <1>17, IdleType, LocalStep DEF Reply
<1>18. QED
  BY <1>2, <1>3, <1>4, <1>5, <1>6, <1>7, <1>8, <1>9, <1>10, <1>11, <1>12, <1>13, <1>14,
     <1>15, <1>16, <1>17 DEF Work

LEMMA StepInv == StoreInv /\ [Next]_vars => StoreInv'
<1> SUFFICES ASSUME StoreInv, [Next]_vars PROVE StoreInv'
  OBVIOUS
<1>1. CASE Edit
  <2>1. code' \subseteq FP /\ UNCHANGED <<disk, tmp, call>>
    BY <1>1 DEF Edit, StoreInv, TypeOK
  <2>2. QED
    BY <2>1 DEF StoreInv, TypeOK, OneEntryEach, TempWhole, Single
<1>2. CASE \E c \in Callers : Work(c) \/ Reply(c)
  BY <1>2, WorkInv
<1>3. CASE UNCHANGED vars
  BY <1>3 DEF vars, StoreInv, TypeOK, OneEntryEach, TempWhole, Single
<1>4. QED
  BY <1>1, <1>2, <1>3 DEF Next

-----------------------------------------------------------------------------
(* Calls that come one at a time.                                            *)

OneInFlight == \A c, d \in Callers : call[c] # Idle /\ call[d] # Idle => c = d

\* Whoever acts, the others are idle.
LEMMA OthersIdle ==
  ASSUME Serial, OneInFlight, NEW c \in Callers, call[c] # Idle \/ MayStart(c)
  PROVE  \A d \in Callers \ {c} : call[d] = Idle
BY DEF OneInFlight, MayStart

\* A step of a call is one of a call in flight or of one that may start; it changes
\* no other, and the file only at the rename.
LEMMA StepOfCall ==
  ASSUME NEW c \in Callers, Work(c) \/ Reply(c)
  PROVE  /\ \E r : Become(c, r)
         /\ call[c] # Idle \/ MayStart(c)
         /\ UNCHANGED code
         /\ ~SaveRename(c) => UNCHANGED disk
<1> USE DEF Idle
<1>1. CASE ScanLoad(c) \/ AcceptLoad(c) \/ VerdictAnalyse(c) \/ PruneAnalyse(c)
             \/ RegisterLoad(c) \/ UnregisterLoad(c)
  BY <1>1 DEF ScanLoad, AcceptLoad, VerdictAnalyse, PruneAnalyse, RegisterLoad, UnregisterLoad
<1>2. CASE ScanRun(c)
  BY <1>2 DEF ScanRun
<1>3. CASE PruneLoad(c) \/ ScanFails(c) \/ Reply(c)
  BY <1>3 DEF PruneLoad, ScanFails, Reply
<1>4. CASE SaveCreate(c) \/ SaveWrite(c) \/ SaveRename(c) \/ SaveFails(c) \/ Crash(c)
  BY <1>4 DEF SaveCreate, SaveWrite, SaveRename, SaveFails, Crash
<1>5. CASE VerdictLoad(c)
  <2>1. PICK v \in call[c].verdict :
          Become(c, [call[c] EXCEPT !.pc = "create", !.mem = RecordVerdict(disk, call[c].fps, v)])
    BY <1>5 DEF VerdictLoad
  <2>2. \E r : Become(c, r)
    BY <2>1, Zenon
  <2>3. QED
    BY <1>5, <2>2 DEF VerdictLoad
<1>6. QED
  BY <1>1, <1>2, <1>3, <1>4, <1>5, SMTT(30) DEF Work

\* One at a time, the others stay idle.
LEMMA AloneStep ==
  ASSUME Serial, TypeOK, OneInFlight, NEW c \in Callers, Work(c) \/ Reply(c)
  PROVE  /\ \A d \in Callers \ {c} : call[d] = Idle /\ call'[d] = Idle
         /\ OneInFlight'
<1>1. \A d \in Callers \ {c} : call[d] = Idle
  BY StepOfCall, OthersIdle
<1>2. \A d \in Callers \ {c} : call'[d] = call[d]
  BY StepOfCall DEF Become, TypeOK
<1>3. QED
  BY <1>1, <1>2 DEF OneInFlight

\* The variables keep their types, and the file is never torn: whatever step of
\* Save fails or is killed, and however many calls overlap.
THEOREM TypeCorrect == Spec => []TypeOK
<1>1. Init => StoreInv
  BY InitInv
<1>2. StoreInv /\ [Next]_vars => StoreInv'
  BY StepInv
<1>3. StoreInv => TypeOK
  BY DEF StoreInv
<1>4. QED
  BY <1>1, <1>2, <1>3, PTL DEF Spec

\* No fingerprint is ever listed twice, however many calls overlap.
THEOREM NoDuplicates == Spec => []OneEntryEach
<1>1. Init => StoreInv
  BY InitInv
<1>2. StoreInv /\ [Next]_vars => StoreInv'
  BY StepInv
<1>3. StoreInv => OneEntryEach
  BY DEF StoreInv
<1>4. QED
  BY <1>1, <1>2, <1>3, PTL DEF Spec

-----------------------------------------------------------------------------
(* What a scan reports gone.                                                 *)

\* Every request names the language of all the code: a walk in another one opens
\* none of its files.
OneLanguage ==
  \A f \in InCats(SecurityCats), lang \in Language \cap Exposed : WrittenIn[FileOf[f]] = lang

\* Where the cross finds anything, every language asked for has its query filters
\* extracted.
CrossIsExtracted == InCats(CrossCats) # {} => Language \subseteq Extracting

\* Then a scan observes all the code it looks at.
LEMMA LooksAndSees ==
  ASSUME OneLanguage, CrossIsExtracted, code \in SUBSET FP,
         NEW lang \in Language, NEW scp \in Scopes, NEW dbRan \in BOOLEAN,
         NEW cross \in CrossOf(lang, dbRan, scp)
  PROVE  code \cap LookedAt(lang, dbRan, scp) \subseteq Observed(lang, dbRan, scp, cross)
<1>1. SUFFICES ASSUME NEW f \in code, f \in LookedAt(lang, dbRan, scp)
               PROVE  f \in Observed(lang, dbRan, scp, cross)
  OBVIOUS
<1>2. f \in FP /\ CategoryOf[f] \in Scanned(lang \in Exposed, dbRan, scp) /\ FileOf[f] \in scp.files
  BY <1>1 DEF LookedAt, InScope
<1>3. CASE CategoryOf[f] \in SecurityCats
  <2>1. lang \in Exposed
    BY <1>2, <1>3, StoreAssumption DEF Scanned
  <2>2. f \in InCats(SecurityCats) /\ WrittenIn[FileOf[f]] = lang
    BY <1>2, <1>3, <2>1 DEF OneLanguage, InCats
  <2>3. QED
    BY <1>1, <1>2, <2>1, <2>2 DEF SecuritySeen, Observed
<1>4. CASE CategoryOf[f] \in DBCats
  <2>1. dbRan
    BY <1>2, <1>4, StoreAssumption DEF Scanned
  <2>2. QED
    BY <1>1, <1>2, <1>4, <2>1 DEF Observed, DBSeen, InCats
<1>5. CASE CategoryOf[f] \in CrossCats
  <2>1. dbRan /\ ~scp.narrows
    BY <1>2, <1>5, StoreAssumption DEF Scanned
  <2>2. f \in InCats(CrossCats) /\ lang \in Extracting
    BY <1>2, <1>5 DEF CrossIsExtracted, InCats
  <2>3. cross = code \cap InCats(CrossCats)
    BY <2>1, <2>2 DEF CrossOf, CrossSeen
  <2>4. QED
    BY <1>1, <2>2, <2>3 DEF Observed
<1>6. QED
  BY <1>2, <1>3, <1>4, <1>5 DEF Scanned

\* A scan that has not run yet reports nothing gone.
NoNewsYet == \A c \in Callers : call[c].pc = "scan" => call[c].answer.gone = {}

LEMMA NewsStep == TypeOK /\ NoNewsYet /\ [Next]_vars => NoNewsYet'
<1> SUFFICES ASSUME TypeOK, NoNewsYet, [Next]_vars PROVE NoNewsYet'
  OBVIOUS
<1>1. CASE UNCHANGED call
  BY <1>1 DEF NoNewsYet
<1>2. ASSUME NEW c \in Callers, Work(c) \/ Reply(c) PROVE NoNewsYet'
  <2>1. ASSUME NEW r, Become(c, r), r.pc = "scan" => r.answer.gone = {} PROVE NoNewsYet'
    BY <2>1 DEF NoNewsYet, Become, TypeOK
  <2>2. call[c] \in Calls
    BY DEF TypeOK
  <2>3. Idle.pc # "scan" /\ Idle.answer.gone = {}
    BY DEF Idle, NoAnswer
  <2>4. CASE ScanLoad(c)
    <3>1. [Idle EXCEPT !.pc = "scan", !.op = "scan-all", !.mem = disk].answer = Idle.answer
      BY DEF Idle
    <3>2. QED
      BY <2>1, <2>3, <2>4, <3>1 DEF ScanLoad
  <2>5. CASE ScanRun(c)
    <3>1. \A seen, looked, replaced, wh, fits :
            Diffed(call[c], seen, looked, replaced, wh, fits).pc # "scan"
      BY <2>2, DiffedCarries
    <3>2. QED
      BY <2>1, <2>5, <3>1 DEF ScanRun
  <2>6. CASE ScanFails(c) \/ SaveFails(c) \/ Crash(c) \/ Reply(c)
    BY <2>1, <2>3, <2>6, SMTT(30) DEF ScanFails, SaveFails, Crash, Reply
  <2>7. CASE AcceptLoad(c) \/ RegisterLoad(c) \/ UnregisterLoad(c)
    BY <2>1, <2>7 DEF AcceptLoad, RegisterLoad, UnregisterLoad, Idle
  <2>8. CASE VerdictAnalyse(c) \/ PruneAnalyse(c)
    BY <2>1, <2>8 DEF VerdictAnalyse, PruneAnalyse, Idle
  <2>9. CASE VerdictLoad(c)
    BY <2>1, <2>2, <2>9 DEF VerdictLoad, Calls
  <2>10. CASE PruneLoad(c)
    BY <2>1, <2>2, <2>10 DEF PruneLoad, Calls
  <2>11. CASE SaveCreate(c) \/ SaveWrite(c) \/ SaveRename(c)
    BY <2>1, <2>2, <2>11 DEF SaveCreate, SaveWrite, SaveRename, Calls
  <2>12. QED
    BY <1>2, <2>4, <2>5, <2>6, <2>7, <2>8, <2>9, <2>10, <2>11 DEF Work
<1>3. QED
  BY <1>1, <1>2 DEF Next, Edit, vars

\* A scan's step reports gone only what the code it analysed lacks.
LEMMA RunNews ==
  ASSUME OneLanguage, CrossIsExtracted, TypeOK, NEW c \in Callers, ScanRun(c)
  PROVE  call'[c].answer.gone \cap code = {}
<1>1. call[c] \in Calls /\ call[c].mem \in Baselines /\ code \in SUBSET FP
  BY DEF TypeOK, Calls
<1>0. PICK lang \in Language, scp \in Scopes, dbRan \in BOOLEAN, fits \in BOOLEAN :
          \E cross, replaced, hidden : Ran(c, lang, scp, dbRan, fits, cross, replaced, hidden)
  BY ScanChoices
<1>2. PICK cross, replaced, hidden : Ran(c, lang, scp, dbRan, fits, cross, replaced, hidden)
  BY <1>0
<1> DEFINE looked == LookedAt(lang, dbRan, scp)
           seen   == Observed(lang, dbRan, scp, cross)
<1>3. /\ cross \in CrossOf(lang, dbRan, scp)
      /\ replaced \in Replacements(call[c].mem, seen, looked)
      /\ hidden \in SUBSET Withholdable(DiffShown(call[c].mem, seen, looked))
      /\ Become(c, Diffed(call[c], seen, looked, replaced, hidden, fits))
  BY <1>2 DEF Ran
<1>4. code \cap looked \subseteq seen
  BY <1>1, <1>3, LooksAndSees
<1> HIDE DEF looked, seen
<1>5. call'[c] = Diffed(call[c], seen, looked, replaced, hidden, fits)
  BY <1>3 DEF Become, TypeOK
<1>6. call'[c].answer.gone = DiffGone(call[c].mem, seen, looked, replaced)
  BY <1>1, <1>5, DiffedCarries
<1>7. QED
  BY <1>4, <1>6 DEF DiffGone, GoneIn

\* A scan in flight reports gone what the code it analysed lacks: whatever other calls
\* and edits come between, and whatever scope and sensors it had.
LEMMA NewsAreTrue ==
  ASSUME OneLanguage, CrossIsExtracted, TypeOK, NoNewsYet, [Next]_vars,
         NEW c \in Callers, call[c].pc = "scan"
  PROVE  call'[c].answer.gone \cap code = {}
<1>1. call[c].answer.gone = {}
  BY DEF NoNewsYet
<1>2. CASE call'[c] = call[c]
  BY <1>1, <1>2
<1>3. CASE ScanRun(c)
  BY <1>3, RunNews
<1>4. CASE ScanFails(c) \/ Crash(c)
  <2>1. call'[c] = Idle
    BY <1>4 DEF ScanFails, Crash, Become, TypeOK
  <2>2. QED
    BY <2>1 DEF Idle, NoAnswer
<1>5. ASSUME NEW d \in Callers, Work(d) \/ Reply(d), d # c
      PROVE  call'[c] = call[c]
  BY <1>5, StepOfCall, SMTT(30) DEF Become, TypeOK
<1>6. ASSUME Work(c) \/ Reply(c)
      PROVE  ScanRun(c) \/ ScanFails(c) \/ Crash(c)
  <2>1. ~MayStart(c)
    BY DEF MayStart, Idle
  <2>2. QED
    BY <1>6, <2>1 DEF Work, ScanLoad, AcceptLoad, VerdictAnalyse, VerdictLoad, PruneAnalyse,
       PruneLoad, RegisterLoad, UnregisterLoad, SaveCreate, SaveWrite, SaveRename, SaveFails, Reply
<1>7. QED
  BY <1>2, <1>3, <1>4, <1>5, <1>6 DEF Next, Edit, vars

\* With every request in the language of the code, and an extractor for it wherever the
\* cross finds anything, what a scan reports gone is not in the code it analysed: a
\* sensor that did not run, or a file out of scope, never makes a live item look gone.
THEOREM GoneIsAbsent ==
  ASSUME OneLanguage, CrossIsExtracted
  PROVE  Spec => GoneMeansAbsent
<1>1. Init => StoreInv /\ NoNewsYet
  BY InitInv DEF Init, NoNewsYet, Idle
<1>2. StoreInv /\ NoNewsYet /\ [Next]_vars => (StoreInv /\ NoNewsYet)'
  BY StepInv, NewsStep DEF StoreInv
<1>3. StoreInv /\ NoNewsYet /\ [Next]_vars =>
        [\A c \in Callers : call[c].pc = "scan" => call'[c].answer.gone \cap code = {}]_vars
  BY NewsAreTrue DEF StoreInv
<1>4. QED
  BY <1>1, <1>2, <1>3, PTL DEF Spec, GoneMeansAbsent

-----------------------------------------------------------------------------
(* The audit memory.                                                         *)

\* What a reader of the baseline b remembers of each fingerprint.
Remembered(b) == [f \in FP |-> IF f \in Tracked(b) THEN Latest(b, f) ELSE [known |-> FALSE]]

KnownIn(m) == {f \in FP : m[f] # [known |-> FALSE]}

\* The steps of AuditMemory, as relations between what is remembered before and after.
Decided(m, n) ==
  \E D \in SUBSET KnownIn(m) :
    n = [f \in FP |-> IF f \in D THEN [m[f] EXCEPT !.ack = TRUE] ELSE m[f]]

Reasoned(m, n) ==
  \E D \in SUBSET FP, v \in Verdict :
    n = [f \in FP |->
           IF f \notin D THEN m[f]
           ELSE IF f \in KnownIn(m) THEN [m[f] EXCEPT !.verdicts = @ \cup {v}]
           ELSE [Bare EXCEPT !.verdicts = {v}]]

LookedOver(m, n) ==
  \E found \in SUBSET (FP \ KnownIn(m)), lost \in SUBSET KnownIn(m) :
    /\ \A g \in lost : Cardinality(AtLoc(lost, g)) <= Cardinality(AtLoc(found, g))
    /\ n = [f \in FP |-> IF f \in found THEN Bare
                        ELSE IF f \in lost THEN [known |-> FALSE] ELSE m[f]]

Forgot(m, n) ==
  \E lost \in SUBSET (KnownIn(m) \cap InCats(SecurityCats)) :
    n = [f \in FP |-> IF f \in lost THEN [known |-> FALSE] ELSE m[f]]

\* What the baseline b becomes, n, in one step of AuditMemory.
Follows(b, n) ==
  LET m  == Remembered(b)
      m1 == Remembered(n)
  IN  \/ (Decided(m, m1) \/ Reasoned(m, m1) \/ LookedOver(m, m1) \/ Forgot(m, m1)) /\ n.helpers = b.helpers
      \/ m1 = m /\ \E h \in Helper : n.helpers \in {b.helpers \cup {h}, b.helpers \ {h}}

\* What is known is what is tracked.
LEMMA KnownIsTracked ==
  ASSUME NEW b \in Baselines
  PROVE  KnownIn(Remembered(b)) = Tracked(b)
<1>1. \A f \in Tracked(b) : f \in FP /\ Latest(b, f) \in Entry
  BY LatestType
<1>2. \A e \in Entry : e # [known |-> FALSE]
  BY DEF Entry
<1>3. QED
  BY <1>1, <1>2 DEF KnownIn, Remembered, Tracked

\* Accepting decides.
LEMMA AcceptDecides ==
  ASSUME NEW b \in Baselines, NEW fps \in SUBSET Tracked(b)
  PROVE  Follows(b, Accept(b, fps))
<1> DEFINE a == Accept(b, fps)
<1>1. Tracked(a) = Tracked(b) /\ a.helpers = b.helpers
  BY AcceptFacts DEF Accept, WithItems
<1>2. ASSUME NEW f \in Tracked(b)
      PROVE  Latest(a, f) = IF f \in fps THEN Acknowledge(Latest(b, f)) ELSE Latest(b, f)
  <2>1. f \in FP /\ a.items[f] = IF f \in fps
                                 THEN [b.items[f] EXCEPT ![Len(b.items[f])] = Acknowledge(Latest(b, f))]
                                 ELSE b.items[f]
    BY DEF Accept, WithItems, Tracked
  <2>2. Latest(b, f) \in Entry /\ Len(b.items[f]) \in 1..Len(b.items[f])
    BY LatestType
  <2>3. Acknowledge(Latest(b, f)) \in Entry
    BY <2>2, EntryChanges
  <2> HIDE DEF a
  <2>4. QED
    BY <2>1, <2>2, <2>3, EntryReplaced DEF Latest
<1> HIDE DEF a
<1>3. Remembered(a) = [f \in FP |-> IF f \in fps THEN [Remembered(b)[f] EXCEPT !.ack = TRUE]
                                    ELSE Remembered(b)[f]]
  BY <1>1, <1>2 DEF Remembered, Acknowledge, Tracked
<1>4. QED
  BY <1>1, <1>3, KnownIsTracked DEF Follows, Decided, a

\* Recording a verdict reasons.
LEMMA RecordReasons ==
  ASSUME NEW b \in Baselines, Single(b), NEW fps \in SUBSET FP, NEW v \in Verdict
  PROVE  Follows(b, RecordVerdict(b, fps, v))
<1> DEFINE a == RecordVerdict(b, fps, v)
<1>1. Tracked(a) = Tracked(b) \cup fps /\ a.helpers = b.helpers
  BY RecordFacts, ZenonT(40) DEF RecordVerdict, WithItems
<1>2. ASSUME NEW f \in Tracked(b)
      PROVE  Latest(a, f) = IF f \in fps THEN AddVerdict(Latest(b, f), v) ELSE Latest(b, f)
  <2>1. f \in FP /\ b.items[f] # <<>>
           /\ a.items[f] = IF f \in fps THEN [b.items[f] EXCEPT ![1] = AddVerdict(b.items[f][1], v)]
                           ELSE b.items[f]
    BY DEF RecordVerdict, WithItems, Tracked
  <2>2. Len(b.items[f]) = 1 /\ Latest(b, f) = b.items[f][1] /\ Latest(b, f) \in Entry
    BY <2>1, LatestType DEF Single, Latest
  <2>3. AddVerdict(b.items[f][1], v) \in Entry
    BY <2>2, EntryChanges
  <2>4. 1 \in 1..Len(b.items[f])
    BY <2>2
  <2> HIDE DEF a
  <2>5. QED
    BY <2>1, <2>2, <2>3, <2>4, EntryReplaced DEF Latest
<1>3. ASSUME NEW f \in fps \ Tracked(b) PROVE Latest(a, f) = AddVerdict(Bare, v)
  <2>1. a.items[f] = <<AddVerdict(Bare, v)>>
    BY DEF RecordVerdict, WithItems, Tracked
  <2>2. Bare \in Entry
    BY DEF Bare, Entry
  <2>3. AddVerdict(Bare, v) \in Entry
    BY <2>2, EntryChanges
  <2> HIDE DEF a
  <2>4. QED
    BY <2>1, <2>3, OneEntry DEF Latest
<1> HIDE DEF a
<1>4. AddVerdict(Bare, v) = [Bare EXCEPT !.verdicts = {v}]
  BY DEF AddVerdict, Bare
<1>5. Remembered(a) = [f \in FP |->
                          IF f \notin fps THEN Remembered(b)[f]
                          ELSE IF f \in KnownIn(Remembered(b))
                          THEN [Remembered(b)[f] EXCEPT !.verdicts = @ \cup {v}]
                          ELSE [Bare EXCEPT !.verdicts = {v}]]
  <2>1. \A f \in Tracked(b) \cap fps : Latest(a, f) = [Latest(b, f) EXCEPT !.verdicts = @ \cup {v}]
    BY <1>2 DEF AddVerdict
  <2>2. QED
    BY <1>1, <1>2, <1>3, <1>4, <2>1, KnownIsTracked DEF Remembered, Tracked
<1>6. QED
  BY <1>1, <1>5 DEF Follows, Reasoned, a

\* Replacing takes no more at a file and category than is new there.
LEMMA ReplacesNoMore ==
  ASSUME NEW b \in Baselines, NEW seen \in SUBSET FP, NEW looked \in SUBSET FP,
         NEW replaced \in Replacements(b, seen, looked), NEW g \in replaced
  PROVE  Cardinality(AtLoc(replaced, g)) <= Cardinality(AtLoc(NewIn(b, seen), g))
<1> DEFINE new == NewIn(b, seen)
           gone == GoneIn(b, seen, looked)
<1>1. g \in gone /\ replaced \subseteq gone /\ gone \subseteq FP /\ new \subseteq FP
  BY DEF Replacements, GoneIn, NewIn, Tracked
<1>2. \A S \in SUBSET FP : IsFiniteSet(AtLoc(S, g)) /\ Cardinality(AtLoc(S, g)) \in Nat
  <2> SUFFICES ASSUME NEW S \in SUBSET FP
               PROVE  IsFiniteSet(AtLoc(S, g)) /\ Cardinality(AtLoc(S, g)) \in Nat
    OBVIOUS
  <2>1. AtLoc(S, g) \subseteq FP
    BY DEF AtLoc
  <2>2. IsFiniteSet(AtLoc(S, g))
    BY <2>1, FS_Subset, FingerprintAssumption
  <2>3. QED
    BY <2>2, FS_CardinalityType
<1>3. AtLoc(replaced, g) \subseteq AtLoc(gone, g)
  BY <1>1 DEF AtLoc
<1>4. Cardinality(AtLoc(replaced, g)) <= Cardinality(AtLoc(gone, g))
  BY <1>1, <1>2, <1>3, FS_Subset
<1>5. \/ Cardinality(AtLoc(replaced, g)) = Cardinality(AtLoc(new, g))
      \/ Cardinality(AtLoc(gone, g)) < Cardinality(AtLoc(new, g))
  BY <1>1 DEF Replacements
<1>6. /\ Cardinality(AtLoc(replaced, g)) \in Nat /\ Cardinality(AtLoc(gone, g)) \in Nat
      /\ Cardinality(AtLoc(new, g)) \in Nat
  BY <1>1, <1>2
<1> HIDE DEF new, gone
<1>7. QED
  BY <1>4, <1>5, <1>6 DEF new

\* A diff is a look: it gives up only what something new at its place takes over from.
LEMMA DiffLooks ==
  ASSUME NEW b \in Baselines, NEW seen \in SUBSET FP, NEW looked \in SUBSET FP,
         NEW replaced \in Replacements(b, seen, looked)
  PROVE  Follows(b, DiffNext(b, seen, looked, replaced))
<1> DEFINE n == DiffNext(b, seen, looked, replaced)
           found == NewIn(b, seen)
<1>1. n.helpers = b.helpers
  BY DEF DiffNext, WithItems
<1>2. found \in SUBSET (FP \ Tracked(b)) /\ replaced \in SUBSET Tracked(b) /\ replaced \cap seen = {}
  BY DEF NewIn, Replacements, GoneIn
<1>3. \A g \in replaced : Cardinality(AtLoc(replaced, g)) <= Cardinality(AtLoc(found, g))
  BY ReplacesNoMore
<1>4. \A f \in found : f \in Tracked(n) /\ Latest(n, f) = Bare
  BY DiffFacts, SMTT(30) DEF NewIn
<1>5. \A f \in Tracked(b) \ replaced : f \in Tracked(n) /\ Latest(n, f) = Latest(b, f)
  BY DiffKeeps
<1>6. Tracked(n) \subseteq (Tracked(b) \ replaced) \cup found
  BY DiffDrops DEF NewIn
<1> HIDE DEF n, found
<1>7. Remembered(n) = [f \in FP |-> IF f \in found THEN Bare
                                    ELSE IF f \in replaced THEN [known |-> FALSE]
                                    ELSE Remembered(b)[f]]
  BY <1>2, <1>4, <1>5, <1>6 DEF Remembered, Tracked
<1>8. QED
  BY <1>1, <1>2, <1>3, <1>7, KnownIsTracked, SMTT(30) DEF Follows, LookedOver, n

\* A prune forgets what its own sensor covers.
LEMMA PruneForgets ==
  ASSUME NEW b \in Baselines, NEW seen, NEW wanted
  PROVE  Follows(b, Prune(b, PruneTargets(b, seen, wanted)))
<1> DEFINE lost == PruneTargets(b, seen, wanted)
           n == Prune(b, lost)
<1>1. lost \in SUBSET (Tracked(b) \cap InCats(SecurityCats)) /\ lost \in SUBSET FP
  BY DEF PruneTargets, Tracked
<1> HIDE DEF lost
<1>2. /\ Tracked(n) = Tracked(b) \ lost
      /\ \A f \in Tracked(b) \ lost : Latest(n, f) = Latest(b, f)
      /\ n.helpers = b.helpers
  BY <1>1, PruneFacts DEF Prune, WithItems
<1> HIDE DEF n
<1>3. Remembered(n) = [f \in FP |-> IF f \in lost THEN [known |-> FALSE] ELSE Remembered(b)[f]]
  BY <1>1, <1>2 DEF Remembered
<1>4. QED
  BY <1>1, <1>2, <1>3, KnownIsTracked DEF Follows, Forgot, n, lost

\* Registering and unregistering a helper recognise.
LEMMA HelpersRecognise ==
  ASSUME NEW b \in Baselines, NEW h \in Helper
  PROVE  Follows(b, RegisterAuthzHelper(b, h)) /\ Follows(b, UnregisterAuthzHelper(b, h))
BY DEF Follows, RegisterAuthzHelper, UnregisterAuthzHelper, Baselines, Remembered, Tracked, Latest

\* A step of the file from one baseline to one that follows it is a step of AuditMemory.
LEMMA FollowingIsMemoryStep ==
  ASSUME disk \in Baselines, Follows(disk, disk')
  PROVE  Memory!MNext
<1>1. memory = Remembered(disk) /\ memory' = Remembered(disk')
      /\ helpers = disk.helpers /\ helpers' = disk'.helpers
  BY DEF memory, helpers, Remembered
<1>2. \A S : Memory!Cardinality(S) = Cardinality(S)
  BY Zenon DEF Memory!Cardinality, Cardinality
<1> USE DEF KnownIn, Memory!Known, Memory!Nothing, Memory!MNext
<1>3. Decided(memory, memory') /\ helpers' = helpers => Memory!MNext
  BY Zenon DEF Decided, Memory!Decide
<1>4. Reasoned(memory, memory') /\ helpers' = helpers => Memory!MNext
  BY Zenon DEF Reasoned, Memory!Reason, Memory!New, Bare
<1>5. LookedOver(memory, memory') /\ helpers' = helpers => Memory!MNext
  BY <1>2, Zenon DEF LookedOver, Memory!Look, Memory!Here, AtLoc, Memory!New, Bare
<1>6. Forgot(memory, memory') /\ helpers' = helpers => Memory!MNext
  BY Zenon DEF Forgot, Memory!Forget
<1>7. ASSUME memory' = memory, \E h \in Helper : helpers' \in {helpers \cup {h}, helpers \ {h}}
      PROVE  Memory!MNext
  BY <1>7, Zenon DEF Memory!Recognise
<1>8. QED
  BY <1>1, <1>3, <1>4, <1>5, <1>6, <1>7, Zenon DEF Follows

\* What a call carries towards the file follows what the file holds.
Plans(r) ==
  /\ r.pc = "scan" => r.mem = disk
  /\ r.pc \in {"create", "write", "rename"} => Follows(disk, r.mem)

MemoryInv == StoreInv /\ OneInFlight /\ \A c \in Callers : Plans(call[c])

LEMMA IdlePlans == Plans(Idle)
BY DEF Plans, Idle

\* Each step before the rename leaves the call with such a plan.
LEMMA WorkPlans ==
  ASSUME MemoryInv, NEW c \in Callers, Work(c), ~SaveRename(c)
  PROVE  \E r : Become(c, r) /\ Plans(r)
<1>1. /\ code \in SUBSET FP /\ disk \in Baselines /\ Single(disk)
      /\ call[c] \in Calls /\ call[c].mem \in Baselines /\ Plans(call[c])
  BY DEF MemoryInv, StoreInv, TypeOK, OneEntryEach, Calls
<1>2. ASSUME NEW r, r.pc = "create", Follows(disk, r.mem) PROVE Plans(r)
  BY <1>2 DEF Plans
<1>3. CASE ScanLoad(c)
  <2>1. LET r == [Idle EXCEPT !.pc = "scan", !.op = "scan-all", !.mem = disk]
        IN  r.pc = "scan" /\ r.mem = disk
    BY DEF Idle
  <2>2. QED
    BY <1>3, <2>1 DEF ScanLoad, Plans
<1>4. CASE ScanRun(c)
  <2>1. PICK fits \in BOOLEAN, looked \in SUBSET FP, seen \in SUBSET FP, replaced \in SUBSET FP,
            wh \in SUBSET (FP \ Affirming) :
          /\ replaced \in Replacements(call[c].mem, seen, looked)
          /\ Become(c, Diffed(call[c], seen, looked, replaced, wh, fits))
    BY <1>1, <1>4, ScanIsDiff
  <2> DEFINE r == Diffed(call[c], seen, looked, replaced, wh, fits)
  <2>2. r.mem = DiffNext(call[c].mem, seen, looked, replaced) /\ r.pc \in {"create", "reply"}
    BY <1>1, DiffedCarries
  <2>3. call[c].mem = disk
    BY <1>1, <1>4 DEF ScanRun, Plans
  <2>4. Follows(disk, DiffNext(call[c].mem, seen, looked, replaced))
    BY <1>1, <2>1, <2>3, DiffLooks
  <2> HIDE DEF r
  <2>5. Plans(r)
    BY <2>2, <2>4 DEF Plans
  <2>6. QED
    BY <2>1, <2>5 DEF r
<1>5. CASE ScanFails(c) \/ SaveFails(c) \/ Crash(c)
  BY <1>5, IdlePlans DEF ScanFails, SaveFails, Crash
<1>6. CASE AcceptLoad(c)
  <2>1. PICK fps \in SUBSET Tracked(disk) :
          Become(c, [Idle EXCEPT !.pc = "create", !.op = "accept", !.fps = fps,
                                 !.mem = Accept(disk, fps)])
    BY <1>6 DEF AcceptLoad
  <2> DEFINE r == [Idle EXCEPT !.pc = "create", !.op = "accept", !.fps = fps,
                               !.mem = Accept(disk, fps)]
  <2>2. r.pc = "create" /\ r.mem = Accept(disk, fps)
    BY DEF Idle
  <2>3. Follows(disk, Accept(disk, fps))
    BY <1>1, AcceptDecides
  <2>4. QED
    BY <1>2, <2>1, <2>2, <2>3
<1>7. CASE VerdictAnalyse(c)
  <2>1. PICK v, fps :
          Become(c, [Idle EXCEPT !.pc = "record", !.op = "record-verdict",
                                 !.seen = fps, !.fps = fps, !.verdict = {v}])
    BY <1>7 DEF VerdictAnalyse
  <2> DEFINE r == [Idle EXCEPT !.pc = "record", !.op = "record-verdict",
                               !.seen = fps, !.fps = fps, !.verdict = {v}]
  <2>2. r.pc = "record"
    BY DEF Idle
  <2>3. Plans(r)
    BY <2>2 DEF Plans
  <2>4. QED
    BY <2>1, <2>3
<1>8. CASE VerdictLoad(c)
  <2>1. PICK v \in call[c].verdict :
          Become(c, [call[c] EXCEPT !.pc = "create", !.mem = RecordVerdict(disk, call[c].fps, v)])
    BY <1>8 DEF VerdictLoad
  <2> DEFINE r == [call[c] EXCEPT !.pc = "create", !.mem = RecordVerdict(disk, call[c].fps, v)]
  <2>2. v \in Verdict /\ call[c].fps \in SUBSET FP
        /\ r.pc = "create" /\ r.mem = RecordVerdict(disk, call[c].fps, v)
    BY <1>1 DEF Calls
  <2>3. Follows(disk, RecordVerdict(disk, call[c].fps, v))
    BY <1>1, <2>2, RecordReasons
  <2>4. QED
    BY <1>2, <2>1, <2>2, <2>3
<1>9. CASE PruneAnalyse(c)
  <2>1. PICK wanted, lang :
          Become(c, [Idle EXCEPT !.pc = "prune", !.op = "prune", !.fps = wanted,
                                 !.seen = SecuritySeen(lang, File)])
    BY <1>9 DEF PruneAnalyse
  <2> DEFINE r == [Idle EXCEPT !.pc = "prune", !.op = "prune", !.fps = wanted,
                               !.seen = SecuritySeen(lang, File)]
  <2>2. r.pc = "prune"
    BY DEF Idle
  <2>3. Plans(r)
    BY <2>2 DEF Plans
  <2>4. QED
    BY <2>1, <2>3
<1>10. CASE PruneLoad(c)
  <2> DEFINE targets == PruneTargets(disk, call[c].seen, call[c].fps)
             r == [call[c] EXCEPT !.pc = "create", !.fps = targets, !.mem = Prune(disk, targets)]
  <2>1. Become(c, r)
    BY <1>10 DEF PruneLoad
  <2>2. r.pc = "create" /\ r.mem = Prune(disk, targets)
    BY <1>1 DEF Calls
  <2>3. Follows(disk, Prune(disk, targets))
    BY <1>1, PruneForgets
  <2>4. QED
    BY <1>2, <2>1, <2>2, <2>3
<1>11. ASSUME NEW op, NEW b, Follows(disk, b),
              Become(c, [Idle EXCEPT !.pc = "create", !.op = op, !.mem = b])
       PROVE  \E r : Become(c, r) /\ Plans(r)
  <2>1. LET r == [Idle EXCEPT !.pc = "create", !.op = op, !.mem = b]
        IN  r.pc = "create" /\ r.mem = b
    BY DEF Idle
  <2>2. QED
    BY <1>2, <1>11, <2>1
<1>12. CASE RegisterLoad(c)
  BY <1>1, <1>11, <1>12, HelpersRecognise DEF RegisterLoad
<1>13. CASE UnregisterLoad(c)
  <2>1. disk.helpers \subseteq Helper
    BY <1>1 DEF Baselines
  <2>2. QED
    BY <1>1, <1>11, <1>13, <2>1, HelpersRecognise DEF UnregisterLoad
<1>14. ASSUME NEW pc \in {"write", "rename"}, call[c].pc \in {"create", "write"},
              Become(c, [call[c] EXCEPT !.pc = pc])
       PROVE  \E r : Become(c, r) /\ Plans(r)
  <2> DEFINE r == [call[c] EXCEPT !.pc = pc]
  <2>1. r.pc = pc /\ r.mem = call[c].mem
    BY <1>1 DEF Calls
  <2>2. Plans(r)
    BY <1>1, <1>14, <2>1 DEF Plans
  <2>3. QED
    BY <1>14, <2>2
<1>15. CASE SaveCreate(c) \/ SaveWrite(c)
  BY <1>14, <1>15 DEF SaveCreate, SaveWrite
<1>16. QED
  BY <1>3, <1>4, <1>5, <1>6, <1>7, <1>8, <1>9, <1>10, <1>12, <1>13, <1>15 DEF Work

\* A step that leaves the file alone leaves what is remembered alone.
LEMMA SameMemory ==
  ASSUME disk' = disk
  PROVE  UNCHANGED <<memory, helpers>>
BY DEF memory, helpers, Tracked, Latest

\* A step of one call, the others idle.
LEMMA PlannedStep ==
  ASSUME Serial, MemoryInv, StoreInv', NEW c \in Callers, Work(c) \/ Reply(c),
         NEW r, Become(c, r), r.pc = "reply" \/ (disk' = disk /\ Plans(r))
  PROVE  MemoryInv'
<1>1. OneInFlight' /\ \A d \in Callers \ {c} : call'[d] = Idle
  BY AloneStep DEF MemoryInv, StoreInv
<1>2. call'[c] = r
  BY DEF Become, MemoryInv, StoreInv, TypeOK
<1>3. \A d \in Callers : Plans(call[d])'
  BY <1>1, <1>2, IdlePlans DEF Plans, Idle
<1>4. QED
  BY <1>1, <1>3 DEF MemoryInv

\* Every step is a step of the audit memory, or changes nothing a reader remembers.
LEMMA MemoryStep ==
  ASSUME Serial
  PROVE  MemoryInv /\ [Next]_vars => MemoryInv' /\ [Memory!MNext]_<<memory, helpers>>
<1> SUFFICES ASSUME MemoryInv, [Next]_vars
             PROVE  MemoryInv' /\ [Memory!MNext]_<<memory, helpers>>
  OBVIOUS
<1>1. StoreInv'
  BY StepInv DEF MemoryInv
<1>2. CASE UNCHANGED <<disk, call>>
  <2>1. MemoryInv'
    BY <1>1, <1>2 DEF MemoryInv, OneInFlight, Plans
  <2>2. QED
    BY <1>2, <2>1, SameMemory
<1>3. ASSUME NEW c \in Callers, SaveRename(c)
      PROVE  MemoryInv' /\ [Memory!MNext]_<<memory, helpers>>
  <2> DEFINE r == [call[c] EXCEPT !.pc = "reply"]
  <2>1. call[c] \in Calls /\ disk \in Baselines /\ disk' = call[c].mem /\ Follows(disk, call[c].mem)
    BY <1>3 DEF SaveRename, MemoryInv, StoreInv, TypeOK, TempWhole, Plans
  <2>2. Become(c, r) /\ r.pc = "reply" /\ Work(c)
    BY <1>3, <2>1 DEF SaveRename, Work, Calls
  <2>3. MemoryInv'
    BY <1>1, <2>2, PlannedStep
  <2>4. Memory!MNext
    BY <2>1, FollowingIsMemoryStep
  <2>5. QED
    BY <2>3, <2>4
<1>4. ASSUME NEW c \in Callers, Work(c), ~SaveRename(c)
      PROVE  MemoryInv' /\ [Memory!MNext]_<<memory, helpers>>
  <2>1. PICK r : Become(c, r) /\ Plans(r)
    BY <1>4, WorkPlans
  <2>2. disk' = disk
    BY <1>4, StepOfCall
  <2>3. QED
    BY <1>1, <1>4, <2>1, <2>2, PlannedStep, SameMemory
<1>5. ASSUME NEW c \in Callers, Reply(c)
      PROVE  MemoryInv' /\ [Memory!MNext]_<<memory, helpers>>
  <2>1. Become(c, Idle) /\ disk' = disk
    BY <1>5 DEF Reply
  <2>2. QED
    BY <1>1, <1>5, <2>1, IdlePlans, PlannedStep, SameMemory
<1>6. QED
  BY <1>2, <1>3, <1>4, <1>5 DEF Next, Edit, vars

\* Calls that come one at a time implement the audit memory, for every project, set of
\* callers, verdicts and helpers, whatever step of Save fails or is killed: the rename
\* is the one step a reader sees, and it makes the file what one whole decision,
\* verdict, look, prune or helper call makes of what the file held.
THEOREM StoreImplementsMemory ==
  ASSUME Serial
  PROVE  Spec => ImplementsMemory
<1>1. Init => MemoryInv
  <2> SUFFICES ASSUME Init PROVE MemoryInv
    OBVIOUS
  <2>1. OneInFlight /\ \A c \in Callers : Plans(call[c])
    BY IdlePlans DEF Init, OneInFlight
  <2>2. QED
    BY <2>1, InitInv DEF MemoryInv
<1>2. MemoryInv /\ [Next]_vars => MemoryInv' /\ [Memory!MNext]_<<memory, helpers>>
  BY MemoryStep
<1>3. Init => Memory!MInit
  BY DEF Init, Memory!MInit, Memory!Nothing, memory, helpers, NoFile, Tracked
<1>4. QED
  BY <1>1, <1>2, <1>3, PTL DEF Spec, ImplementsMemory, Memory!MSpec

-----------------------------------------------------------------------------
(* AuditLedger: what was answered as recorded stays. *)

\* The baseline b honours what has been promised of f.
Honours(b, f) ==
  /\ f \in Tracked(b)
  /\ promise[f].ack => Latest(b, f).ack
  /\ promise[f].verdicts \subseteq Latest(b, f).verdicts

Safe(b) == \A f \in code : promise[f] # Bare => Honours(b, f)

\* The baseline b holds what the call r is about to promise.
Done(r, b) ==
  \A f \in r.fps :
    /\ r.op \in {"accept", "record-verdict"} => f \in Tracked(b)
    /\ r.op = "accept" => Latest(b, f).ack
    /\ r.op = "record-verdict" => r.verdict \subseteq Latest(b, f).verdicts

\* What each phase of a call carries from the earlier ones.
Carries(r) ==
  /\ r.pc = "scan" => r.op = "scan-all" /\ r.mem = disk
  /\ r.pc = "record" => r.op = "record-verdict" /\ \E v \in Verdict : r.verdict = {v}
  /\ r.pc = "prune" =>
       /\ r.op = "prune"
       /\ \A f \in code \cap InCats(SecurityCats) : promise[f] # Bare => f \in r.seen
  /\ r.pc \in {"create", "write", "rename"} => Safe(r.mem) /\ Done(r, r.mem)
  /\ r.pc = "reply" => Done(r, disk)

\* An item whose code is gone has no promise left.
PromiseOK ==
  /\ promise \in [FP -> Entry]
  /\ \A f \in FP \ code : promise[f] = Bare

LedgerInv ==
  /\ StoreInv
  /\ PromiseOK
  /\ OneInFlight
  /\ Safe(disk)
  /\ \A c \in Callers : Carries(call[c])

-----------------------------------------------------------------------------
\* A step of the ledger is a step of the store.
LEMMA LedgerStepIsStep == [LNext]_lvars => [Next]_vars
<1>1. LEdit => Next
  BY DEF LEdit, Next
<1>2. ASSUME NEW c \in Callers, LWork(c) \/ LReply(c) PROVE Next
  BY <1>2 DEF LWork, LReply, Next
<1>3. UNCHANGED lvars => UNCHANGED vars
  BY DEF lvars, vars
<1>4. QED
  BY <1>1, <1>2, <1>3 DEF LNext

\* An idle call carries nothing, and neither does one that only starts.
LEMMA IdleCarries == Carries(Idle)
BY DEF Idle, Carries

\* A step that changes one call's local state and neither the file nor a promise.
LEMMA SoloStep ==
  ASSUME LedgerInv, StoreInv', NEW c \in Callers, NEW r, Become(c, r), Carries(r),
         UNCHANGED <<code, disk, promise>>, \A d \in Callers \ {c} : call[d] = Idle
  PROVE  LedgerInv'
<1>1. call'[c] = r /\ \A d \in Callers \ {c} : call'[d] = Idle
  BY DEF Become, LedgerInv, StoreInv, TypeOK
<1>2. PromiseOK' /\ Safe(disk)'
  BY DEF LedgerInv, PromiseOK, Safe, Honours, Tracked, Latest
<1>3. OneInFlight'
  BY <1>1 DEF OneInFlight
<1>4. ASSUME NEW d \in Callers, NEW s, call'[d] = s, Carries(s)
      PROVE  Carries(call[d])'
  BY <1>4 DEF Carries, Safe, Honours, Done
<1>5. \A d \in Callers : Carries(call[d])'
  BY <1>1, <1>4, IdleCarries
<1>6. QED
  BY <1>2, <1>3, <1>5 DEF LedgerInv

\* A scan gives up nothing it found recorded about code that is there.
LEMMA ScanSafe ==
  ASSUME LedgerInv, NEW c \in Callers, ScanRun(c)
  PROVE  \E r : Become(c, r) /\ Carries(r)
<1>1. /\ code \in SUBSET FP /\ disk \in Baselines
      /\ call[c] \in Calls /\ call[c].mem \in Baselines /\ Single(call[c].mem)
  BY DEF LedgerInv, StoreInv, TypeOK, OneEntryEach, Calls
<1>2. call[c].op = "scan-all" /\ call[c].mem = disk
  BY DEF ScanRun, LedgerInv, Carries
<1>3. PICK fits \in BOOLEAN, looked \in SUBSET FP, seen \in SUBSET FP, replaced \in SUBSET FP,
          wh \in SUBSET (FP \ Affirming) :
        /\ replaced \in Replacements(call[c].mem, seen, looked)
        /\ replaced \cap code = {}
        /\ Become(c, Diffed(call[c], seen, looked, replaced, wh, fits))
  BY <1>1, ScanIsDiff
<1> DEFINE r == Diffed(call[c], seen, looked, replaced, wh, fits)
           n == DiffNext(disk, seen, looked, replaced)
<1>4. r.pc \in {"create", "reply"} /\ r.op = "scan-all" /\ r.mem = n
  BY <1>1, <1>2, <1>3, DiffedCarries
<1>5. \A f \in Tracked(disk) \ replaced : f \in Tracked(n) /\ Latest(n, f) = Latest(disk, f)
  <2>1. disk \in Baselines /\ replaced \in Replacements(disk, seen, looked)
    BY <1>1, <1>2, <1>3
  <2> SUFFICES ASSUME NEW f \in Tracked(disk) \ replaced
               PROVE  f \in Tracked(n) /\ Latest(n, f) = Latest(disk, f)
    OBVIOUS
  <2>2. QED
    BY <2>1, DiffKeeps
<1> HIDE DEF r, n
<1>6. Safe(n)
  <2> SUFFICES ASSUME NEW f \in code, promise[f] # Bare PROVE Honours(n, f)
    BY DEF Safe
  <2>1. Honours(disk, f)
    BY DEF LedgerInv, Safe
  <2>2. f \in Tracked(disk) \ replaced
    BY <1>3, <2>1 DEF Honours
  <2>3. QED
    BY <1>5, <2>1, <2>2 DEF Honours
<1>7. Done(r, r.mem) /\ Done(r, disk)
  BY <1>4 DEF Done
<1>8. Carries(r)
  BY <1>4, <1>6, <1>7 DEF Carries
<1>9. QED
  BY <1>3, <1>8 DEF r

\* An accept keeps every promise and holds what it is about to promise.
LEMMA AcceptSafe ==
  ASSUME LedgerInv, NEW c \in Callers, AcceptLoad(c)
  PROVE  \E r : Become(c, r) /\ Carries(r)
<1>1. PICK fps \in SUBSET Tracked(disk) :
        Become(c, [Idle EXCEPT !.pc = "create", !.op = "accept", !.fps = fps,
                               !.mem = Accept(disk, fps)])
  BY DEF AcceptLoad
<1> DEFINE a == Accept(disk, fps)
           r == [Idle EXCEPT !.pc = "create", !.op = "accept", !.fps = fps, !.mem = a]
<1>2. disk \in Baselines
  BY DEF LedgerInv, StoreInv, TypeOK
<1>3. /\ Tracked(a) = Tracked(disk)
      /\ Acked(a) = Acked(disk) \cup fps
      /\ \A f \in Tracked(disk) : Latest(a, f).verdicts = Latest(disk, f).verdicts
  BY <1>2, AcceptFacts
<1> HIDE DEF a
<1>4. r.pc = "create" /\ r.op = "accept" /\ r.fps = fps /\ r.mem = a
  BY DEF Idle
<1>5. \A f \in fps : f \in Tracked(a) /\ Latest(a, f).ack
  BY <1>3 DEF Acked
<1>6. Safe(a)
  <2> SUFFICES ASSUME NEW f \in code, promise[f] # Bare PROVE Honours(a, f)
    BY DEF Safe
  <2>1. Honours(disk, f)
    BY DEF LedgerInv, Safe
  <2>2. f \in Tracked(a) /\ Latest(a, f).verdicts = Latest(disk, f).verdicts
    BY <1>3, <2>1 DEF Honours
  <2>3. Latest(disk, f).ack => Latest(a, f).ack
    BY <1>3, <2>2 DEF Acked
  <2>4. QED
    BY <2>1, <2>2, <2>3 DEF Honours
<1> HIDE DEF r
<1>7. Done(r, a)
  BY <1>4, <1>5 DEF Done
<1>8. Carries(r)
  BY <1>4, <1>6, <1>7 DEF Carries
<1>9. QED
  BY <1>1, <1>8 DEF r, a

\* So does a record-verdict.
LEMMA VerdictSafe ==
  ASSUME LedgerInv, NEW c \in Callers, VerdictLoad(c)
  PROVE  \E r : Become(c, r) /\ Carries(r)
<1>1. /\ disk \in Baselines /\ Single(disk) /\ call[c] \in Calls
      /\ call[c].fps \in SUBSET FP /\ call[c].op = "record-verdict"
  BY DEF LedgerInv, StoreInv, TypeOK, OneEntryEach, Calls, VerdictLoad, Carries
<1>2. PICK v \in Verdict : call[c].verdict = {v}
  BY DEF VerdictLoad, LedgerInv, Carries
<1> DEFINE fps == call[c].fps
           a == RecordVerdict(disk, fps, v)
           r == [call[c] EXCEPT !.pc = "create", !.mem = a]
<1>3. Become(c, r)
  BY <1>2 DEF VerdictLoad
<1>4. /\ Tracked(a) = Tracked(disk) \cup fps
      /\ Acked(a) = Acked(disk)
      /\ \A f \in Tracked(disk) : Latest(disk, f).verdicts \subseteq Latest(a, f).verdicts
      /\ \A f \in fps : v \in Latest(a, f).verdicts
  BY <1>1, RecordFacts
<1> HIDE DEF a
<1>5. r.pc = "create" /\ r.op = "record-verdict" /\ r.fps = fps /\ r.mem = a /\ r.verdict = {v}
  BY <1>1, <1>2 DEF Calls
<1>6. Safe(a)
  <2> SUFFICES ASSUME NEW f \in code, promise[f] # Bare PROVE Honours(a, f)
    BY DEF Safe
  <2>1. Honours(disk, f)
    BY DEF LedgerInv, Safe
  <2>2. f \in Tracked(a) /\ Latest(disk, f).verdicts \subseteq Latest(a, f).verdicts
    BY <1>4, <2>1 DEF Honours
  <2>3. Latest(disk, f).ack => Latest(a, f).ack
    BY <1>4, <2>1, <2>2 DEF Acked, Honours
  <2>4. QED
    BY <2>1, <2>2, <2>3 DEF Honours
<1> HIDE DEF r
<1>7. Done(r, a)
  BY <1>4, <1>5 DEF Done
<1>8. Carries(r)
  BY <1>5, <1>6, <1>7 DEF Carries
<1>9. QED
  BY <1>3, <1>8

\* A prune takes away only what neither its analysis nor a promise holds.
LEMMA PruneSafe ==
  ASSUME LedgerInv, NEW c \in Callers, PruneLoad(c)
  PROVE  \E r : Become(c, r) /\ Carries(r)
<1>1. /\ disk \in Baselines /\ call[c] \in Calls /\ call[c].op = "prune" /\ code \subseteq FP
      /\ \A f \in code \cap InCats(SecurityCats) : promise[f] # Bare => f \in call[c].seen
  BY DEF LedgerInv, StoreInv, TypeOK, PruneLoad, Carries
<1> DEFINE targets == PruneTargets(disk, call[c].seen, call[c].fps)
           a == Prune(disk, targets)
           r == [call[c] EXCEPT !.pc = "create", !.fps = targets, !.mem = a]
<1>2. Become(c, r)
  BY DEF PruneLoad
<1>3. targets \in SUBSET FP
  BY DEF PruneTargets, Tracked
<1>4. /\ Tracked(a) = Tracked(disk) \ targets
      /\ \A f \in Tracked(disk) \ targets : Latest(a, f) = Latest(disk, f)
  BY <1>1, <1>3, PruneFacts
<1>5. \A f \in targets : f \in InCats(SecurityCats) /\ f \notin call[c].seen
  BY DEF PruneTargets
<1> HIDE DEF a, targets
<1>6. r.pc = "create" /\ r.op = "prune" /\ r.mem = a
  BY <1>1 DEF Calls
<1>7. Safe(a)
  <2> SUFFICES ASSUME NEW f \in code, promise[f] # Bare PROVE Honours(a, f)
    BY DEF Safe
  <2>1. Honours(disk, f)
    BY DEF LedgerInv, Safe
  <2>2. f \in Tracked(disk) \ targets
    BY <1>1, <1>5, <2>1 DEF Honours
  <2>3. QED
    BY <1>4, <2>1, <2>2 DEF Honours
<1> HIDE DEF r
<1>8. Done(r, a)
  BY <1>6 DEF Done
<1>9. Carries(r)
  BY <1>6, <1>7, <1>8 DEF Carries
<1>10. QED
  BY <1>2, <1>9

\* A call on the helpers keeps the items.
LEMMA HelperSafe ==
  ASSUME LedgerInv, NEW c \in Callers, RegisterLoad(c) \/ UnregisterLoad(c)
  PROVE  \E r : Become(c, r) /\ Carries(r)
<1>1. ASSUME NEW op \in {"register", "unregister"}, NEW b, b.items = disk.items,
             Become(c, [Idle EXCEPT !.pc = "create", !.op = op, !.mem = b])
      PROVE  \E r : Become(c, r) /\ Carries(r)
  <2> DEFINE r == [Idle EXCEPT !.pc = "create", !.op = op, !.mem = b]
  <2>1. r.pc = "create" /\ r.op \in {"register", "unregister"} /\ r.mem = b
    BY DEF Idle
  <2> HIDE DEF r
  <2>2. Safe(b)
    BY <1>1 DEF LedgerInv, Safe, Honours, Tracked, Latest
  <2>3. Done(r, b)
    BY <2>1 DEF Done
  <2>4. Carries(r)
    BY <2>1, <2>2, <2>3, SMTT(30) DEF Carries
  <2>5. QED
    BY <1>1, <2>4 DEF r
<1>2. CASE RegisterLoad(c)
  <2>1. PICK h : Become(c, [Idle EXCEPT !.pc = "create", !.op = "register",
                                        !.mem = RegisterAuthzHelper(disk, h)])
    BY <1>2 DEF RegisterLoad
  <2>2. RegisterAuthzHelper(disk, h).items = disk.items
    BY DEF RegisterAuthzHelper, LedgerInv, StoreInv, TypeOK, Baselines
  <2>3. QED
    BY <1>1, <2>1, <2>2
<1>3. CASE UnregisterLoad(c)
  <2>1. PICK h : Become(c, [Idle EXCEPT !.pc = "create", !.op = "unregister",
                                        !.mem = UnregisterAuthzHelper(disk, h)])
    BY <1>3 DEF UnregisterLoad
  <2>2. UnregisterAuthzHelper(disk, h).items = disk.items
    BY DEF UnregisterAuthzHelper, LedgerInv, StoreInv, TypeOK, Baselines
  <2>3. QED
    BY <1>1, <2>1, <2>2
<1>4. QED
  BY <1>2, <1>3

-----------------------------------------------------------------------------
\* What the file and the promises say does not change in the other steps before
\* the rename, and what a call carries follows it through Save.
LEMMA BeforeRename ==
  ASSUME OneLanguage, LedgerInv, NEW c \in Callers, Work(c), ~SaveRename(c)
  PROVE  /\ \E r : Become(c, r) /\ Carries(r)
         /\ UNCHANGED <<code, disk>>
         /\ call[c] # Idle \/ MayStart(c)
<1>1. call[c] \in Calls /\ code \subseteq FP
  BY DEF LedgerInv, StoreInv, TypeOK
<1>2. call[c].pc # "idle" => call[c] # Idle
  BY DEF Idle
<1>3. CASE ScanLoad(c)
  <2> DEFINE r == [Idle EXCEPT !.pc = "scan", !.op = "scan-all", !.mem = disk]
  <2>1. r.pc = "scan" /\ r.op = "scan-all" /\ r.mem = disk
    BY DEF Idle
  <2>2. Carries(r)
    BY <2>1 DEF Carries
  <2>3. QED
    BY <1>3, <2>2 DEF ScanLoad
<1>4. CASE ScanRun(c)
  BY <1>2, <1>4, ScanSafe DEF ScanRun
<1>5. CASE ScanFails(c)
  BY <1>2, <1>5, IdleCarries DEF ScanFails
<1>6. CASE AcceptLoad(c)
  BY <1>6, AcceptSafe DEF AcceptLoad
<1>7. CASE VerdictAnalyse(c)
  <2>1. PICK v, fps :
          /\ v \in Verdict
          /\ Become(c, [Idle EXCEPT !.pc = "record", !.op = "record-verdict",
                                    !.seen = fps, !.fps = fps, !.verdict = {v}])
    BY <1>7 DEF VerdictAnalyse
  <2> DEFINE r == [Idle EXCEPT !.pc = "record", !.op = "record-verdict",
                               !.seen = fps, !.fps = fps, !.verdict = {v}]
  <2>2. r.pc = "record" /\ r.op = "record-verdict" /\ r.verdict = {v}
    BY DEF Idle
  <2>3. Carries(r)
    BY <2>1, <2>2 DEF Carries
  <2>4. QED
    BY <1>7, <2>1, <2>3 DEF VerdictAnalyse
<1>8. CASE VerdictLoad(c)
  BY <1>2, <1>8, VerdictSafe DEF VerdictLoad
<1>9. CASE PruneAnalyse(c)
  <2>1. PICK wanted \in SUBSET FP, lang \in Language \cap Exposed :
          Become(c, [Idle EXCEPT !.pc = "prune", !.op = "prune", !.fps = wanted,
                                 !.seen = SecuritySeen(lang, File)])
    BY <1>9 DEF PruneAnalyse
  <2> DEFINE r == [Idle EXCEPT !.pc = "prune", !.op = "prune", !.fps = wanted,
                               !.seen = SecuritySeen(lang, File)]
  <2>2. r.pc = "prune" /\ r.op = "prune" /\ r.seen = SecuritySeen(lang, File)
    BY DEF Idle
  <2>3. \A f \in code \cap InCats(SecurityCats) : f \in SecuritySeen(lang, File)
    BY <1>1, <2>1, FingerprintAssumption DEF SecuritySeen, OneLanguage
  <2>4. Carries(r)
    BY <2>2, <2>3 DEF Carries
  <2>5. QED
    BY <1>9, <2>1, <2>4 DEF PruneAnalyse
<1>10. CASE PruneLoad(c)
  BY <1>2, <1>10, PruneSafe DEF PruneLoad
<1>11. CASE RegisterLoad(c) \/ UnregisterLoad(c)
  BY <1>11, HelperSafe DEF RegisterLoad, UnregisterLoad
<1>12. ASSUME NEW pc \in {"write", "rename"}, call[c].pc \in {"create", "write"},
              Become(c, [call[c] EXCEPT !.pc = pc])
       PROVE  \E r : Become(c, r) /\ Carries(r)
  <2> DEFINE r == [call[c] EXCEPT !.pc = pc]
  <2>1. /\ r.pc = pc /\ r.mem = call[c].mem /\ r.op = call[c].op
        /\ r.fps = call[c].fps /\ r.verdict = call[c].verdict
    BY <1>1 DEF Calls
  <2>2. Safe(call[c].mem) /\ Done(call[c], call[c].mem)
    BY <1>12 DEF LedgerInv, Carries
  <2> HIDE DEF r
  <2>3. Carries(r)
    BY <2>1, <2>2 DEF Carries, Done
  <2>4. QED
    BY <1>12, <2>3 DEF r
<1>13. CASE SaveCreate(c) \/ SaveWrite(c)
  BY <1>2, <1>12, <1>13 DEF SaveCreate, SaveWrite
<1>14. CASE SaveFails(c) \/ Crash(c)
  BY <1>2, <1>14, IdleCarries DEF SaveFails, Crash
<1>15. QED
  BY <1>3, <1>4, <1>5, <1>6, <1>7, <1>8, <1>9, <1>10, <1>11, <1>13, <1>14 DEF Work

\* The rename puts in the file what the call has carried.
LEMMA RenameStep ==
  ASSUME Serial, LedgerInv, StoreInv', NEW c \in Callers, SaveRename(c), UNCHANGED promise
  PROVE  LedgerInv'
<1> DEFINE r == [call[c] EXCEPT !.pc = "reply"]
<1>1. call[c] \in Calls /\ call[c] # Idle /\ disk' = call[c].mem /\ UNCHANGED code
  BY DEF LedgerInv, StoreInv, TypeOK, TempWhole, SaveRename, Idle
<1>2. \A d \in Callers \ {c} : call[d] = Idle
  BY <1>1, OthersIdle DEF LedgerInv
<1>3. /\ r.pc = "reply" /\ r.op = call[c].op /\ r.fps = call[c].fps
      /\ r.verdict = call[c].verdict
  BY <1>1 DEF Calls
<1>4. Safe(call[c].mem) /\ Done(call[c], call[c].mem)
  BY DEF LedgerInv, Carries, SaveRename
<1>5. call'[c] = r /\ \A d \in Callers \ {c} : call'[d] = Idle
  BY <1>2 DEF SaveRename, Become, LedgerInv, StoreInv, TypeOK
<1> HIDE DEF r
<1>6. PromiseOK'
  BY <1>1 DEF LedgerInv, PromiseOK
<1>7. Safe(disk)'
  BY <1>1, <1>4 DEF Safe, Honours
<1>8. OneInFlight'
  BY <1>5 DEF OneInFlight
<1>9. Carries(call[c])'
  BY <1>1, <1>3, <1>4, <1>5 DEF Carries, Done
<1>10. \A d \in Callers \ {c} : Carries(call[d])'
  BY <1>5, IdleCarries DEF Carries, Idle
<1>11. QED
  BY <1>6, <1>7, <1>8, <1>9, <1>10 DEF LedgerInv

\* The reply promises what the file already holds.
LEMMA ReplyStep ==
  ASSUME Serial, LedgerInv, StoreInv', NEW c \in Callers, LReply(c)
  PROVE  LedgerInv'
<1>1. call[c] \in Calls /\ call[c] # Idle /\ UNCHANGED <<code, disk>>
  BY DEF LedgerInv, StoreInv, TypeOK, LReply, Reply, Idle
<1>2. \A d \in Callers : call'[d] = Idle
  BY <1>1, OthersIdle DEF LedgerInv, LReply, Reply, Become, StoreInv, TypeOK
<1>3. Done(call[c], disk) /\ call[c].verdict \subseteq Verdict
  BY <1>1 DEF LedgerInv, Carries, LReply, Reply, Calls
<1>4. ASSUME NEW f \in FP
      PROVE  /\ promise'[f] \in Entry
             /\ f \notin code => promise'[f] = Bare
             /\ f \in code /\ promise'[f] # Bare => Honours(disk, f)'
  <2>1. promise'[f] = Recorded(c, f) /\ promise[f] \in Entry
    BY DEF LReply, LedgerInv, PromiseOK
  <2>2. f \in code /\ promise[f] # Bare => Honours(disk, f)
    BY DEF LedgerInv, Safe
  <2>3. CASE f \notin code \cap call[c].fps \/ call[c].op \notin {"accept", "record-verdict"}
    <3>1. promise'[f] = promise[f]
      BY <2>1, <2>3 DEF Recorded
    <3>2. QED
      BY <1>1, <2>1, <2>2, <3>1 DEF LedgerInv, PromiseOK, Honours
  <2>4. CASE f \in code \cap call[c].fps /\ call[c].op = "accept"
    <3>1. promise'[f] = [promise[f] EXCEPT !.ack = TRUE]
      BY <2>1, <2>4 DEF Recorded
    <3>2. promise'[f] \in Entry /\ promise'[f].verdicts = promise[f].verdicts
      BY <2>1, <3>1 DEF Entry
    <3>3. f \in Tracked(disk) /\ Latest(disk, f).ack
      BY <1>3, <2>4 DEF Done
    <3>4. promise[f].verdicts \subseteq Latest(disk, f).verdicts
      BY <2>2, <2>4 DEF Honours, Bare
    <3>5. QED
      BY <1>1, <2>4, <3>2, <3>3, <3>4 DEF Honours
  <2>5. CASE f \in code \cap call[c].fps /\ call[c].op = "record-verdict"
    <3>1. promise'[f] = [promise[f] EXCEPT !.verdicts = @ \cup call[c].verdict]
      BY <2>1, <2>5 DEF Recorded
    <3>2. /\ promise'[f] \in Entry /\ promise'[f].ack = promise[f].ack
          /\ promise'[f].verdicts = promise[f].verdicts \cup call[c].verdict
      BY <1>3, <2>1, <3>1 DEF Entry
    <3>3. f \in Tracked(disk) /\ call[c].verdict \subseteq Latest(disk, f).verdicts
      BY <1>3, <2>5 DEF Done
    <3>4. /\ promise[f].verdicts \subseteq Latest(disk, f).verdicts
          /\ promise[f].ack => Latest(disk, f).ack
      BY <2>2, <2>5 DEF Honours, Bare
    <3>5. QED
      BY <1>1, <2>5, <3>2, <3>3, <3>4 DEF Honours
  <2>6. QED
    BY <2>3, <2>4, <2>5
<1>5. PromiseOK'
  <2>1. promise' = [f \in FP |-> Recorded(c, f)]
    BY DEF LReply
  <2>2. QED
    BY <1>1, <1>4, <2>1 DEF PromiseOK
<1>6. Safe(disk)'
  BY <1>1, <1>4 DEF Safe, LedgerInv, StoreInv, TypeOK
<1>7. OneInFlight'
  BY <1>2 DEF OneInFlight
<1>8. \A d \in Callers : Carries(call[d])'
  BY <1>2 DEF Carries, Idle
<1>9. QED
  BY <1>5, <1>6, <1>7, <1>8 DEF LedgerInv

\* An edit makes no promise, and takes away the promises of the code it removes.
LEMMA EditStep ==
  ASSUME LedgerInv, StoreInv', LEdit
  PROVE  LedgerInv'
<1>1. /\ code' \subseteq FP /\ UNCHANGED <<disk, tmp, call>>
      /\ promise' = [f \in FP |-> IF f \in code' THEN promise[f] ELSE Bare]
  BY DEF LEdit, Edit, LedgerInv, StoreInv, TypeOK
<1>2. Bare \in Entry
  BY DEF Bare, Entry
<1>3. PromiseOK'
  BY <1>1, <1>2 DEF LedgerInv, PromiseOK
<1>4. \A f \in code' : promise'[f] # Bare => f \in code /\ promise'[f] = promise[f]
  BY <1>1 DEF LedgerInv, PromiseOK
<1>5. ASSUME NEW b, Safe(b) PROVE Safe(b)'
  BY <1>4, <1>5 DEF Safe, Honours
<1>6. Safe(disk)'
  <2>1. Safe(disk)
    BY DEF LedgerInv
  <2>2. QED
    BY <1>1, <1>4, <2>1 DEF Safe, Honours
<1>7. ASSUME NEW s, Carries(s) PROVE Carries(s)'
  <2>1. Safe(s.mem) => Safe(s.mem)'
    BY <1>5
  <2>2. QED
    BY <1>1, <1>4, <1>7, <2>1 DEF Carries, Done
<1>8. \A d \in Callers : Carries(call[d])'
  <2> SUFFICES ASSUME NEW d \in Callers PROVE Carries(call[d])'
    OBVIOUS
  <2>1. PICK s : s = call[d]
    OBVIOUS
  <2>2. call'[d] = s /\ Carries(s)
    BY <1>1, <2>1 DEF LedgerInv
  <2>3. Carries(s)'
    BY <1>7, <2>2
  <2>4. QED
    BY <2>2, <2>3 DEF Carries, Done, Safe, Honours
<1>9. OneInFlight'
  BY <1>1 DEF LedgerInv, OneInFlight
<1>10. QED
  BY <1>3, <1>6, <1>8, <1>9 DEF LedgerInv

LEMMA LedgerInit == LInit => LedgerInv
<1> SUFFICES ASSUME LInit PROVE LedgerInv
  OBVIOUS
<1>1. StoreInv
  BY InitInv DEF LInit
<1>2. Bare \in Entry
  BY DEF Bare, Entry
<1>3. PromiseOK /\ Safe(disk)
  BY <1>2 DEF LInit, PromiseOK, Safe, StoreInv, TypeOK, Init
<1>4. OneInFlight /\ \A c \in Callers : Carries(call[c])
  BY IdleCarries DEF LInit, Init, OneInFlight
<1>5. QED
  BY <1>1, <1>3, <1>4 DEF LedgerInv

LEMMA LedgerStep ==
  ASSUME Serial, OneLanguage
  PROVE  LedgerInv /\ [LNext]_lvars => LedgerInv'
<1> SUFFICES ASSUME LedgerInv, [LNext]_lvars PROVE LedgerInv'
  OBVIOUS
<1>1. StoreInv'
  BY LedgerStepIsStep, StepInv DEF LedgerInv
<1>2. CASE LEdit
  BY <1>1, <1>2, EditStep
<1>3. CASE \E c \in Callers : LReply(c)
  BY <1>1, <1>3, ReplyStep
<1>4. ASSUME NEW c \in Callers, LWork(c) PROVE LedgerInv'
  <2>1. Work(c) /\ UNCHANGED promise
    BY <1>4 DEF LWork
  <2>2. CASE SaveRename(c)
    BY <1>1, <2>1, <2>2, RenameStep
  <2>3. CASE ~SaveRename(c)
    <3>1. /\ \E r : Become(c, r) /\ Carries(r)
          /\ UNCHANGED <<code, disk>>
          /\ call[c] # Idle \/ MayStart(c)
      BY <2>1, <2>3, BeforeRename
    <3>2. \A d \in Callers \ {c} : call[d] = Idle
      BY <3>1, OthersIdle DEF LedgerInv
    <3>3. PICK r : Become(c, r) /\ Carries(r)
      BY <3>1
    <3>4. QED
      BY <1>1, <2>1, <3>1, <3>2, <3>3, SoloStep
  <2>4. QED
    BY <2>2, <2>3
<1>5. CASE UNCHANGED lvars
  BY <1>5 DEF lvars, vars, LedgerInv, StoreInv, TypeOK, OneEntryEach, Single, TempWhole,
              PromiseOK, OneInFlight, Safe, Honours, Carries, Done
<1>6. QED
  BY <1>2, <1>3, <1>4, <1>5 DEF LNext

\* The promises are honoured.
LEMMA Kept == LedgerInv => DecisionsKept /\ VerdictsKept
<1> SUFFICES ASSUME LedgerInv, NEW f \in code, promise[f] # Bare
             PROVE  Honours(disk, f)
  BY DEF DecisionsKept, VerdictsKept, Honours, Acked, Bare
<1>1. QED
  BY DEF LedgerInv, Safe

\* What a human accepted, and accept answered, stays accepted for as long as its
\* code stays, whatever scans, prunes, verdicts, failures and crashes follow, as
\* long as calls come one at a time and every request names the one language the
\* project is written in.
THEOREM AcceptanceLasts ==
  ASSUME Serial, OneLanguage
  PROVE  LSpec => []DecisionsKept
<1>1. LInit => LedgerInv
  BY LedgerInit
<1>2. LedgerInv /\ [LNext]_lvars => LedgerInv'
  BY LedgerStep
<1>3. LedgerInv => DecisionsKept
  BY Kept
<1>4. QED
  BY <1>1, <1>2, <1>3, PTL DEF LSpec

\* A verdict answered as recorded stays in its item's history for as long as the
\* code of the item stays, under the same conditions.
THEOREM VerdictsLast ==
  ASSUME Serial, OneLanguage
  PROVE  LSpec => []VerdictsKept
<1>1. LInit => LedgerInv
  BY LedgerInit
<1>2. LedgerInv /\ [LNext]_lvars => LedgerInv'
  BY LedgerStep
<1>3. LedgerInv => VerdictsKept
  BY Kept
<1>4. QED
  BY <1>1, <1>2, <1>3, PTL DEF LSpec

-----------------------------------------------------------------------------
(* AuditAnswers: what a scan may leave out. *)

\* The answer of the call r shows the affirmations outside A that it looked at.
ShowsAllBut(r, A) ==
  r.op = "scan-all" /\ r.pc # "scan" =>
    (r.seen \cap r.looked \cap Affirming) \ A \subseteq r.answer.shown

\* Nothing is acknowledged in r but what A holds, and the rest is shown.
Clean(r, A) ==
  /\ Acked(r.mem) \subseteq A
  /\ ShowsAllBut(r, A)
  /\ r.pc \in {"record", "prune"} => r.op # "scan-all"

AnswersInv ==
  /\ StoreInv
  /\ Acked(disk) \subseteq approved
  /\ \A c \in Callers : Clean(call[c], approved)

-----------------------------------------------------------------------------
\* An idle call is clean.
LEMMA IdleClean == \A A : Clean(Idle, A)
<1>1. Acked(NoFile) = {}
  BY DEF Acked, Tracked, NoFile
<1>2. QED
  BY <1>1 DEF Clean, ShowsAllBut, Idle

\* What has been approved never shrinks.
LEMMA ApprovedGrows ==
  ASSUME NEW c \in Callers, AWork(c)
  PROVE  approved \subseteq approved'
BY DEF AWork, Asked

\* A scan acknowledges nothing and shows what it must.
LEMMA ScanClean ==
  ASSUME AnswersInv, NEW c \in Callers, ScanRun(c)
  PROVE  \E r : Become(c, r) /\ Clean(r, approved)
<1>1. /\ code \in SUBSET FP
      /\ call[c] \in Calls /\ call[c].mem \in Baselines /\ Single(call[c].mem)
      /\ Acked(call[c].mem) \subseteq approved
  BY DEF AnswersInv, Clean, StoreInv, TypeOK, OneEntryEach, Calls
<1>2. PICK fits \in BOOLEAN, looked \in SUBSET FP, seen \in SUBSET FP, replaced \in SUBSET FP,
          wh \in SUBSET (FP \ Affirming) :
        /\ replaced \in Replacements(call[c].mem, seen, looked)
        /\ Become(c, Diffed(call[c], seen, looked, replaced, wh, fits))
  BY <1>1, ScanIsDiff
<1> DEFINE r == Diffed(call[c], seen, looked, replaced, wh, fits)
<1>3. /\ r.mem = DiffNext(call[c].mem, seen, looked, replaced)
      /\ r.seen = seen /\ r.looked = looked /\ r.pc \in {"create", "reply"}
      /\ r.answer.shown = DiffShown(call[c].mem, seen, looked) \ wh
  BY <1>1, <1>2, DiffedCarries
<1> HIDE DEF r
<1>4. Acked(r.mem) \subseteq approved
  BY <1>1, <1>2, <1>3, DiffAcks
<1>5. ShowsAllBut(r, approved)
  <2>1. r.answer.shown = DiffShown(call[c].mem, seen, looked) \ wh /\ wh \cap Affirming = {}
    BY <1>2, <1>3
  <2>2. QED
    BY <1>1, <1>3, <2>1 DEF ShowsAllBut, DiffShown
<1>6. QED
  <2>1. Clean(r, approved)
    BY <1>3, <1>4, <1>5 DEF Clean
  <2>2. QED
    BY <1>2, <2>1 DEF r

\* Each step before the rename leaves the call clean.
LEMMA WorkClean ==
  ASSUME AnswersInv, NEW c \in Callers, AWork(c), ~SaveRename(c)
  PROVE  \E r : Become(c, r) /\ Clean(r, approved')
<1>1. /\ disk \in Baselines /\ Single(disk) /\ call \in [Callers -> Calls] /\ call[c] \in Calls
      /\ Acked(disk) \subseteq approved /\ Clean(call[c], approved)
  BY DEF AnswersInv, StoreInv, TypeOK, OneEntryEach
<1>2. approved \subseteq approved'
  BY ApprovedGrows
<1>3. \A r : Clean(r, approved) => Clean(r, approved')
  BY <1>2 DEF Clean, ShowsAllBut
<1>4. Work(c)
  BY DEF AWork, Asked
\* A call that is no scan is clean when its copy is.
<1>5. ASSUME NEW r, r.op # "scan-all" \/ r.pc = "scan", Acked(r.mem) \subseteq approved
      PROVE  Clean(r, approved')
  BY <1>2, <1>5 DEF Clean, ShowsAllBut
<1>6. CASE ScanLoad(c)
  <2> DEFINE r == [Idle EXCEPT !.pc = "scan", !.op = "scan-all", !.mem = disk]
  <2>1. r.pc = "scan" /\ r.mem = disk
    BY DEF Idle
  <2>2. QED
    BY <1>1, <1>5, <1>6, <2>1 DEF ScanLoad
<1>7. CASE ScanRun(c)
  BY <1>3, <1>7, ScanClean
<1>8. CASE ScanFails(c) \/ SaveFails(c) \/ Crash(c)
  BY <1>8, IdleClean DEF ScanFails, SaveFails, Crash
<1>9. CASE AcceptLoad(c)
  <2>1. PICK fps \in SUBSET Tracked(disk) :
          Become(c, [Idle EXCEPT !.pc = "create", !.op = "accept", !.fps = fps,
                                 !.mem = Accept(disk, fps)])
    BY <1>9 DEF AcceptLoad
  <2> DEFINE r == [Idle EXCEPT !.pc = "create", !.op = "accept", !.fps = fps,
                               !.mem = Accept(disk, fps)]
  <2>2. r.pc = "create" /\ r.op = "accept" /\ r.fps = fps /\ r.mem = Accept(disk, fps)
    BY DEF Idle
  <2>3. Acked(r.mem) = Acked(disk) \cup fps
    BY <1>1, <2>2, AcceptFacts
  <2> HIDE DEF r
  <2>4. Become(c, r)
    BY <2>1 DEF r
  <2>5. call'[c] = r
    BY <1>1, <2>4 DEF Become
  <2>6. approved' = approved \cup fps
    BY <2>2, <2>5 DEF AWork, Asked
  <2>7. Clean(r, approved')
    BY <1>1, <2>2, <2>3, <2>6 DEF Clean, ShowsAllBut
  <2>8. QED
    BY <2>4, <2>7
<1>10. CASE VerdictAnalyse(c)
  <2>1. PICK v, fps :
          Become(c, [Idle EXCEPT !.pc = "record", !.op = "record-verdict",
                                 !.seen = fps, !.fps = fps, !.verdict = {v}])
    BY <1>10 DEF VerdictAnalyse
  <2> DEFINE r == [Idle EXCEPT !.pc = "record", !.op = "record-verdict",
                               !.seen = fps, !.fps = fps, !.verdict = {v}]
  <2>2. r.op = "record-verdict" /\ r.mem = Idle.mem
    BY DEF Idle
  <2>3. Acked(r.mem) \subseteq approved
    BY <2>2, IdleClean DEF Clean
  <2>4. QED
    BY <1>5, <2>1, <2>2, <2>3
<1>11. CASE VerdictLoad(c)
  <2>1. PICK v \in call[c].verdict :
          Become(c, [call[c] EXCEPT !.pc = "create", !.mem = RecordVerdict(disk, call[c].fps, v)])
    BY <1>11 DEF VerdictLoad
  <2> DEFINE r == [call[c] EXCEPT !.pc = "create", !.mem = RecordVerdict(disk, call[c].fps, v)]
  <2>2. v \in Verdict /\ call[c].fps \in SUBSET FP
    BY <1>1 DEF Calls
  <2>3. Acked(RecordVerdict(disk, call[c].fps, v)) = Acked(disk)
    BY <1>1, <2>2, RecordFacts
  <2>4. /\ r.mem = RecordVerdict(disk, call[c].fps, v) /\ r.op = call[c].op
    BY <1>1 DEF Calls
  <2>5. call[c].op # "scan-all"
    BY <1>1, <1>11 DEF VerdictLoad, Clean
  <2>6. QED
    BY <1>1, <1>5, <2>1, <2>3, <2>4, <2>5
<1>12. CASE PruneAnalyse(c)
  <2>1. PICK wanted, lang :
          Become(c, [Idle EXCEPT !.pc = "prune", !.op = "prune", !.fps = wanted,
                                 !.seen = SecuritySeen(lang, File)])
    BY <1>12 DEF PruneAnalyse
  <2> DEFINE r == [Idle EXCEPT !.pc = "prune", !.op = "prune", !.fps = wanted,
                               !.seen = SecuritySeen(lang, File)]
  <2>2. r.op = "prune" /\ r.mem = Idle.mem
    BY DEF Idle
  <2>3. Acked(r.mem) \subseteq approved
    BY <2>2, IdleClean DEF Clean
  <2>4. QED
    BY <1>5, <2>1, <2>2, <2>3
<1>13. CASE PruneLoad(c)
  <2> DEFINE targets == PruneTargets(disk, call[c].seen, call[c].fps)
             r == [call[c] EXCEPT !.pc = "create", !.fps = targets, !.mem = Prune(disk, targets)]
  <2>1. Become(c, r)
    BY <1>13 DEF PruneLoad
  <2>2. targets \in SUBSET FP
    BY DEF PruneTargets, Tracked
  <2>3. Acked(Prune(disk, targets)) \subseteq Acked(disk)
    BY <1>1, <2>2, PruneFacts
  <2>4. /\ r.mem = Prune(disk, targets) /\ r.op = call[c].op
    BY <1>1 DEF Calls
  <2>5. call[c].op # "scan-all"
    BY <1>1, <1>13 DEF PruneLoad, Clean
  <2>6. QED
    BY <1>1, <1>5, <2>1, <2>3, <2>4, <2>5
<1>14. ASSUME NEW b, b.items = disk.items PROVE Acked(b) \subseteq approved
  BY <1>1, <1>14 DEF Acked, Tracked, Latest
<1>15. CASE RegisterLoad(c)
  <2>1. PICK h : Become(c, [Idle EXCEPT !.pc = "create", !.op = "register",
                                        !.mem = RegisterAuthzHelper(disk, h)])
    BY <1>15 DEF RegisterLoad
  <2> DEFINE r == [Idle EXCEPT !.pc = "create", !.op = "register",
                               !.mem = RegisterAuthzHelper(disk, h)]
  <2>2. RegisterAuthzHelper(disk, h).items = disk.items
    BY <1>1 DEF RegisterAuthzHelper, Baselines
  <2>3. r.op = "register" /\ r.mem = RegisterAuthzHelper(disk, h)
    BY DEF Idle
  <2>4. QED
    BY <1>5, <1>14, <2>1, <2>2, <2>3
<1>16. CASE UnregisterLoad(c)
  <2>1. PICK h : Become(c, [Idle EXCEPT !.pc = "create", !.op = "unregister",
                                        !.mem = UnregisterAuthzHelper(disk, h)])
    BY <1>16 DEF UnregisterLoad
  <2> DEFINE r == [Idle EXCEPT !.pc = "create", !.op = "unregister",
                               !.mem = UnregisterAuthzHelper(disk, h)]
  <2>2. UnregisterAuthzHelper(disk, h).items = disk.items
    BY <1>1 DEF UnregisterAuthzHelper, Baselines
  <2>3. r.op = "unregister" /\ r.mem = UnregisterAuthzHelper(disk, h)
    BY DEF Idle
  <2>4. QED
    BY <1>5, <1>14, <2>1, <2>2, <2>3
<1>17. ASSUME NEW pc \in {"write", "rename"}, call[c].pc \in {"create", "write"},
              Become(c, [call[c] EXCEPT !.pc = pc])
       PROVE  \E r : Become(c, r) /\ Clean(r, approved')
  <2> DEFINE r == [call[c] EXCEPT !.pc = pc]
  <2>1. /\ r.pc = pc /\ r.mem = call[c].mem /\ r.op = call[c].op /\ r.seen = call[c].seen
        /\ r.looked = call[c].looked /\ r.answer = call[c].answer
    BY <1>1 DEF Calls
  <2> HIDE DEF r
  <2>2. Clean(r, approved)
    BY <1>1, <1>17, <2>1 DEF Clean, ShowsAllBut
  <2>3. QED
    BY <1>3, <1>17, <2>2 DEF r
<1>18. CASE SaveCreate(c) \/ SaveWrite(c)
  BY <1>17, <1>18, SMTT(30) DEF SaveCreate, SaveWrite
<1>19. QED
  BY <1>4, <1>6, <1>7, <1>8, <1>9, <1>10, <1>11, <1>12, <1>13, <1>15, <1>16, <1>18 DEF Work

\* The step of a call that leaves the file clean.
LEMMA CleanStep ==
  ASSUME AnswersInv, StoreInv', approved \subseteq approved', NEW c \in Callers, NEW r,
         Become(c, r), Clean(r, approved'), Acked(disk') \subseteq approved'
  PROVE  AnswersInv'
<1>1. call'[c] = r /\ \A d \in Callers \ {c} : call'[d] = call[d]
  BY DEF Become, AnswersInv, StoreInv, TypeOK
<1>2. \A d \in Callers : Clean(call'[d], approved')
  BY <1>1 DEF AnswersInv, Clean, ShowsAllBut
<1>3. QED
  BY <1>2 DEF AnswersInv, Clean, ShowsAllBut, Acked, Tracked, Latest

\* A step with the history variables is a step of the store.
LEMMA AnswersStepIsStep == [ANext]_avars => [Next]_vars
<1>1. AEdit => Next
  BY DEF AEdit, Next
<1>2. ASSUME NEW c \in Callers, AWork(c) \/ AReply(c) PROVE Next
  BY <1>2 DEF AWork, AReply, Next
<1>3. QED
  BY <1>1, <1>2 DEF ANext, avars, vars

\* The invariant holds at first, and every step keeps it.
LEMMA AnswersInit == AInit => AnswersInv
<1> SUFFICES ASSUME AInit PROVE AnswersInv
  OBVIOUS
<1>1. StoreInv
  BY InitInv DEF AInit
<1>2. Acked(disk) \subseteq approved
  BY DEF AInit, Init, Acked, Tracked, NoFile
<1>3. \A c \in Callers : Clean(call[c], approved)
  BY IdleClean DEF AInit, Init
<1>4. QED
  BY <1>1, <1>2, <1>3 DEF AnswersInv

LEMMA AnswersStep == AnswersInv /\ [ANext]_avars => AnswersInv'
<1> SUFFICES ASSUME AnswersInv, [ANext]_avars PROVE AnswersInv'
  OBVIOUS
<1>1. StoreInv'
  BY AnswersStepIsStep, StepInv, SMTT(30) DEF AnswersInv
<1>2. CASE AEdit
  BY <1>1, <1>2 DEF AEdit, Edit, AnswersInv, Clean, ShowsAllBut, Acked, Tracked, Latest
<1>3. ASSUME NEW c \in Callers, AWork(c) PROVE AnswersInv'
  <2>1. approved \subseteq approved' /\ Acked(disk) \subseteq approved
    BY <1>3, ApprovedGrows DEF AnswersInv
  <2>2. CASE SaveRename(c)
    <3> DEFINE r == [call[c] EXCEPT !.pc = "reply"]
    <3>1. call[c] \in Calls /\ disk' = call[c].mem /\ Clean(call[c], approved) /\ Become(c, r)
      BY <2>2 DEF SaveRename, AnswersInv, StoreInv, TypeOK, TempWhole
    <3>2. /\ r.pc = "reply" /\ r.mem = call[c].mem /\ r.op = call[c].op /\ r.seen = call[c].seen
          /\ r.looked = call[c].looked /\ r.answer = call[c].answer
      BY <3>1 DEF Calls
    <3> HIDE DEF r
    <3>3. Clean(r, approved')
      BY <2>1, <2>2, <3>1, <3>2 DEF Clean, ShowsAllBut, SaveRename
    <3>4. Acked(disk') \subseteq approved'
      BY <2>1, <3>1 DEF Clean
    <3>5. QED
      BY <1>1, <2>1, <3>1, <3>3, <3>4, CleanStep
  <2>3. CASE ~SaveRename(c)
    <3>1. PICK r : Become(c, r) /\ Clean(r, approved')
      BY <1>3, <2>3, WorkClean, SMTT(30)
    <3>2. disk' = disk
      BY <1>3, <2>3 DEF AWork, Work, ScanLoad, ScanRun, ScanFails, AcceptLoad, VerdictAnalyse,
           VerdictLoad, PruneAnalyse, PruneLoad, RegisterLoad, UnregisterLoad, SaveCreate,
           SaveWrite, SaveFails, Crash
    <3>3. QED
      BY <1>1, <2>1, <3>1, <3>2, CleanStep
  <2>4. QED
    BY <2>2, <2>3
<1>4. ASSUME NEW c \in Callers, AReply(c) PROVE AnswersInv'
  <2>1. Become(c, Idle) /\ disk' = disk /\ approved' = approved /\ Acked(disk) \subseteq approved
    BY <1>4 DEF AReply, Reply, AnswersInv
  <2>2. Clean(Idle, approved')
    BY IdleClean
  <2>3. QED
    BY <1>1, <2>1, <2>2, CleanStep
<1>5. CASE UNCHANGED avars
  BY <1>1, <1>5 DEF avars, vars, AnswersInv, Clean, ShowsAllBut, Acked, Tracked, Latest
<1>6. QED
  BY <1>2, <1>3, <1>4, <1>5 DEF ANext

\* Nothing becomes acknowledged, in the file or in a call's copy, but what an accept
\* request has named: verdicts, scans, edits and overlapping calls never do it.
THEOREM HumansDecide == ASpec => []OnlyHumansAccept
<1>1. AInit => AnswersInv
  BY AnswersInit
<1>2. AnswersInv /\ [ANext]_avars => AnswersInv'
  BY AnswersStep
<1>3. AnswersInv => OnlyHumansAccept
  BY DEF AnswersInv, Clean, OnlyHumansAccept
<1>4. QED
  BY <1>1, <1>2, <1>3, PTL DEF ASpec

\* A scan that answers shows every affirmation nobody accepted, of those it looked
\* at: whatever other calls did between its load and its reply.
THEOREM AffirmationsAreShown == ASpec => []AffirmationsShown
<1>1. AInit => AnswersInv
  BY AnswersInit
<1>2. AnswersInv /\ [ANext]_avars => AnswersInv'
  BY AnswersStep
<1>3. AnswersInv => AffirmationsShown
  BY DEF AnswersInv, Clean, ShowsAllBut, AffirmationsShown, Answering
<1>4. QED
  BY <1>1, <1>2, <1>3, PTL DEF ASpec

-----------------------------------------------------------------------------
(* One call at a time, none of them killed: what the file knows, the client   *)
(* has had an account of, or is about to have it from the reply in flight.     *)

answered == told \cup withheld \cup approved \cup judged

\* What the reply of the call r will add to the client's account.
Owed(r) == IF r.answer.fits THEN r.answer.shown \cup r.answer.withheld ELSE {}

\* The call r has nothing to save, and is silent on nothing, that A and its own reply
\* leave out.
Accounted(r, A) ==
  /\ r.pc = "scan" => r.op = "scan-all" /\ Tracked(r.mem) \subseteq A
  /\ r.pc \in {"record", "prune"} => r.op # "scan-all"
  /\ r.pc = "record" => r.fps \subseteq A
  /\ r.pc \in {"create", "write", "rename"} => Tracked(r.mem) \subseteq A \cup Owed(r)
  /\ r.op = "scan-all" /\ r.pc # "scan" => r.answer.silent \subseteq A

FileAccounted ==
  \A f \in Tracked(disk) :
    f \in answered \/ \E c \in Callers : call[c].pc = "reply" /\ f \in Owed(call[c])

AccountInv ==
  /\ StoreInv /\ OneInFlight /\ FileAccounted
  /\ \A c \in Callers : Accounted(call[c], answered)

LEMMA IdleAccounted == \A A : Accounted(Idle, A)
BY DEF Accounted, Idle, NoAnswer

\* A call that is accounted for by A is accounted for by more.
LEMMA AccountedByMore ==
  ASSUME NEW r, NEW A, NEW B, Accounted(r, A), A \subseteq B
  PROVE  Accounted(r, B)
BY DEF Accounted

\* The client's account never shrinks.
LEMMA AccountGrows ==
  ASSUME NEW c \in Callers, AWork(c) \/ AReply(c)
  PROVE  answered \subseteq answered'
BY DEF AWork, AReply, Asked, answered

\* With no reply under way, the file holds nothing the client has no account of.
LEMMA FileAnswered ==
  ASSUME Serial, AccountInv, NEW c \in Callers, call[c].pc # "reply", call[c] # Idle \/ MayStart(c)
  PROVE  Tracked(disk) \subseteq answered
<1>1. \A d \in Callers \ {c} : call[d] = Idle
  BY OthersIdle DEF AccountInv
<1>2. \A d \in Callers : call[d].pc # "reply"
  BY <1>1 DEF Idle
<1>3. QED
  BY <1>2 DEF AccountInv, FileAccounted

\* A scan saves what the client knows of and what it shows or counts as withheld,
\* unless its answer is over budget: then it saves nothing.
LEMMA ScanAccounted ==
  ASSUME AccountInv, NEW c \in Callers, ScanRun(c)
  PROVE  \E r : Become(c, r) /\ Accounted(r, answered)
<1>1. /\ code \in SUBSET FP
      /\ call[c] \in Calls /\ call[c].mem \in Baselines
      /\ call[c].op = "scan-all" /\ Tracked(call[c].mem) \subseteq answered
  BY DEF AccountInv, Accounted, StoreInv, TypeOK, Calls, ScanRun
<1>2. PICK fits \in BOOLEAN, looked \in SUBSET FP, seen \in SUBSET FP, replaced \in SUBSET FP,
          wh \in SUBSET (FP \ Affirming) :
        /\ replaced \in Replacements(call[c].mem, seen, looked)
        /\ Become(c, Diffed(call[c], seen, looked, replaced, wh, fits))
  BY <1>1, ScanIsDiff
<1> DEFINE r == Diffed(call[c], seen, looked, replaced, wh, fits)
           shown == DiffShown(call[c].mem, seen, looked)
<1>3. /\ r.mem = DiffNext(call[c].mem, seen, looked, replaced)
      /\ r.pc \in {"create", "reply"} /\ r.op = "scan-all" /\ (r.pc = "create" => fits)
      /\ r.answer.shown = shown \ wh /\ r.answer.withheld = wh
      /\ r.answer.silent = seen \ shown /\ r.answer.fits = fits
  BY <1>1, DiffedCarries
<1>4. seen \ shown \subseteq Tracked(call[c].mem)
  BY DEF DiffShown, NewIn
<1>5. Tracked(r.mem) \subseteq Tracked(call[c].mem) \cup shown
  <2> SUFFICES ASSUME NEW f \in Tracked(r.mem) PROVE f \in Tracked(call[c].mem) \cup seen
    BY <1>4
  <2>1. f \in Tracked(DiffNext(call[c].mem, seen, looked, replaced))
    BY <1>3
  <2>2. QED
    BY <1>1, <1>2, <2>1, DiffDrops
<1> HIDE DEF r, shown
<1>6. r.pc = "create" => Tracked(r.mem) \subseteq answered \cup Owed(r)
  BY <1>1, <1>3, <1>5 DEF Owed
<1>7. Accounted(r, answered)
  BY <1>1, <1>3, <1>4, <1>6, SMTT(30) DEF Accounted
<1>8. QED
  BY <1>2, <1>7 DEF r

\* While nothing kills it, a call about to reply does nothing else.
LEMMA NoWorkInReply ==
  ASSUME ~CanFail, NEW c \in Callers, AWork(c)
  PROVE  call[c].pc # "reply"
<1>1. MayStart(c) => call[c].pc = "idle"
  BY DEF MayStart, Idle
<1>2. ~SaveFails(c) /\ ~Crash(c)
  BY Zenon DEF SaveFails, Crash
<1>3. QED
  BY <1>1, <1>2 DEF AWork, Work, ScanLoad, ScanRun, ScanFails, AcceptLoad, VerdictAnalyse,
     VerdictLoad, PruneAnalyse, PruneLoad, RegisterLoad, UnregisterLoad, SaveCreate, SaveWrite,
     SaveRename

\* Each step before the rename leaves the call accounted for: an accept and a verdict
\* track only what the file held or the request names.
LEMMA WorkAccounted ==
  ASSUME Serial, ~CanFail, AccountInv, NEW c \in Callers, AWork(c), ~SaveRename(c)
  PROVE  \E r : Become(c, r) /\ Accounted(r, answered')
<1>1. /\ disk \in Baselines /\ Single(disk) /\ call \in [Callers -> Calls] /\ call[c] \in Calls
      /\ Accounted(call[c], answered) /\ Work(c)
  BY DEF AccountInv, StoreInv, TypeOK, OneEntryEach, AWork
<1>2. answered \subseteq answered' /\ approved' \subseteq answered' /\ judged' \subseteq answered'
  BY AccountGrows DEF answered
<1>3. call[c].pc # "reply"
  BY NoWorkInReply
<1>4. Tracked(disk) \subseteq answered
  BY <1>1, <1>3, StepOfCall, FileAnswered
\* A call that is no scan is accounted for when what it saves is.
<1>5. ASSUME NEW r, r.op # "scan-all", r.pc = "create", Tracked(r.mem) \subseteq answered'
      PROVE  Accounted(r, answered')
  BY <1>5 DEF Accounted
<1>6. CASE ScanLoad(c)
  <2> DEFINE r == [Idle EXCEPT !.pc = "scan", !.op = "scan-all", !.mem = disk]
  <2>1. r.pc = "scan" /\ r.op = "scan-all" /\ r.mem = disk
    BY DEF Idle
  <2>2. Accounted(r, answered')
    BY <1>2, <1>4, <2>1 DEF Accounted
  <2>3. QED
    BY <1>6, <2>2 DEF ScanLoad
<1>7. CASE ScanRun(c)
  <2>1. PICK r : Become(c, r) /\ Accounted(r, answered)
    BY <1>7, ScanAccounted
  <2>2. Accounted(r, answered')
    BY <1>2, <2>1, AccountedByMore
  <2>3. QED
    BY <2>1, <2>2
<1>8. CASE ScanFails(c)
  BY <1>8, IdleAccounted DEF ScanFails
<1>9. CASE AcceptLoad(c)
  <2>1. PICK fps \in SUBSET Tracked(disk) :
          Become(c, [Idle EXCEPT !.pc = "create", !.op = "accept", !.fps = fps,
                                 !.mem = Accept(disk, fps)])
    BY <1>9 DEF AcceptLoad
  <2> DEFINE r == [Idle EXCEPT !.pc = "create", !.op = "accept", !.fps = fps,
                               !.mem = Accept(disk, fps)]
  <2>2. r.pc = "create" /\ r.op = "accept" /\ r.mem = Accept(disk, fps)
    BY DEF Idle
  <2>3. Tracked(Accept(disk, fps)) = Tracked(disk)
    BY <1>1, AcceptFacts
  <2>4. QED
    BY <1>2, <1>4, <1>5, <2>1, <2>2, <2>3
<1>10. CASE VerdictAnalyse(c)
  <2>1. PICK v, fps :
          Become(c, [Idle EXCEPT !.pc = "record", !.op = "record-verdict",
                                 !.seen = fps, !.fps = fps, !.verdict = {v}])
    BY <1>10 DEF VerdictAnalyse
  <2> DEFINE r == [Idle EXCEPT !.pc = "record", !.op = "record-verdict",
                               !.seen = fps, !.fps = fps, !.verdict = {v}]
  <2>2. r.pc = "record" /\ r.op = "record-verdict" /\ r.fps = fps
    BY DEF Idle
  <2>3. call'[c] = r
    BY <1>1, <2>1 DEF Become
  <2> HIDE DEF r
  <2>4. fps \subseteq answered'
    BY <1>2, <2>2, <2>3 DEF AWork, Asked
  <2>5. Accounted(r, answered')
    BY <2>2, <2>4 DEF Accounted
  <2>6. QED
    BY <2>1, <2>5 DEF r
<1>11. CASE VerdictLoad(c)
  <2>1. PICK v \in call[c].verdict :
          Become(c, [call[c] EXCEPT !.pc = "create", !.mem = RecordVerdict(disk, call[c].fps, v)])
    BY <1>11 DEF VerdictLoad
  <2> DEFINE r == [call[c] EXCEPT !.pc = "create", !.mem = RecordVerdict(disk, call[c].fps, v)]
  <2>2. v \in Verdict /\ call[c].fps \in SUBSET FP
    BY <1>1 DEF Calls
  <2>3. Tracked(RecordVerdict(disk, call[c].fps, v)) = Tracked(disk) \cup call[c].fps
    BY <1>1, <2>2, RecordFacts
  <2>4. r.pc = "create" /\ r.mem = RecordVerdict(disk, call[c].fps, v) /\ r.op = call[c].op
    BY <1>1 DEF Calls
  <2>5. call[c].op # "scan-all" /\ call[c].fps \subseteq answered
    BY <1>1, <1>11 DEF VerdictLoad, Accounted
  <2>6. QED
    BY <1>2, <1>4, <1>5, <2>1, <2>3, <2>4, <2>5
<1>12. CASE PruneAnalyse(c)
  <2>1. PICK wanted, lang :
          Become(c, [Idle EXCEPT !.pc = "prune", !.op = "prune", !.fps = wanted,
                                 !.seen = SecuritySeen(lang, File)])
    BY <1>12 DEF PruneAnalyse
  <2> DEFINE r == [Idle EXCEPT !.pc = "prune", !.op = "prune", !.fps = wanted,
                               !.seen = SecuritySeen(lang, File)]
  <2>2. r.pc = "prune" /\ r.op = "prune"
    BY DEF Idle
  <2>3. Accounted(r, answered')
    BY <2>2 DEF Accounted
  <2>4. QED
    BY <2>1, <2>3
<1>13. CASE PruneLoad(c)
  <2> DEFINE targets == PruneTargets(disk, call[c].seen, call[c].fps)
             r == [call[c] EXCEPT !.pc = "create", !.fps = targets, !.mem = Prune(disk, targets)]
  <2>1. Become(c, r)
    BY <1>13 DEF PruneLoad
  <2>2. targets \in SUBSET FP
    BY DEF PruneTargets, Tracked
  <2>3. Tracked(Prune(disk, targets)) = Tracked(disk) \ targets
    BY <1>1, <2>2, PruneFacts
  <2>4. r.pc = "create" /\ r.mem = Prune(disk, targets) /\ r.op = call[c].op
    BY <1>1 DEF Calls
  <2>5. call[c].op # "scan-all"
    BY <1>1, <1>13 DEF PruneLoad, Accounted
  <2>6. QED
    BY <1>2, <1>4, <1>5, <2>1, <2>3, <2>4, <2>5
<1>14. ASSUME NEW op \in {"register", "unregister"}, NEW b, b.items = disk.items,
              Become(c, [Idle EXCEPT !.pc = "create", !.op = op, !.mem = b])
       PROVE  \E r : Become(c, r) /\ Accounted(r, answered')
  <2> DEFINE r == [Idle EXCEPT !.pc = "create", !.op = op, !.mem = b]
  <2>1. r.pc = "create" /\ r.op = op /\ r.mem = b
    BY DEF Idle
  <2>2. Tracked(b) = Tracked(disk)
    BY <1>14 DEF Tracked
  <2>3. QED
    BY <1>2, <1>4, <1>5, <1>14, <2>1, <2>2
<1>15. CASE RegisterLoad(c) \/ UnregisterLoad(c)
  <2>1. \A h : /\ RegisterAuthzHelper(disk, h).items = disk.items
               /\ UnregisterAuthzHelper(disk, h).items = disk.items
    BY <1>1 DEF RegisterAuthzHelper, UnregisterAuthzHelper, Baselines
  <2>2. QED
    BY <1>14, <1>15, <2>1 DEF RegisterLoad, UnregisterLoad
<1>16. ASSUME NEW pc \in {"write", "rename"}, call[c].pc \in {"create", "write"},
              Become(c, [call[c] EXCEPT !.pc = pc])
       PROVE  \E r : Become(c, r) /\ Accounted(r, answered')
  <2> DEFINE r == [call[c] EXCEPT !.pc = pc]
  <2>1. r.pc = pc /\ r.mem = call[c].mem /\ r.op = call[c].op /\ r.answer = call[c].answer
    BY <1>1 DEF Calls
  <2> HIDE DEF r
  <2>2. Accounted(r, answered)
    BY <1>1, <1>16, <2>1 DEF Accounted, Owed
  <2>3. QED
    BY <1>2, <1>16, <2>2, AccountedByMore DEF r
<1>17. CASE SaveCreate(c) \/ SaveWrite(c)
  BY <1>16, <1>17 DEF SaveCreate, SaveWrite
<1>18. QED
  BY <1>1, <1>6, <1>7, <1>8, <1>9, <1>10, <1>11, <1>12, <1>13, <1>15, <1>17
     DEF Work, SaveFails, Crash

LEMMA AccountInit == AInit => AccountInv
<1> SUFFICES ASSUME AInit PROVE AccountInv
  OBVIOUS
<1>1. StoreInv
  BY InitInv DEF AInit
<1>2. OneInFlight /\ \A c \in Callers : Accounted(call[c], answered)
  BY IdleAccounted DEF AInit, Init, OneInFlight
<1>3. FileAccounted
  BY SMTT(30) DEF AInit, Init, FileAccounted, Tracked, NoFile
<1>4. QED
  BY <1>1, <1>2, <1>3 DEF AccountInv

\* The step of a call that leaves it accounted for, and the file with it.
LEMMA AccountedStep ==
  ASSUME Serial, AccountInv, StoreInv', NEW c \in Callers, AWork(c) \/ AReply(c),
         NEW r, Become(c, r), Accounted(r, answered'),
         Tracked(disk') \subseteq answered' \/ (r.pc = "reply" /\ Tracked(disk') \subseteq answered' \cup Owed(r))
  PROVE  AccountInv'
<1>1. call'[c] = r /\ \A d \in Callers \ {c} : call'[d] = Idle
  BY AloneStep DEF Become, AccountInv, StoreInv, TypeOK, AWork, AReply
<1>2. OneInFlight'
  BY AloneStep DEF AccountInv, StoreInv, AWork, AReply
<1>3. FileAccounted'
  BY <1>1 DEF FileAccounted, Owed, Tracked
<1>4. \A d \in Callers : Accounted(call'[d], answered')
  BY <1>1, IdleAccounted
<1>5. QED
  BY <1>2, <1>3, <1>4 DEF AccountInv, Accounted, Owed, Tracked

LEMMA AccountStep ==
  ASSUME Serial, ~CanFail
  PROVE  AccountInv /\ [ANext]_avars => AccountInv'
<1> SUFFICES ASSUME AccountInv, [ANext]_avars PROVE AccountInv'
  OBVIOUS
<1>1. StoreInv'
  BY AnswersStepIsStep, StepInv DEF AccountInv
<1>2. CASE AEdit
  <2>1. UNCHANGED <<disk, call, told, withheld, approved, judged>>
    BY <1>2 DEF AEdit, Edit
  <2>2. QED
    BY <1>1, <2>1 DEF AccountInv, OneInFlight, FileAccounted, Accounted, Owed, answered, Tracked
<1>3. ASSUME NEW c \in Callers, AWork(c), SaveRename(c) PROVE AccountInv'
  <2> DEFINE r == [call[c] EXCEPT !.pc = "reply"]
  <2>1. call[c] \in Calls /\ disk' = call[c].mem /\ Accounted(call[c], answered) /\ Become(c, r)
    BY <1>3 DEF SaveRename, AccountInv, StoreInv, TypeOK, TempWhole
  <2>2. answered \subseteq answered'
    BY <1>3, AccountGrows
  <2>3. r.pc = "reply" /\ r.op = call[c].op /\ r.mem = call[c].mem /\ r.answer = call[c].answer
    BY <2>1 DEF Calls
  <2> HIDE DEF r
  <2>4. Accounted(r, answered') /\ Tracked(disk') \subseteq answered' \cup Owed(r)
    BY <1>3, <2>1, <2>2, <2>3 DEF SaveRename, Accounted, Owed
  <2>5. QED
    BY <1>1, <1>3, <2>1, <2>3, <2>4, AccountedStep
<1>4. ASSUME NEW c \in Callers, AWork(c), ~SaveRename(c) PROVE AccountInv'
  <2>1. PICK r : Become(c, r) /\ Accounted(r, answered')
    BY <1>4, WorkAccounted
  <2>2. call[c].pc # "reply"
    BY <1>4, NoWorkInReply
  <2>3. Tracked(disk) \subseteq answered /\ disk' = disk
    BY <1>4, <2>2, StepOfCall, FileAnswered DEF AWork
  <2>4. answered \subseteq answered'
    BY <1>4, AccountGrows
  <2>5. QED
    BY <1>1, <1>4, <2>1, <2>3, <2>4, AccountedStep
<1>5. ASSUME NEW c \in Callers, AReply(c) PROVE AccountInv'
  <2>1. call[c].pc = "reply" /\ Become(c, Idle) /\ disk' = disk
    BY <1>5 DEF AReply, Reply
  <2>2. \A d \in Callers \ {c} : call[d] = Idle
    BY <1>5, AloneStep DEF AReply, AccountInv, StoreInv
  <2>3. Owed(call[c]) \subseteq answered' /\ answered \subseteq answered'
    BY <1>5, AccountGrows DEF AReply, Owed, answered
  <2>4. \A d \in Callers \ {c} : call[d].pc # "reply"
    BY <2>2 DEF Idle
  <2>5. Tracked(disk) \subseteq answered \cup Owed(call[c])
    BY <2>4 DEF AccountInv, FileAccounted
  <2>6. QED
    BY <1>1, <1>5, <2>1, <2>3, <2>5, IdleAccounted, AccountedStep
<1>6. CASE UNCHANGED avars
  BY <1>1, <1>6 DEF avars, vars, AccountInv, OneInFlight, FileAccounted, Accounted, Owed, answered,
     Tracked
<1>7. QED
  BY <1>2, <1>3, <1>4, <1>5, <1>6 DEF ANext

\* With one call at a time and no write failure or kill, a scan is silent only on what
\* an answer the client read has shown or counted as withheld, or a request has named:
\* the write gate and the order save, then reply, hide nothing else.
THEOREM SilenceIsAnswered ==
  ASSUME Serial, ~CanFail
  PROVE  ASpec => []SilencedOnlyIfAnswered
<1>1. AInit => AccountInv
  BY AccountInit
<1>2. AccountInv /\ [ANext]_avars => AccountInv'
  BY AccountStep
<1>3. AccountInv => SilencedOnlyIfAnswered
  BY DEF AccountInv, Accounted, SilencedOnlyIfAnswered, Answering, answered
<1>4. QED
  BY <1>1, <1>2, <1>3, PTL DEF ASpec
=============================================================================
