------------------------------ MODULE Baseline ------------------------------
(***************************************************************************)
(* The values of core/baseline: what the committed .codefit-baseline file  *)
(* holds, and the pure functions of the package on it.                     *)
(*                                                                         *)
(* A fingerprint hashes the category, the file and the content of an item  *)
(* (findings.Fingerprint), so the category and the file are functions of   *)
(* it.  The item list is kept per fingerprint, as the sequence of the      *)
(* entries that carry that fingerprint in list order: more than one is a   *)
(* duplicate, which the code can represent and must never create.  The     *)
(* order of different fingerprints in the list decides only which gone     *)
(* item a new one is paired with; here any pairing may be chosen.          *)
(***************************************************************************)
EXTENDS Integers, Sequences, FiniteSets

CONSTANTS
  FP,          \* fingerprints
  File,        \* project files
  CategoryOf,  \* the category hashed in each fingerprint
  FileOf,      \* the file hashed in each fingerprint
  Affirming,   \* the fingerprints of deterministic findings; the rest are surface
  Verdict,     \* agent verdicts
  Helper       \* project authorization helpers

ASSUME FingerprintAssumption ==
  /\ IsFiniteSet(FP)
  /\ FileOf \in [FP -> File]
  /\ DOMAIN CategoryOf = FP
  /\ Affirming \subseteq FP

-----------------------------------------------------------------------------
(* An Item without its display fields.  Verdicts are the distinct verdicts  *)
(* of its history: no caller tells their order or number apart.               *)
Entry == [ack : BOOLEAN, verdicts : SUBSET Verdict]
Bare  == [ack |-> FALSE, verdicts |-> {}]

Baselines == [items : [FP -> Seq(Entry)], helpers : SUBSET Helper]

\* What Load returns when there is no file.
NoFile == [items |-> [f \in FP |-> <<>>], helpers |-> {}]

\* The same project knowledge over another item list.
WithItems(b, items) == [items |-> items, helpers |-> b.helpers]

Tracked(b)   == {f \in FP : b.items[f] # <<>>}
Latest(b, f) == b.items[f][Len(b.items[f])]   \* index(): the last duplicate wins
Acked(b)     == {f \in Tracked(b) : Latest(b, f).ack}

\* The pair of guards of Diff: the category's sensor ran and the file is in scope.
InScope(scanned, files) == {f \in FP : CategoryOf[f] \in scanned /\ FileOf[f] \in files}

-----------------------------------------------------------------------------
(* Diff: the scan observed the set obs, and looked at the set scope.        *)

SameLoc(f, g) == CategoryOf[f] = CategoryOf[g] /\ FileOf[f] = FileOf[g]
AtLoc(S, g)   == {f \in S : SameLoc(f, g)}

NewIn(prev, obs)         == obs \ Tracked(prev)
GoneIn(prev, obs, scope) == (Tracked(prev) \cap scope) \ obs

\* The sets of gone items that new ones can replace: at each (file, category)
\* a new item takes one gone item while any is left.
Replacements(prev, obs, scope) ==
  LET new  == NewIn(prev, obs)
      gone == GoneIn(prev, obs, scope)
  IN  {R \in SUBSET gone :
         \A g \in gone :
           \/ Cardinality(AtLoc(R, g)) = Cardinality(AtLoc(new, g))
           \/ /\ AtLoc(gone, g) \subseteq R
              /\ Cardinality(AtLoc(gone, g)) < Cardinality(AtLoc(new, g))}

\* Mutant: an item that observations confirm out of scope is carried and added again.
NextEntriesTwice(prev, obs, scope, replaced, f) ==
  CASE f \in NewIn(prev, obs)                  -> <<Bare>>
    [] f \in obs \cap Tracked(prev) \cap scope -> <<Latest(prev, f)>>
    [] f \in (obs \cap Tracked(prev)) \ scope  -> Append(prev.items[f], Latest(prev, f))
    [] f \in replaced                          -> <<>>
    [] OTHER                                   -> prev.items[f]

\* Mutant: a changed item takes over the entry of the one it replaces.
NextEntriesInherited(prev, obs, scope, replaced, f) ==
  CASE f \in NewIn(prev, obs) ->
         IF AtLoc(replaced, f) = {} THEN <<Bare>>
         ELSE <<Latest(prev, CHOOSE g \in AtLoc(replaced, f) : TRUE)>>
    [] f \in obs \cap Tracked(prev) \cap scope -> <<Latest(prev, f)>>
    [] f \in replaced                          -> <<>>
    [] OTHER                                   -> prev.items[f]

\* The entries of f in DiffResult.Next.
NextEntries(prev, obs, scope, replaced, f) ==
  CASE f \in NewIn(prev, obs)               -> <<Bare>>
    [] f \in obs \cap Tracked(prev) \cap scope -> <<Latest(prev, f)>>
    [] f \in replaced                       -> <<>>
    [] OTHER                                -> prev.items[f]

DiffNext(prev, obs, scope, replaced) ==
  WithItems(prev, [f \in FP |-> NextEntries(prev, obs, scope, replaced, f)])

\* DiffResult.Shown: what the response must name.
DiffShown(prev, obs, scope) ==
  NewIn(prev, obs) \cup ((obs \cap scope \cap Affirming) \ Acked(prev))

\* DiffResult.Gone: the prune candidates it names.
DiffGone(prev, obs, scope, replaced) == GoneIn(prev, obs, scope) \ replaced

-----------------------------------------------------------------------------
\* Mutant: accepting rebuilds the item.
AcknowledgeFresh(e) == [Bare EXCEPT !.ack = TRUE]

Acknowledge(e) == [e EXCEPT !.ack = TRUE]
\* Mutant: a verdict reopens the item.
AddVerdictReopens(e, v) == [ack |-> FALSE, verdicts |-> e.verdicts \cup {v}]

AddVerdict(e, v) == [e EXCEPT !.verdicts = @ \cup {v}]

\* The last entry with the fingerprint is the one acknowledged.
Accept(b, fps) ==
  WithItems(b, [f \in FP |->
    IF f \in fps THEN [b.items[f] EXCEPT ![Len(b.items[f])] = Acknowledge(Latest(b, f))]
    ELSE b.items[f]])

\* The first entry with the fingerprint takes the verdict, or a new item does.
RecordVerdict(b, fps, v) ==
  WithItems(b, [f \in FP |->
    IF f \notin fps THEN b.items[f]
    ELSE IF b.items[f] = <<>> THEN <<AddVerdict(Bare, v)>>
    ELSE [b.items[f] EXCEPT ![1] = AddVerdict(b.items[f][1], v)]])

Prune(b, fps) ==
  WithItems(b, [f \in FP |-> IF f \in fps THEN <<>> ELSE b.items[f]])

RegisterAuthzHelper(b, h)   == [b EXCEPT !.helpers = @ \cup {h}]
UnregisterAuthzHelper(b, h) == [b EXCEPT !.helpers = @ \ {h}]
=============================================================================
