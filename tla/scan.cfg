SPECIFICATION Spec
CONSTANTS
  Concern <- MCConcern
  CategoryOf <- MCCategoryOf
  FileOf <- MCFileOf
  LineOf <- MCLineOf
  Reached = {"idor1", "authz1", "authz2", "loop3"}
  Left = {"idor3"}
  Guarded = {"authz2"}
  Limited = {"over2"}
  Budget = {10, 16, 22, 28, 34}
  EntrySize <- MCEntrySize
  FactSize = 6
  RestSize = 2
  NoteSize <- MCNoteSize
  Radix = 2
INVARIANTS FactsNamed WorstKeptLongest FewestWithheld
PROPERTIES WalkStandsStill Answered
CHECK_DEADLOCK FALSE
