SPECIFICATION Spec
CONSTANTS
  f1 = f1
  f2 = f2
  c1 = c1
  i1 = i1
  i2 = i2
  j1 = j1
  am = am
  pm = pm
  k1 = k1
  OldFile = OldFile
  Facs = {f1, f2}
  Courses = {c1}
  Slots = {am, pm}
  Imports = {i1, i2}
  Jobs = {j1}
  Calls = {k1}
  HalfDays <- HalfDaysOf
  Links <- LinksOf
  Legacy <- LegacyRows
  MaxFlips = 1
CHECK_DEADLOCK FALSE
INVARIANTS HistoryStaysOnTheBoard LastImportStands
PROPERTIES CommitReplacesOnlyWhatWasValidated
