SPECIFICATION Spec
CONSTANTS
  f0 = f0
  f1 = f1
  Files = {f0, f1}
  Commands = {c0, c1}
  NoFile = NoFile
  NoEntry = NoEntry
  Templates <- SmallTemplates
  Absent = {f0}
  Strikes = 2
  MaxTargets = 3
  MaxRuns = 4
  MaxEdits = 1
SYMMETRY Symmetry
CONSTRAINT Small
INVARIANTS FailuresLeaveNothing BackupsAreRemoved FailingIsGivenUp
CHECK_DEADLOCK FALSE
