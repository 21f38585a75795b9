SPECIFICATION Spec
CONSTANTS
  f0 = f0
  f1 = f1
  Files = {f0}
  Commands = {c0}
  NoFile = NoFile
  NoEntry = NoEntry
  Templates <- OneFileTwice
  Absent = {}
  Strikes = 2
  MaxTargets = 1
  MaxRuns = 1
  MaxEdits = 0
INVARIANT RollbackIsComplete
CHECK_DEADLOCK FALSE
