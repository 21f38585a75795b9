SPECIFICATION LiveRunSpec
CHECK_DEADLOCK FALSE
CONSTANTS
  Commands = {c0, c1}
  MinAttempts = 3
  MaxPassed = 3
  MaxCrashes = 0
PROPERTY RecoveredReturns
