SPECIFICATION EscalationSpec
CONSTANTS
  Runs = {r0}
  NumWorkers = 2
  BlindDiffs = TRUE
  Commands = {c0, c1}
  MinAttempts = 3
  MaxPassed = 3
  MaxCrashes = 2
INVARIANTS WorkersAreAccounted ReturnedRunIsSettled DoneIsClean
PROPERTIES ExitIsHandled FailingIsEscalated
CHECK_DEADLOCK FALSE
