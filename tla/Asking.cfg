SPECIFICATION AskingSpec
CONSTANTS
  Files = {f0, f1}
  Texts = {x0, x1}
  MaxEdits = 2
  Callers = {c0, c1}
  Tasks = {t0, t1, t2}
  MaxPerTask = 1
  MaxPerHour = 2
  Keep = 3
  Hour = 2
  MaxTime = 2
  MayCrash = TRUE
SYMMETRY Symmetry
CONSTRAINT SecondEditBeforeAsking
INVARIANTS IndexIsSound CallsAreLimited
PROPERTIES ServedAnswerIsCurrent RefusalsAreEarned
CHECK_DEADLOCK FALSE
