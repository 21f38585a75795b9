SPECIFICATION Spec
CONSTANTS
  Notes = {n0, n1}
  Node = Node
  Loops = {l0, l1}
  Nothing = Nothing
  MaxTexts = 2
  MaxRuns = 3
SYMMETRY Symmetry
INVARIANTS RecordsAreSound CompletedWasAnswered CompletedIsOnRecord
CHECK_DEADLOCK FALSE
