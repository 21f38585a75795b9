SPECIFICATION Spec
CONSTANTS
  Procs = {p0, p1}
  Files = {f0, f1}
  PyFiles = {f0}
  Contents = {c0, c1}
  MaxTasks = 2
INVARIANTS WorkspaceIsSound
PROPERTIES CondemnedStaysOut PreImageIsKept
SYMMETRY Symmetry
CHECK_DEADLOCK FALSE
