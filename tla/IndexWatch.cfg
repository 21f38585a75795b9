SPECIFICATION Spec
CONSTANTS
  Files = {f0, f1}
  Builders = {d, m}
  Daemon = d
  NoPid = NoPid
  DeadPid = DeadPid
  Unreadable = Unreadable
  MaxEdits = 3
  MaxBuilds = 2
SYMMETRY Symmetry
CONSTRAINT Apart
INVARIANTS RecordsAreSound SearchIsCurrent QuietIndexIsCurrent
CHECK_DEADLOCK FALSE
