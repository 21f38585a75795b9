SPECIFICATION Spec
CONSTANTS
  Tasks = {t0}
  Handlers = {h0, h1}
  MaxTokens = 2
SYMMETRY Symmetry
INVARIANTS TypeOK ApprovalIsComplete PlanBeforeApproval
CHECK_DEADLOCK FALSE
