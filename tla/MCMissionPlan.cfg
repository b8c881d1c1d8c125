SPECIFICATION Spec
CONSTANTS
  Workers = {w1, w2}
  NoWorker = NoWorker
  NSteps = 2
  NeedsApproval = {}
  LevelOf <- Plain
  Modes <- AnyMode
  MaxTries = 1
  BudgetCanStop = FALSE
  ResumeOffered = FALSE
  MaxPauses = 0
  MaxRestarts = 0
SYMMETRY SymWorkers
INVARIANTS
  RefusedPlanNeverRuns
CHECK_DEADLOCK FALSE
