SPECIFICATION Spec
CONSTANTS
  Workers = {w1}
  NoWorker = NoWorker
  NSteps = 2
  NeedsApproval = {}
  LevelOf <- Plain
  Modes <- AnyMode
  MaxTries = 1
  BudgetCanStop = TRUE
  ResumeOffered = FALSE
  MaxPauses = 1
  MaxRestarts = 0
SYMMETRY SymWorkers
INVARIANTS
  PreviousStepFirst
CHECK_DEADLOCK FALSE
