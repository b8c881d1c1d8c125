SPECIFICATION AwaitsSpec
CONSTANTS
  Workers = {w1, w2}
  NoWorker = NoWorker
  NSteps = 2
  NeedsApproval = {}
  LevelOf <- FirstOnNetwork
  Modes <- FreeOrForbidden
  MaxTries = 2
  BudgetCanStop = TRUE
  ResumeOffered = TRUE
  MaxPauses = 1
  MaxRestarts = 1
INVARIANTS
  OneWorkerPerStep
  ExecutedOnce
  EveryRunHasConsent
  DoneWasVerified
  NothingPassedSilently
PROPERTIES
  EveryWorkerEnds
  KilledClaimsNothing
CHECK_DEADLOCK FALSE
