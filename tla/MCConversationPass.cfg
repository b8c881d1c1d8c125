SPECIFICATION Spec
CONSTANTS
  t1 = t1
  t2 = t2
  Turns = {t1, t2}
  Sessions = {s1}
  Setups <- Mixed
  Events = {e1}
  NoTurn = NoTurn
  Names = {a}
  MaxRetries = 2
  MaxRounds = 1
  MaxSignatures = 1
  MaxCalls = 2
INVARIANTS
  OneAttemptSpeaks
  HistoryHoldsEveryAnswer
  WorkIsDoneOnce
PROPERTIES
  ToolsRunOnce
  WorkIsReported
CHECK_DEADLOCK FALSE
