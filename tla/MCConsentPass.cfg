SPECIFICATION Spec
CONSTANTS
  print = print
  s1 = s1
  r1 = r1
  r2 = r2
  r3 = r3
  Plain = {print}
  Scripts = {s1}
  Requests = {r1, r2, r3}
  Of <- OfOne
  Quota = 2
  MaxChanges = 1
INVARIANTS
  RunsOnItsOwnYes
  BridgeIsMetered
PROPERTIES
  NothingAfterTheEnd
CHECK_DEADLOCK FALSE
