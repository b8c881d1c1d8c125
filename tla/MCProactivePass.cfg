SPECIFICATION Spec
CONSTANTS
  rain = rain
  storm = storm
  news = news
  note = note
  w1 = w1
  w2 = w2
  loop = loop
  route = route
  Monthly = 3
  Alert = 2
  PerProject = 2
  Estimate = 1
  Costs = {1, 3}
  Workers = {w1, w2}
  MaxCalls = 1
  MaxSpent = 7
  MaxMonths = 1
  Ids = {rain, storm, news, note}
  TitleOf <- Title
  Alike <- SameTitle
  ModeOf <- Mode
  Urgent = {storm}
  Runners = {loop, route}
  Full = 1
  MaxInitiatives = 2
CONSTRAINT OneAtATime
INVARIANTS
  MemoryMatchesLedger
  CeilingIsHeard
  OverrunIsBounded
CHECK_DEADLOCK FALSE
