SPECIFICATION Spec
CONSTANTS
  weather = weather
  e1 = e1
  e2 = e2
  night = night
  tool = tool
  fetch = fetch
  better = better
  Names = {weather}
  Events = {e1, e2}
  Scans = {night}
  Uses = {tool}
  Orders = {fetch}
  Rewrites = {better}
  Cap = 1
  MaxCode = 2
  MaxRestarts = 1
  NoEvent = NoEvent
  NoName = NoName
INVARIANTS
  OnlyTestedIsInstalled
CHECK_DEADLOCK FALSE
