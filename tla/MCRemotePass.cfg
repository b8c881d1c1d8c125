SPECIFICATION Spec
CONSTANTS
  pc = pc
  mac = mac
  c1 = c1
  c2 = c2
  Machines = {pc, mac}
  Calls = {c1, c2}
  Target <- Wanted
  Announced <- Offers
  MaxLinks = 3
  NoLink = NoLink
  NoMachine = NoMachine
  NoCall = NoCall
  MaxRestarts = 1
INVARIANTS
  OkMeansDone
  ListedIsReachable
  NothingIsKeptForLater
CHECK_DEADLOCK FALSE
