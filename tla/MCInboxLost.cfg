SPECIFICATION Spec
CONSTANTS
  job = job
  home = home
  odd = odd
  tea = tea
  coffee = coffee
  l1 = l1
  l2 = l2
  l3 = l3
  l4 = l4
  l5 = l5
  Triples = {job, odd}
  Vocabulary = {job}
  TopicOf <- OneTopic
  StableTopics <- Stable
  Values = {tea, coffee}
  Loop = loop
  Tasks = {loop, route}
  HandStatuses = {"active"}
  Known <- Start
  NoFact = NoFact
  NoValue = NoValue
  NoStatus = NoStatus
  NoWord = NoWord
  MaxFacts = 2
  MaxCandidates = 1
  Lines = {l1, l2, l3, l4, l5}
  LineOf <- Text
  MaxTyped = 3
  MaxMishaps = 0
INVARIANTS
  NoLineLost
CHECK_DEADLOCK FALSE
