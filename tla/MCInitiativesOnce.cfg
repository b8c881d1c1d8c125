SPECIFICATION Spec
CONSTANTS
  d1 = d1
  a1 = a1
  n1 = n1
  Ids = {d1, a1}
  Reqs = {r1, r2}
  Texts = {t1}
  NoId = NoId
  NoText = NoText
  TypeOf <- SmallTypes
  Window = 3
  ExpireAfter = 1
  ScanWindow = 4
  MaxSkipped = 1
  MaxRestarts = 1
  SerialConfirms = FALSE
SYMMETRY SymReqs
INVARIANTS
  ActsOncePerDecision
  RefusedIsInert
  InProgressIsAccounted
