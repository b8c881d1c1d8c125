SPECIFICATION Spec
CONSTANTS
  d1 = d1
  a1 = a1
  n1 = n1
  Ids = {d1}
  Reqs = {r1, r2}
  Texts = {t1}
  NoId = NoId
  NoText = NoText
  TypeOf <- SmallTypes
  Window = 3
  ExpireAfter = 1
  ScanWindow = 4
  MaxSkipped = 0
  MaxRestarts = 0
  SerialConfirms = FALSE
SYMMETRY SymReqs
INVARIANTS
  EffectAtMostOnce
