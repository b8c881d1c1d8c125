SPECIFICATION CalendarSpec
CONSTANTS
  d1 = d1
  a1 = a1
  n1 = n1
  Ids = {d1}
  Reqs = {r1, r2, r3}
  Texts = {t1, t2}
  NoId = NoId
  NoText = NoText
  TypeOf <- SmallTypes
  Window = 3
  ExpireAfter = 1
  ScanWindow = 4
  MaxSkipped = 1
  MaxRestarts = 0
  SerialConfirms = TRUE
INVARIANTS
  MailedWasReviewed
PROPERTIES
  KeepsPromise
  PendingIsSettled
