SPECIFICATION Spec
CONSTANTS
  f = f
  g = g
  top = top
  x = x
  y = y
  Facts = {f, g}
  Topics = {top}
  Texts = {x, y, Blank}
  NoText = NoText
  Blank = Blank
  TextsOf <- Held
  DocumentOf <- OneDocument
  Night = Night
  Manual = Manual
  Boot = Boot
  Rebuild = Rebuild
  Doors = {p, q}
  Start <- Memories
  MaxChanges = 2
  MaxFactChanges = 1
  MaxRestarts = 1
  Micros = {m}
  Deep = Deep
  Sizes = {0, 1, 3}
  Built = 3
  MaxHand = 2
  Writers = {service, script}
  Keep = 2
  MaxMinute = 5
INVARIANTS
  SettledIsExact
  HandIsReadOrKept
  OneWholeRemains
PROPERTIES
  WithdrawnIsForgotten
  HalvedOnlyUnawares
\* The bounds end every part.
CHECK_DEADLOCK FALSE
