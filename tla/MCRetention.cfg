CONSTANTS
  Item = {a}
  Pd = {p1, p2}
  NoItem = NoItem
  NoPd = NoPd
  Grace = 1
  PinDays = 2
  MaxPerTick = 1
  MaxPerDay = 1
  Actors = {"viewer", "cancel", "hasten", "pin", "settings", "pressure", "exception", "arr", "lost"}
  Punctual = FALSE
SPECIFICATION Spec
SYMMETRY Symmetry
INVARIANTS
  TypeOK
  OneOpen
  SoftCap
PROPERTIES
  GraceHeld
  TwoTicks
  SeenPinHolds
