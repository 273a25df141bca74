CONSTANTS
  Item = {a}
  Pd = {p1, p2}
  NoItem = NoItem
  NoPd = NoPd
  Grace = 1
  PinDays = 1
  MaxPerTick = 1
  MaxPerDay = 1
  Actors = {"viewer", "cancel", "pressure"}
  Punctual = FALSE
SPECIFICATION FairSpec
PROPERTIES
  AnnouncementsClose
