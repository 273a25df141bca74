CONSTANTS
  Tracked <- TrackedKeys
  Visited <- VisitedPages
  MaxVersion = 2
  MaxTrouble = 2
  MaxInbox = 1
SPECIFICATION QFairSpec
INVARIANTS
  QTypeOK
  RefreshIsAnswered
  NoFalseEmpty
PROPERTIES
  ReadsThrough
  PolledCatchesUp
  RefreshEnds
