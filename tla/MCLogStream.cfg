CONSTANTS
  Container <- TwoContainers
  Capacity = 2
  QueueSize = 1
  MaxLine = 2
  MaxFaults = 2
  MaxMoves = 2
SPECIFICATION LFairSpec
INVARIANTS
  LTypeOK
  ExpandedIsTheSame
  SelectionKept
PROPERTIES
  NothingSkipped
  LinesArrive
CHECK_DEADLOCK FALSE
