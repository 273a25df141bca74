CONSTANTS
  Episodes <- TwoEpisodes
  SeasonOf <- Seasons1
  MaxFile = 2
  MaxRequests = 2
  MaxMoves = 5
  MaxFaults = 1
SPECIFICATION DFairSpec
CHECK_DEADLOCK FALSE
INVARIANTS
  OneRequestAtATime
PROPERTIES
  TitleGoneWasTyped
  OnlyChosenFilesGo
  DeleteEnds
