CONSTANTS
  MaxWrites = 1
  MaxPuts = 2
  MaxFaults = 1
SPECIFICATION FFairSpec
INVARIANTS
  RetentionReadsBack
  OnlyValidSaved
PROPERTIES
  EditsSurvive
  SaveEnds
  RetentionCatchesUp
