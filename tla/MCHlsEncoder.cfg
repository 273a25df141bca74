CONSTANTS
  Job = {1, 2, 3}
  Source = {f1, f2}
  MaxWorkers = 2
  NoSource = NoSource
  Nobody = Nobody
SPECIFICATION MCSpec
INVARIANTS
  EncTypeOK
  WorkerCap
  DoneIsPublished
PROPERTIES
  CancelIsFinal
  EveryJobSettles
