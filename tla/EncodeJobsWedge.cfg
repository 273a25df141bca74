CONSTANTS
  Job = {1, 2}
  Source = {f1, f2}
  MaxWorkers = 1
  NoSource = NoSource
  Nobody = Nobody
  Faults = {"delete"}
  MaxWebhooks = 2
  MaxCrashes = 0
SPECIFICATION FairSpec
CHECK_DEADLOCK FALSE
PROPERTIES
  QueueDrains
