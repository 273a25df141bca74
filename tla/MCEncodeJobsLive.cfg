CONSTANTS
  Job = {1, 2}
  Source = {f1, f2}
  MaxWorkers = 1
  NoSource = NoSource
  Nobody = Nobody
  Faults = {"lost", "locked", "encoderRestart", "crash"}
  MaxWebhooks = 2
  MaxCrashes = 1
SPECIFICATION FairSpec
PROPERTIES
  QueueDrains
  RunningSettles
  EncodingEnds
