CONSTANTS
  Job = {1, 2}
  Source = {f1, f2}
  MaxWorkers = 2
  NoSource = NoSource
  Nobody = Nobody
  Faults = {"lost", "locked", "encoderRestart", "crash", "delete"}
  MaxWebhooks = 2
  MaxCrashes = 1
SPECIFICATION Spec
SYMMETRY Symmetry
INVARIANTS
  TypeOK
  DonePlays
PROPERTIES
  PromotedMeansPlayable
