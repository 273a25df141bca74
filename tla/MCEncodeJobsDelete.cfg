CONSTANTS
  Job = {1, 2}
  Source = {f1, f2}
  MaxWorkers = 2
  NoSource = NoSource
  Nobody = Nobody
  Faults = {"lost", "locked", "delete", "encoderRestart"}
  MaxWebhooks = 2
  MaxCrashes = 0
SPECIFICATION Spec
SYMMETRY Symmetry
INVARIANTS
  EncodingHasRow
PROPERTIES
  LedgerSpec
