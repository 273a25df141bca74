CONSTANTS
  MaxWrites = 1
  MaxPuts = 2
  MaxFaults = 1
SPECIFICATION FSpec
INVARIANTS
  SettingsReadable
