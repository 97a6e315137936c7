SPECIFICATION WalSpec
CONSTANTS
  DataSizes = {0, 2}
  MaxAppends = 3
  MaxTornWrites = 1
  MaxSyncFaults = 1
  MaxCrashes = 2
  MaxPowerLosses = 1
INVARIANTS
  ReplayIsTheLog
  FlushedIsDurable
