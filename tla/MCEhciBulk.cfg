CONSTANTS
  SetupCommands <- MCSetupCommands
  Reads <- MCReads
  LunStalls = TRUE
  MaxLosses = 2
  Fates = {"done", "failed", "short", "stalled"}
  PoolSize = 11
SPECIFICATION FairSpec
INVARIANTS TypeOK RingIntact TogglesInSync
PROPERTIES NoLiveQtdRewritten ImplementsReader
