SPECIFICATION FairReloadSpec
INVARIANTS
  ReloadSafe
PROPERTIES
  ShutdownUnlessDiscarded
CONSTANTS
  MaxSignals = 4
  MaxEdits = 2
CHECK_DEADLOCK FALSE
