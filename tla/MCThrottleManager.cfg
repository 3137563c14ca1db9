SPECIFICATION ThrottleSpec
INVARIANTS
  SweepInvisible
PROPERTIES
  Spaced
CONSTANTS
  short = short
  long = long
  NoEntry = NoEntry
  Keys <- MCKeys
  Window <- MCWindow
  SweepInterval = 3
  MaxTime = 12
