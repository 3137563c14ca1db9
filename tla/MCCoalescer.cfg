SPECIFICATION ObservedSpec
INVARIANTS
  IndInv
PROPERTIES
  AllEnds
  Implements
  WindowKept
CONSTANTS
  k1 = k1
  k2 = k2
  b1 = b1
  b2 = b2
  b3 = b3
  b4 = b4
  None = None
  Keys <- MCKeys
  Batches <- MCBatches
  Key <- MCKey
  Window <- MCWindow
  Actions <- MCActions
  FlushConcurrency = 1
  Longest = 2
CHECK_DEADLOCK FALSE
