SPECIFICATION Spec
INVARIANTS
  LookupsFresh
PROPERTIES
  Converges
  GoroutinesEnd
CONSTANTS
  Buckets = {b1}
  Keys = {k, x}
  Filtered = {k}
  Workers = {w1}
  MaxChanges = 2
  MaxFaults = 1
CHECK_DEADLOCK FALSE
