SPECIFICATION Spec
INVARIANTS
  AckMeansFired
CONSTANTS
  plain = plain
  lead = lead
  trail = trail
  None = None
  Msgs = {m1}
  Workers = {w1}
  Rules = {lead}
  Leading = {lead}
  Trailing = {}
  FetchBatch = 1
  AckWait = 3
  MaxDeliver = 2
  MaxStarts = 1
CHECK_DEADLOCK FALSE
