SPECIFICATION FairSpec
INVARIANTS
  SettledHonestly
  CleanStopFlushes
PROPERTIES
  EveryMessageSettles
CONSTANTS
  plain = plain
  lead = lead
  trail = trail
  None = None
  Msgs = {m1}
  Workers = {w1, w2}
  Rules = {plain, lead, trail}
  Leading = {lead}
  Trailing = {trail}
  FetchBatch = 1
  AckWait = 1
  MaxDeliver = 2
  MaxStarts = 2
CHECK_DEADLOCK FALSE
