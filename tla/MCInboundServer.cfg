SPECIFICATION FairSpec
INVARIANTS
  AcceptedSurvivesStop
  GraceProtects
  AnsweredOnce
PROPERTIES
  StopEnds
CONSTANTS
  Requests = {r1, r2}
  Signed = {r1}
  Workers = {w1}
  QueueSize = 1
  MaxActions = 2
  MaxUpdates = 1
  Exited = Exited
  None = None
CHECK_DEADLOCK FALSE
