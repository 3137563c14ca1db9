SPECIFICATION FairSpec
INVARIANTS
  OnlyTheMapServes
PROPERTIES
  LostIteratorDrains
  StopEnds
CONSTANTS
  Subjects = {s1, s2}
  Workers = {w1}
  MaxStarts = 3
CHECK_DEADLOCK FALSE
