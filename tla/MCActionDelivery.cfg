SPECIFICATION Spec
INVARIANTS
  ReportsHonest
  DropsOnlyRacers
PROPERTIES
  RetriesBounded
  RunEnds
CONSTANTS
  Plans <- MCPlans
  MaxRuns = 2
  MaxRetries = 3
  MaxAttempts = 2
CHECK_DEADLOCK FALSE
