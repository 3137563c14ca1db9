SPECIFICATION FairSpec
INVARIANTS
  AtRestServed
  StopIsFinal
  BucketInEffect
PROPERTIES
  StartEnds
CONSTANTS
  ka = ka
  kb = kb
  s1 = s1
  c1 = c1
  t1 = t1
  Keys = {ka, kb}
  JsSubjects = {s1}
  CoreSubjects = {c1}
  Schedules = {t1}
  Versions <- MCVersions
  Outcomes = {"ok", "noConsumer", "noIterator"}
  MaxChanges = 2
CHECK_DEADLOCK FALSE
