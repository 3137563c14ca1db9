SPECIFICATION Spec
INVARIANTS
  IndInv
  KeyOwned
  FireBound
  OwnDeliverySees
CONSTANTS
  j1 = j1
  j2 = j2
  c1 = c1
  h1 = h1
  s1 = s1
  msg = msg
  req = req
  tick = tick
  None = None
  Rules = {j1, j2, c1, h1, s1}
  KVRules = {j1, c1, s1}
  Inputs = {msg, req, tick}
  Malformed = {}
  Workers = {w1, w2}
  Def <- MCDef
  In <- MCIn
  FileRules <- MCFileRules
  MaxReplaces = 2
SYMMETRY Symmetry
CHECK_DEADLOCK FALSE
