CONSTANTS
  Publishers = {p1, p2}
  Subs = {s1, s2}
  Sources = {src1}
  StoreSize = 2
  MaxTime = 1
  MaxEvents = 4
  ClockMayStepBack = TRUE
SPECIFICATION Spec
INVARIANTS StoreBounded LaterEventsSurvive ReplayMatchesReference
