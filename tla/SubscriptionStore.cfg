CONSTANTS
  c1 = c1 c2 = c2 c3 = c3 c4 = c4
  i0 = i0 i1 = i1 i2 = i2
  s1 = s1 s2 = s2
  Contexts = {c1, c2, c3, c4}
  Ids = {i0, i1, i2}
  InvalidIds = {i0}
  Sources = {s1, s2}
  Deleters = {d1, d2}
  Notifiers = {n1}
  IdOf <- MCIdOf
  SourcesOf <- MCSourcesOf
  OverlapPerId = FALSE
  NoId = NoId
  NoThread = NoThread
SPECIFICATION Spec
INVARIANTS PointersAreLive KeysAreSubscribed AddedIsReachable
PROPERTY CallsReturn
CHECK_DEADLOCK FALSE
