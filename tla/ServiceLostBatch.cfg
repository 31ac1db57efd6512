CONSTANTS
  r1 = r1 r2 = r2 r3 = r3 r4 = r4 r5 = r5
  u1 = u1 u2 = u2 u3 = u3
  sA = sA sB = sB
  Requests = {r1}
  Invalid = {}
  Uris = {u1, u2}
  Sources = {sA, sB}
  Notifs = {n1}
  UrisOf <- SharedUrisOf
  EventUrisOf <- SharedUrisOf
  SourcesOfUri <- MCSourcesOfUri
  StoreSize = 2
  SubscribeMayFail = FALSE
  QueryMayFail = FALSE
  ResponseMayFail = TRUE
  ResponseMayRepeat = FALSE
  DeleteAnytime = FALSE
SPECIFICATION Spec
INVARIANT QueriedIsDone
CHECK_DEADLOCK FALSE
