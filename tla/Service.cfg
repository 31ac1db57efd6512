CONSTANTS
  r1 = r1 r2 = r2 r3 = r3 r4 = r4 r5 = r5
  u1 = u1 u2 = u2 u3 = u3
  sA = sA sB = sB
  Requests = {r1, r2, r3, r4, r5}
  Invalid = {r3}
  Uris = {u1, u2, u3}
  Sources = {sA, sB}
  Notifs = {n1}
  UrisOf <- MixedUrisOf
  EventUrisOf <- EventUris
  SourcesOfUri <- MCSourcesOfUri
  StoreSize = 3
  SubscribeMayFail = TRUE
  QueryMayFail = TRUE
  ResponseMayFail = TRUE
  ResponseMayRepeat = TRUE
  DeleteAnytime = FALSE
SPECIFICATION MCSpec
INVARIANTS NoPartialSubscription DeliveredIsOwn ReplayIsOrderedTail
PROPERTIES EveryoneIsServed
CHECK_DEADLOCK FALSE
