CONSTANTS
  e1 = e1 e2 = e2
  q1 = q1 q2 = q2 q3 = q3
  c1 = c1 c2 = c2
  Engines = {e1, e2}
  QueryIds = {q1, q2, q3}
  Calls = {c1}
  k1 = k1 k2 = k2
  Cancels = {k1, k2}
  Workers <- MCWorkers
  RoutingTable <- MCRoutingTable
  Routed <- MCRouted
  Incompatible <- MCIncompatible
  PlansOf <- MCPlansOf
  Inputs <- OneCall
  Timed = {q1}
  MaxThreads = 2
  NoThread = NoThread
SPECIFICATION Spec
PROPERTY CancelReturns
CHECK_DEADLOCK FALSE
