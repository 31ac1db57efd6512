SPECIFICATION Spec
CONSTANTS
  Threads = {t1, t2}
  Admin = admin
  MaxTransports = 2
  MaxCalls = 1
  MaxUpdates = 1
  Requests <- OneOfEach
  MaxFetches = 2
INVARIANTS
  ReadersSeeOneEndpoint
  OverrideIsStable
  SessionsAreReleased
PROPERTY
  CallsReturn
CHECK_DEADLOCK FALSE
