CONSTANTS
  Threads = {t1, t2}
  Refresh = 1
  MaxTime = 2
  MaxCalls = 2
SPECIFICATION Spec
INVARIANTS FailedStubStaysRetired FailoverIsSound
SYMMETRY ThreadSymmetry
