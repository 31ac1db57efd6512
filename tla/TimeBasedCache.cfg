CONSTANTS
  chassis = chassis
  log = log
  Threads = {t1, t2}
  Paths = {chassis, log}
  Posts = {post}
  Nested <- MCNested
  Blocklisted = {log}
  Durations = {1}
  MaxAge = 1
  MaxTime = 1
  MaxCalls = 2
SPECIFICATION Spec
INVARIANTS NoWaiterForgotten FailuresAreNotCached FreshAnswersAreLive
PROPERTIES CachedWithinDuration ResultsNeverGoBack
SYMMETRY ThreadSymmetry
