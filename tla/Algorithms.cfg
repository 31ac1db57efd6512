SPECIFICATION Spec
INVARIANTS
  NavigationFlattens
  OverrideCommutesWithExpand
  DevpathsFollowTheHardware
  EveryResourceOnce
  ResultsKeepTheirMeaning
  VerdictMatchesReference
  PredicatesKeepTheirMeaning
  NormalizersAgree
  PlannerAnswersTheQuery
  TransferIsDelivered
  RouterFollowsItsSpec
  ValidQueriesAreUnambiguous
CHECK_DEADLOCK FALSE
