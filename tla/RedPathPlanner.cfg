CONSTANTS
  Root = "root"
  Kind <- MCKind
  Child <- MCChild
  Pointer <- MCPointer
  Members <- MCMembers
  Matches <- MCMatches
  Comparing <- MCComparing
  WithVariables <- MCComparing
  Query <- MCQuery
  Propertyless = {}
  NoData <- MCNoData
  Expand <- MCExpand
  Less <- MCLess
  Begins <- MCBegins
  Subscribable <- MCSubscribable
  Faults <- MCFaults
  Caches <- MCCaches
  ResumeAt <- MCResumeAt
SPECIFICATION Spec
INVARIANT AnswersAreOnceAndFresh
PROPERTIES ImplementsQueryAnswer
