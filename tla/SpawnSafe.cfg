CONSTANTS
  p0 = p0
  p1 = p1
  p2 = p2
  Sources <- ThreeSources
  Root = p0
  Explored = {"generic", "single"}
  MaxPolls = 1
  LastWait = TRUE
  Leftovers = {}
  Spurious = {"generic", "single"}
  MaxRedist = 0
SPECIFICATION Spec
CHECK_DEADLOCK FALSE
INVARIANTS CompletedMeansConnected CollectivesMatch JoinAfterPort
PROPERTIES AbsSpec WaitReturnsFinished
